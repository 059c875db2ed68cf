CONSTANTS
    Client = {c1, c2}
    Asks <- MCAsks
    NoKey = NoKey
    Ceilings <- MCCeilings
    Grantable = {"model"}
    MaxSends = 3
SPECIFICATION Spec
SYMMETRY Clients
INVARIANTS OneBatchPerKey OneBatchPerCall AnswersAreTrue ConflictsAreReal
