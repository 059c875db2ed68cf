SPECIFICATION Spec
CONSTANTS
    Prompt = {p1, p2}
    Sampling = {s1, s2}
    Iterations <- TwoOrThree
    MaxMalformed = 2
    MaxAttempts = 2
SYMMETRY Settings
CHECK_DEADLOCK FALSE
INVARIANTS
    UndivergedReplaysEndAlike
    FaithfulReplaysNeverDiverge
    MatchesAreTheAgents
    CallsAreAnswers
