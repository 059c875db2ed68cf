CONSTANTS
    Transports = {"in_process", "mcp"}
    Kinds = {"task", "resolve", "escalate"}
    MaxIterations = 3
    MaxMalformed = 2
    RequireVerified = TRUE
SPECIFICATION Spec
CHECK_DEADLOCK FALSE
INVARIANTS ResolvedMeansRight DamageIsNoticed MalformedRunsAreCut ConversationAlternates FinishesAreVerified
PROPERTIES EveryRunEnds
