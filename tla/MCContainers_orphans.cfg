CONSTANTS
    Attempt = {a1}
    Worker = {w1, w2}
    Reliable = {w1}
    NoAttempt = NoAttempt
    LateCreates = TRUE
    SlowCommits = TRUE
    Exits <- AnyExit
    MaxFaults = 2
SPECIFICATION Spec
INVARIANTS ReturnedRunsLeaveNothing
PROPERTIES NothingStays
