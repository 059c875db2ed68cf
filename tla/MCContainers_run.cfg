CONSTANTS
    Attempt = {a1, a2}
    Worker = {w1, w2}
    Reliable = {w1}
    NoAttempt = NoAttempt
    LateCreates = TRUE
    SlowCommits = FALSE
    Exits <- EveryExit
    MaxFaults = 0
SPECIFICATION Spec
SYMMETRY Attempts
INVARIANTS LimitKillsAreFinal TasksRunBehindTheirProxy
PROPERTIES LiveAttemptsAreSpared
