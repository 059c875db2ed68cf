CONSTANTS
    Job <- OneJob
    Worker = {w1, w2, w3, ghost}
    NoWorker = NoWorker
    Outcomes = {"succeeded"}
    MaxAttempts <- Budget2
    MaxBudget = 2
    Lease = 2
    Backoff = 0
    BackoffCap = 0
    Cancellable = {}
    MaxClock = 4
    Ghost = ghost
    WORKERS = 2
    FAULTS = 2
    GHOST_LEASE = 1
    PAUSE = 3
    OVERTAKE = 3
    LongJobs = {1}
    Scenarios <- Everything
SPECIFICATION ChaosSpec
SYMMETRY Workers
CHECK_DEADLOCK FALSE
INVARIANTS FaultsLeaveTheirEffects
