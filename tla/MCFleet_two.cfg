CONSTANTS
    Job <- TwoJobs
    Worker = {w1}
    NoWorker = NoWorker
    Outcomes = {"succeeded"}
    MaxAttempts <- Mixed
    MaxBudget = 2
    Lease = 1
    Backoff = 0
    BackoffCap = 1
    Cancellable = {2}
    MaxClock = 2
SPECIFICATION Spec
PROPERTIES ImplementsQueue
