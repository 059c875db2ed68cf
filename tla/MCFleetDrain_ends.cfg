CONSTANTS
    Job <- OneJob
    Worker = {w1, w2}
    Reliable = {w1}
    NoWorker = NoWorker
    Outcomes = {"succeeded"}
    MaxAttempts <- Budget2
    MaxBudget = 2
    Lease = 1
    Backoff = 1
    BackoffCap = 1
    Cancellable = {1}
    MaxFaults = 2
    MaxClock = 0
SPECIFICATION DrainSpec
PROPERTIES EveryJobEnds CancelLands
