CONSTANTS
    Job <- OneJob
    Worker = {w1, w2}
    NoWorker = NoWorker
    Outcomes = {"succeeded", "failed"}
    MaxAttempts <- Budget2
    MaxBudget = 2
    Lease = 2
    Backoff = 1
    BackoffCap = 1
    Cancellable = {1}
    MaxClock = 3
SPECIFICATION Spec
SYMMETRY Workers
INVARIANTS TypeOK LedgerInv FinalJobsPassCheck OneResultPerJob UnfinishedJobsAreClean CancelWins
    ConstraintsNeverFire ReportsAreTrue
PROPERTIES HistoryIsKept
