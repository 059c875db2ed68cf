SPECIFICATION Spec
CONSTANTS
    Task <- TwoTasks
    Result <- Results
    Baseline <- Kept
    Floor = {0, 100}
    Case <- Cases
    Path = {"old", "new"}
    Tracked = {1, 2}
    Proc = {p1, p2}
    Tracker = {p1}
    MaxCommands <- Commands
    MaxCrashes = 1
CHECK_DEADLOCK FALSE
INVARIANTS
    PassedCandidatesAreNoWorse
    PassedReportsAreNoWorse
    StoredCountsAddUp
    AnsweredChangesStay
