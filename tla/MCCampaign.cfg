SPECIFICATION Spec
CONSTANTS
    Task <- TwoTasks
    Trial <- TwoTrials
    MaxSessions = 3
    MaxMishaps = 1
CHECK_DEADLOCK FALSE
INVARIANTS
    ExitZeroMeansCurrent
    PassedReplaysAgree
    RecordingsAreWhole
    ComparedRunsDifferAsDeclared
