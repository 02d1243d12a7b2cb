SPECIFICATION FairSpec
CONSTANTS
    Jobs = {j1}
    Workers = {w1, w2}
    Slots = {s1, s2}
    NoWorker = NoWorker
    NoJob = NoJob
    MaxAttempts = 3
    DbMayFail = TRUE
    LeaseKept = TRUE
INVARIANTS
    TypeOK
    OneLiveAttempt
    AttemptsWithinMax
    FinishedIsIdle
PROPERTIES
    ResultByHolder
    NoAttemptAfterCancel
    EveryJobEnds
CHECK_DEADLOCK FALSE
