SPECIFICATION FairSpec
CONSTANTS
    MaxFirings = 2
    MaxRuns = 3
    MaxFaults = 1
    Scopes <- ApprovalScopes
INVARIANTS
    TypeOK
    OneResumePerInterrupt
    PendingIsWaiting
    ExpiredIsNotSuccess
PROPERTIES
    DecisionIsFinal
    NoLateDecision
    EveryRequestEnds
CHECK_DEADLOCK FALSE
