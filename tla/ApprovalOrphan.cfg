SPECIFICATION Spec
CONSTANTS
    MaxFirings = 1
    MaxRuns = 2
    MaxFaults = 0
    Scopes <- OrphanScopes
INVARIANTS
    WaitingIsHeld
CHECK_DEADLOCK FALSE
