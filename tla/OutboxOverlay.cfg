SPECIFICATION Spec
CONSTANTS
    NumKeys = 1
    Values = {"wide", "narrow"}
    Absent = Absent
    Starts = {{}}
    Workers = {w1}
    MaxRows = 3
    BatchLimit = 2
    MaxAborts = 1
    CompletionMayFail = FALSE
    CommitBetween = TRUE
INVARIANTS OverlayCovers
CHECK_DEADLOCK FALSE
