SPECIFICATION FairSpec
CONSTANTS
    NumKeys = 2
    Values = {"wide", "narrow"}
    Absent = Absent
    Starts = {{1, 2}, {1}}
    Workers = {w1, w2}
    MaxRows = 4
    BatchLimit = 2
    MaxAborts = 1
    CompletionMayFail = TRUE
    CommitBetween = FALSE
INVARIANTS TypeOK OverlayCovers RowsSettleInOrder RevokedIsGone
PROPERTIES ImplementsProjection EveryRowLands
CHECK_DEADLOCK FALSE
