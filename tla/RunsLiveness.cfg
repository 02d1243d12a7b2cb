SPECIFICATION FairSpec
CONSTANTS
    Runs = {1}
    Inputs = {i1}
    Workers = {w1, w2}
    NoWorker = NoWorker
    Revoked = "stop"
    DbMayFail = TRUE
    AgUiAttach = TRUE
    RowsChange = FALSE
PROPERTIES
    WorkerlessCancelEnds
    CanceledOwnerStops
    OrphanIsSwept
