SPECIFICATION FairSpec
CONSTANTS
    Runs = {1}
    Inputs = {}
    Workers = {w1}
    NoWorker = NoWorker
    Revoked = "stop"
    DbMayFail = FALSE
    AgUiAttach = FALSE
    RowsChange = FALSE
PROPERTIES
    CancelEnds
