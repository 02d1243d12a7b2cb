SPECIFICATION Spec
CONSTANTS
    Runs = {1}
    Inputs = {}
    Workers = {w1, w2}
    NoWorker = NoWorker
    Revoked = "stop"
    DbMayFail = FALSE
    AgUiAttach = TRUE
    RowsChange = FALSE
PROPERTIES
    TerminalIsFinal
