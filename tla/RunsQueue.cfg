SPECIFICATION Spec
CONSTANTS
    Runs = {1, 2, 3}
    Inputs = {i1, i2}
    Workers = {w1}
    NoWorker = NoWorker
    Revoked = "stop"
    DbMayFail = FALSE
    AgUiAttach = FALSE
    RowsChange = TRUE
SYMMETRY Symmetry
VIEW QueueState
INVARIANTS
    InputFate
