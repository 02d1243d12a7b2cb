SPECIFICATION Spec
CONSTANTS
    Runs = {1, 2}
    Inputs = {i1}
    Workers = {w1, w2}
    NoWorker = NoWorker
    Revoked = "revoked"
    DbMayFail = TRUE
    AgUiAttach = FALSE
    RowsChange = FALSE
SYMMETRY Symmetry
VIEW LiveState
INVARIANTS
    TypeOK
    AckMeansStopped
    OverlapOnlyWhenStale
    AckedRunIsCanceled
    PublishedMatchesRow
PROPERTIES
    ImplementsLifecycle
    SteerWaitsForStop
    StartedOnce
