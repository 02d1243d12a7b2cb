SPECIFICATION Spec
CONSTANTS
    Scopes <- RetryScopes
    Clients = {c1}
    MaxEvents = 4
    RingSize = 2
    QueueMax = 2
    FlushBatch = 2
    RetryCap = 2
INVARIANT RetriedChunkIsReplayed
CHECK_DEADLOCK FALSE
