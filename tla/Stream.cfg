SPECIFICATION FairSpec
CONSTANTS
    Scopes <- StreamScopes
    Clients = {c1}
    MaxEvents = 4
    RingSize = 2
    QueueMax = 2
    FlushBatch = 2
    RetryCap = 2
INVARIANTS TypeOK EveryGapIsTold CacheBehindStore SavedUnlessGivenUp ProtocolStoresInOrder TerminalIsLast
PROPERTIES AttachmentsEnd ThreadCatchesUp
CHECK_DEADLOCK FALSE
