\* Any call may fail and a protocol may report any disposition.
SPECIFICATION Spec
CONSTANTS
    MaxSends = 3
    MaxRecvs = 2
    MaxBytes = 4
    BufLen = 3
    MinLengths = {1, 3}
    Faults = {"malloc", "writev", "event_add", "readv"}
    StaleCallbacks = {"null", "garbage"}
    SendEvents = {"sent", "expired", "sendError"}
    ReceiveEvents = {"receivedPartial", "received", "receiveError"}
    AppAllocates = TRUE
INVARIANTS
    TypeOK
    SendCtxQueued
    WireInOrder
    StreamIntact
    TruncVecOwned
PROPERTY EventAtMostOnce
CHECK_DEADLOCK FALSE
