\* A peer that sends and closes when it likes; memory may run out and writes
\* may be short.
SPECIFICATION EchoLiveSpec
CONSTANTS
    MaxSends = 5
    MaxRecvs = 6
    MaxBytes = 5
    BufLen = 3
    MinLengths = {0}
    Faults = {"malloc"}
    StaleCallbacks = {"null"}
    SendEvents = {"sent"}
    ReceiveEvents = {"receivedPartial"}
    AppAllocates = FALSE
    Pipelined = TRUE
    ShortWrites = TRUE
INVARIANTS
    EchoTypeOK
    EchoFaithful
    MessagesOwned
PROPERTIES
    EchoCompletes
    CloseFrees
CHECK_DEADLOCK FALSE
