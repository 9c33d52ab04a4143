\* A peer that sends a line of one byte only when it has the echo of the one
\* before.
SPECIFICATION EchoSpec
CONSTANTS
    MaxSends = 4
    MaxRecvs = 5
    MaxBytes = 4
    BufLen = 2
    MinLengths = {0}
    Faults = {}
    StaleCallbacks = {"null"}
    SendEvents = {"sent"}
    ReceiveEvents = {"receivedPartial"}
    AppAllocates = FALSE
    Pipelined = FALSE
    ShortWrites = FALSE
INVARIANT EchoesPeer
CHECK_DEADLOCK FALSE
