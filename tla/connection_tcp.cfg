\* TCP as it is, when no call fails.
SPECIFICATION LiveSpec
CONSTANTS
    MaxSends = 4
    MaxRecvs = 3
    MaxBytes = 5
    BufLen = 3
    MinLengths = {1, 3}
    Faults = {}
    StaleCallbacks = {"null", "taps"}
    SendEvents = {"sent"}
    ReceiveEvents = {"receivedPartial"}
    AppAllocates = FALSE
INVARIANTS
    SentTracksWire
    ReceiverArmed
PROPERTIES
    SendsAnswered
    BytesAreRead
    CloseAnswersAll
CHECK_DEADLOCK FALSE
