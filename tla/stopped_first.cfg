\* Stopped comes before the last Closed.
SPECIFICATION Spec
CONSTANTS
    c1 = c1
    c2 = c2
    Conns = {c1, c2}
    NoConn = NoConn
    Rejects = FALSE
    EarlyFree = FALSE
    Faults = {}
INVARIANT StoppedAfterClosed
CHECK_DEADLOCK FALSE
