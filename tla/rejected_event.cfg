\* A rejected connection leaves its close event behind.
SPECIFICATION Spec
CONSTANTS
    c1 = c1
    c2 = c2
    Conns = {c1, c2}
    NoConn = NoConn
    Rejects = TRUE
    EarlyFree = FALSE
    Faults = {}
INVARIANT NoOrphanEvents
CHECK_DEADLOCK FALSE
