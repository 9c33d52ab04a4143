\* Applications that reject connections or free early, and failing calls.
SPECIFICATION LiveSpec
CONSTANTS
    c1 = c1
    c2 = c2
    c3 = c3
    Conns = {c1, c2, c3}
    NoConn = NoConn
    Rejects = TRUE
    EarlyFree = TRUE
    Faults = {"malloc", "event_add", "bind"}
INVARIANTS
    TypeOK
    RefCountExact
    ListenerOutlives
    OrphansOnlyUnaccepted
    CrashesExplained
PROPERTIES
    ImplementsContract
    StopCompletes
CHECK_DEADLOCK FALSE
