\* The properties change between New and Listen.
CONSTANTS
    Settable = {"keepAlive"}
    Multipaths = {"active"}
    Directions = {"send"}
    Interfaces = {"eth0"}
    NoSuchInterface = "eth9"
    MaxSets = 1
    Ports = {0, 80}
    IPv4s = {a4}
    IPv6s = {a6}
    StringFields = {}
    Unset = Unset
    Directories <- MCDirectories
    MaxCandidates = 2
    StaleCounts <- MCStaleCounts
    NoListener = NoListener
SPECIFICATION Spec
INVARIANT FrozenAtListen
CHECK_DEADLOCK FALSE
