CONSTANTS
    Settable = {"keepAlive"}
    Multipaths = {"disabled", "active"}
    Directions = {"send"}
    Interfaces = {"eth0"}
    NoSuchInterface = "eth9"
    MaxSets = 2
    Ports = {0, 80}
    IPv4s = {a4}
    IPv6s = {a6}
    StringFields = {"service"}
    Unset = Unset
    Directories <- MCDirectories
    MaxCandidates = 2
    StaleCounts <- MCStaleCounts
    NoListener = NoListener
SPECIFICATION Spec
INVARIANTS TypeOK PreferenceHonoured CandidatesMatch StringsFreedOnce
           OnlyStaleFaults ListensAsAsked
CHECK_DEADLOCK FALSE
