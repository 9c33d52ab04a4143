\* One to three files, well formed and not, in every order; three slots.
SPECIFICATION LiveSpec
CONSTANTS
    Directories <- MCDirectories
    Contents <- MCContents
    NoDirectory = NoDirectory
    Slots = 3
    PropertyNames <- MCPropertyNames
INVARIANTS
    TypeOK
    WithinSlots
    EntriesComplete
    OneFileFound
    FromOneDocument
PROPERTY ScanReturns
CHECK_DEADLOCK FALSE
