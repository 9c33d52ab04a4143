\* Two installed files and room for all their protocols.
SPECIFICATION Spec
CONSTANTS
    Directories <- TwoFiles
    Contents <- MCContents
    NoDirectory = NoDirectory
    Slots = 4
    PropertyNames <- MCPropertyNames
INVARIANT AllFound
CHECK_DEADLOCK FALSE
