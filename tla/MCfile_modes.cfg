SPECIFICATION Spec
CONSTANTS
    Threads = {a, b}
    NONE = NONE
    Switches <- AllModes
    MaxDepth = 3
    MaxOps = 6
    Wrap = 8
INVARIANTS
    TypeOK
    OneWriter
    CountsAreTheOwners
PROPERTIES
    WaitersReturn
CHECK_DEADLOCK FALSE
