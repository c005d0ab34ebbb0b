SPECIFICATION Spec
CONSTANTS
    Threads = {a, b}
    NONE = NONE
    Switches <- AllModes
    MaxDepth = 3
    MaxOps = 6
    Wrap = 8
PROPERTIES
    ReadersReturn
CHECK_DEADLOCK FALSE
