SPECIFICATION Spec
CONSTANTS
    Threads = {a, b}
    NONE = NONE
    Switches <- AllModes
    MaxDepth = 2
    MaxOps = 6
    Wrap = 8
ACTION_CONSTRAINT OverSleepers
INVARIANTS
    OneWriterAlways
CHECK_DEADLOCK FALSE
