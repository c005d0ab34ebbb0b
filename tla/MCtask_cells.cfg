SPECIFICATION Spec
CONSTANTS
    Tasks = {t, u}
    Threads = {g, h}
    OneTaker = TRUE
    MaxOps = 4
INVARIANTS
    ResultOnce
    FunctionRunsOnce
PROPERTIES
    TakersReturn
CHECK_DEADLOCK FALSE
