SPECIFICATION Spec
CONSTANTS
    Tasks = {t, u}
    Threads = {g, h}
    OneTaker = TRUE
    MaxOps = 4
INVARIANTS
    ReadyIsRetrievable
CHECK_DEADLOCK FALSE
