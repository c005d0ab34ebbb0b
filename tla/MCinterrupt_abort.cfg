SPECIFICATION Spec
CONSTANTS
    Windows <- KnownWindows
    MaxSignals = 3
    MaxAlarms = 0
INVARIANTS
    ShieldIsTemporary
CHECK_DEADLOCK FALSE
