SPECIFICATION Spec
CONSTANTS
    Windows <- KnownWindows
    MaxSignals = 3
    MaxAlarms = 2
INVARIANTS
    NoInterruptLost
CHECK_DEADLOCK FALSE
