SPECIFICATION Spec
CONSTANTS
    Windows <- KnownWindows
    MaxSignals = 3
    MaxAlarms = 1
INVARIANTS
    ShieldHolds
    CauseKnown
PROPERTIES
    InterruptSeen
CHECK_DEADLOCK FALSE
