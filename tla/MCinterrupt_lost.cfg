SPECIFICATION Spec
CONSTANTS
    Windows = {}
    MaxSignals = 3
    MaxAlarms = 1
PROPERTIES
    InterruptSeen
CHECK_DEADLOCK FALSE
