SPECIFICATION Spec
CONSTANTS
    Los = {}
    ParallelLos <- AnyLo
    Height = 3
    MaxLevel = 3
    Limits <- UptoHighest
    MaxGaps = 1
    MaxCalls = 1
    Graphs = 1
INVARIANTS
    Constructed
CHECK_DEADLOCK FALSE
