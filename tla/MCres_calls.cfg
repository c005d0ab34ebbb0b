SPECIFICATION Spec
CONSTANTS
    Los <- AnyLo
    ParallelLos = {0}
    Height = 3
    MaxLevel = 3
    Limits <- UptoHighest
    MaxGaps = 2
    MaxCalls = 2
    Graphs = 1
INVARIANTS
    Prereqs
    Constructed
    AnswerExact
PROPERTIES
    Returns
CHECK_DEADLOCK FALSE
