SPECIFICATION Spec
CONSTANTS
    Tables = {x, y}
    Keys <- FourKeys
    Values = {1, 2}
    Missing = Missing
    One = 1
    Hash <- FourHashes
    Offers <- EveryOne
    Concurrent = TRUE
CONSTRAINT CountExact
ACTION_CONSTRAINT Steady
INVARIANTS
    CellsFound
