SPECIFICATION Spec
CONSTANTS
    Tables = {x, y}
    Keys <- FiveKeys
    Values = {1, 2}
    Missing = Missing
    One = 1
    Hash <- FiveHashes
    Offers <- EveryKey
    Concurrent = FALSE
INVARIANTS
    CellsFound
    CountExact
    LengthByCount
    EqualIsExtensional
PROPERTIES
    AreMaps
