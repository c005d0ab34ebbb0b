SPECIFICATION Spec
CONSTANTS
    Monomials <- MCMonomials
    Lcm <- MCLcm
    Degree <- MCDegree
    Coprime <- MCCoprime
    Gens <- ThreeGens
    GenDegree <- ThreeDegrees
    StopChoices <- Limits
    Rehint = FALSE
    MaxElements = 4
    MaxStops = 1
    MaxPairs = 3
INVARIANTS
    CountersExact
    PairsCovered
    CompleteThruDegree
    DoneIsGroebner
    NothingDueIsFlushed
    HandledOnce
PROPERTIES
    DegreeNeverFalls
    EventuallyDone
CHECK_DEADLOCK FALSE
