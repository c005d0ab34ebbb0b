SPECIFICATION Spec
CONSTANTS
    Monomials <- MCMonomials
    Lcm <- MCLcm
    Degree <- MCDegree
    Coprime <- MCCoprime
    Gens <- ThreeGens
    GenDegree <- ThreeDegrees
    StopChoices <- Limits
    Rehint = TRUE
    MaxElements = 4
    MaxStops = 1
    MaxPairs = 3
INVARIANTS
    DoneIsGroebner
CHECK_DEADLOCK FALSE
