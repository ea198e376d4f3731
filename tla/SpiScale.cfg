SPECIFICATION FairSpec
CONSTANTS
    Callers = {c1, c2}
    NoOne = NoOne
    Weights <- MCWeights
    Base = 4
    MaxCalls = 3
    MaxMoves = 2
    MaxFaults = 1
    MaxProbes = 2
INVARIANTS
    ScaleTypeOK
    ExchangeIsOurs
    StillWeightIsShown
PROPERTIES
    IsBalance
    EverythingEnds
