\* Clients set the tank depth at any time, also in part; restarts; a flash
\* that fails.
SPECIFICATION Spec
CONSTANTS
    NumSamples = 1
    MaxAttempts = 2
    Readings = {3, 6}
    Depths = {2, 5}
    ErrorWrites = {}
    DefaultDepth = 4
    ByteBase = 4
    Station = FALSE
INVARIANTS
    TypeOK
    LevelFitsDistance
    DepthInUse
    DepthPersists
