\* Liveness, without symmetry; the base station's write.
SPECIFICATION FairSpec
CONSTANTS
    Clients = {c1, c2}
    MaxConn = 2
    OtherBits = {}
    Writes <- ClearAll
INVARIANT
    NewDataOnAir
PROPERTY
    Reachable
