\* Two clients.
SPECIFICATION Spec
CONSTANTS
    Clients = {c1, c2}
    MaxConn = 2
    OtherBits = {}
    Writes <- ClearAll
INVARIANT
    AcknowledgedAfterRetrieval
