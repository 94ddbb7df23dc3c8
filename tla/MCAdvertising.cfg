\* Three clients for two connection slots; they write any value.
SPECIFICATION Spec
CONSTANTS
    Clients = {c1, c2, c3}
    MaxConn = 2
    OtherBits = {"b1"}
    Writes <- AnyWrite
SYMMETRY Symmetry
INVARIANTS
    TypeOK
    FreshDataAnnounced
    ServedOnlyAfterMeasure
    SilentWhenIdle
    OffAirOnlyForCause
PROPERTY
    ImplementsSensor
