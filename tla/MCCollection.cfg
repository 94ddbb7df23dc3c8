\* Times in units of four minutes or so: the timeout is one unit longer than
\* the period.  A measurement takes no time beside that.
SPECIFICATION FairSpec
CONSTANTS
    Station = station
    Other = other
    MaxConn = 2
    OtherBits = {"b1"}
    Period = 4
    Spell = 0
    Timeout = 5
    SessionLimit = 1
INVARIANTS
    TypeOK
PROPERTIES
    WaitEndsForCause
    NoneSkipped
    StampFits
    WokenAgain
