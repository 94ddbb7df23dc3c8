\* The sample loop and the filter, with one reading that is unreasonable;
\* clients write the error word at any time.
SPECIFICATION Spec
CONSTANTS
    NumSamples = 4
    MaxAttempts = 5
    Readings = {0, 5, 9}
    Depths = {}
    ErrorWrites <- SomeErrorWrites
    DefaultDepth = 6
    ByteBase = 4
    Station = TRUE
INVARIANTS
    MajorityDecides
    StaleIsFlagged
    PointFlagged
    CrashReported
