\* Pulses a cycle longer than the timeout; the counter wraps; echoes of one
\* fetch may reach into the next.
SPECIFICATION FairSpec
CONSTANTS
    CycleModulus = 4
    EchoTimeout = 2
    MaxWidth = 3
    CyclesPerMm = 2
INVARIANTS
    TypeOK
    AssertStateReady
    SampleOfOnePulse
PROPERTIES
    ValueFromWidth
    FetchReturns
