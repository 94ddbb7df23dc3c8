\* 2^30 stands for 2^32: TLC's integers are signed and have 32 bits.
SPECIFICATION Spec
CONSTANTS
    Samples <- SomeSamples
    Quarters <- SomeQuarters
    Pulses <- SomePulses
    WordModulus = 1073741824
INVARIANTS
    TypeOK
    TemperatureArrives
    DistanceArrives
PROPERTY
    LevelFollowsVoltage
