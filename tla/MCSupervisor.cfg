\* The times of module.nix, in units of 10 s; lives of 20 s and more are long.
SPECIFICATION FairSpec
CONSTANTS
    RestartSec = 1
    Burst = 3
    Interval = 6
    LongLife = 2
INVARIANTS
    TypeOK
    LateAdapterTolerated
    LongLivesRestarted
PROPERTY
    ComesUpOrGivenUp
