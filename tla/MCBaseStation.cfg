\* Three fields to a point: the sensor overtakes the reads in the middle.
SPECIFICATION FairSpec
CONSTANT
    NumAttributes = 3
INVARIANTS
    TypeOK
    FollowedKept
PROPERTIES
    ImplementsMailbox
    Recovers
    LinkReleased
