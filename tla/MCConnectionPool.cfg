CONSTANTS
    Borrowers = {b1, b2, b3}
    Closer = closer
    PoolSizes = {0, 1, 2}
    MaxEpoch = 3
SPECIFICATION FairSpec
INVARIANTS
    TypeOK
    OpenAccountedFor
    LeasesExclusive
    QueueIsCurrent
    PoolWithinSize
    AllOrNothing
    NoLostWakeup
PROPERTIES
    ShutdownWaitsForLeases
    ImplementsLease
    TakersServed
    ShutdownEnds
CHECK_DEADLOCK FALSE
