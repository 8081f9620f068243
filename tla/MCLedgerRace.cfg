\* Two places, no restart: two live processes, one of them stale, an open log.
SPECIFICATION FairSpec
CONSTANTS
    Instances = {n1, n2}
    RenewEvery = 2
    MaxRestarts = 0
    MaxTx = 3
    MaxAdrift = 2
    FencedWal = FALSE
INVARIANTS
    TypeOK
    TxOnce
    TxInOrder
    ZombieWritesBounded
    MarkerSound
PROPERTIES
    MarkerMonotone
    LiveLeaseOnlyExpires
    ImplementsOpenLog
    StaleProcessStops
CHECK_DEADLOCK FALSE
