\* One place, restarts left: does a ledger follow a ledger that failed?
SPECIFICATION FairSpec
CONSTANTS
    Instances = {n1}
    RenewEvery = 2
    MaxRestarts = 2
    MaxTx = 2
    MaxAdrift = 1
    FencedWal = TRUE
PROPERTY
    Failover
CHECK_DEADLOCK FALSE
