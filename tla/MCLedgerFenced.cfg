\* Restarts, a log that refuses stale tokens.
SPECIFICATION Spec
CONSTANTS
    Instances = {n1, n2}
    RenewEvery = 1
    MaxRestarts = 1
    MaxTx = 2
    MaxAdrift = 1
    FencedWal = TRUE
SYMMETRY Symmetry
PROPERTIES
    ImplementsEpochLog
CHECK_DEADLOCK FALSE
