SPECIFICATION FairSpec
CONSTANTS
    Tattles = 1
    Flood = 2
    TelemetryWindow = 2
    StateWindow = 2
    Prior = {}
    MaxPrior = 0
    Earlier = {}
    Drifting = {}
    MaxAdrift = 1
INVARIANT PhantomCleanedUp
CHECK_DEADLOCK FALSE
