SPECIFICATION FairSpec
CONSTANTS
    Tattles = 1
    Flood = 2
    TelemetryWindow = 2
    StateWindow = 2
    Prior = {"register", "transfer"}
    MaxPrior = 1
    Earlier = {}
    Drifting = {"register"}
    MaxAdrift = 1
INVARIANTS
    TypeOK
    ResultsInOrder
    VerdictsHaveEvidence
    FloodEvidenceSound
    CleanedMeansGone
PROPERTY PlaybookCompletes
CHECK_DEADLOCK FALSE
