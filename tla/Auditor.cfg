SPECIFICATION Spec
CONSTANTS
    BatchSize = 2
    MaxRestarts = 1
    MaxLog = 3
INVARIANTS
    TypeOK
    AuditsAPrefix
    CursorExact
PROPERTY
    EveryEventAudited
CHECK_DEADLOCK FALSE
