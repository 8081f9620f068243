SPECIFICATION Spec
CONSTANTS
    MaxJobs = 8
    MaxStops = 4
INVARIANTS
    TypeOK
    FlagHasItsJob
    JobsBounded
PROPERTY
    TrainingEndsAtLast
CHECK_DEADLOCK FALSE
