SPECIFICATION Spec
CONSTANTS
    MaxJobs = 6
    MaxStops = 3
INVARIANT
    OneTraining
CHECK_DEADLOCK FALSE
