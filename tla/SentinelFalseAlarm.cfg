\* A grid that does nothing wrong, a token that never changes.
SPECIFICATION Spec
CONSTANTS
    Topics = {state, consensus}
    Telemetry = telemetry
    Tokens = {7}
    MaxSeq = 2
    MaxEvents = 1
    MaxCycles = 3
    MaxCalls = 0
INVARIANT
    NoFalseAlarm
CHECK_DEADLOCK FALSE
