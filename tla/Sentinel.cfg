SPECIFICATION Spec
CONSTANTS
    Topics = {state, consensus}
    Telemetry = telemetry
    Tokens = {7}
    MaxSeq = 3
    MaxEvents = 3
    MaxCycles = 6
    MaxCalls = 1
INVARIANTS
    TypeOK
    OrderVerdictsExact
    TokenRecheckFlags
    ShutdownEventFinal
PROPERTY
    ShutdownCompletes
CHECK_DEADLOCK FALSE
