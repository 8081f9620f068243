SPECIFICATION FairSpec
CONSTANTS
    CallIds = {1, 2}
    MaxBurns = 2
    EngineRestarts = 1
    MaxBeats = 2
    MaxBeatsAdrift = 1
    BeaconRestarts = 1
    ChatBatch = 2
    MaxMessages = 3
    ChatRestarts = 1
    Deployments = {{"engine"}, {"beacon"}, {"chat"}}
INVARIANTS
    TypeOK
    BeatsHonest
    ShownExactly
PROPERTIES
    MessagesReached
    HealHeals
CHECK_DEADLOCK FALSE
