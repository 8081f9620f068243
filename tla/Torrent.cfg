SPECIFICATION Spec
CONSTANTS
    Chunks = 6
    Window = 2
INVARIANTS
    TypeOK
    StreamsExact
    InFlightBounded
    CompletedMeansAcked
PROPERTY TorrentEnds
CHECK_DEADLOCK FALSE
