SPECIFICATION Spec
CONSTANTS
    LengthRadix = 256
    Ports <- IntegerPort
    Streams <- IntegerStreams
    MaxChunk = 2
    PacketTimeout = 1
    MaxNow = 2
    Retries = 2
    Outcomes <- AllOutcomes
    MaxConnections = 2
INVARIANTS
    IntervalStartsAnew
CHECK_DEADLOCK FALSE
