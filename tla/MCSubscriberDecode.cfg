SPECIFICATION Spec
CONSTANTS
    LengthRadix = 2
    Ports <- DecodePorts
    Streams <- DecodeStreams
    MaxChunk = 4
    PacketTimeout = 1
    MaxNow = 1
    Retries = 1
    Outcomes = {"unresolved"}
    MaxConnections = 2
INVARIANTS
    NothingDecodableWaits
    DeliveredAsSent
PROPERTIES
    StampsAscend
CHECK_DEADLOCK FALSE
