SPECIFICATION FairSpec
CONSTANTS
    LengthRadix = 256
    Ports <- IntegerPort
    Streams <- IntegerStreams
    MaxChunk = 2
    PacketTimeout = 1
    MaxNow = 1
    Retries = 2
    Outcomes <- AllOutcomes
    MaxConnections = 2
INVARIANTS
    WaitingBytesHaveEvent
    VariablesMatchPorts
    FewLateAttempts
PROPERTIES
    TerminateReturns
    PartialEventFlushed
CHECK_DEADLOCK FALSE
