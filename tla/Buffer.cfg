SPECIFICATION FairSpec
CONSTANTS
    PACKET_DATA_BUFFER_SIZE = 7
    PACKET_HEADER_LENGTH = 2
    MAX_SOCKBUF = 4
    PacketLengths = {2, 3}
    MaxSent = 11
INVARIANTS
    PacketIntact
    UnreadInPlace
    OverrunOnlyWhenFull
PROPERTIES
    RefinesInbox
    RequestHandled
CHECK_DEADLOCK FALSE
