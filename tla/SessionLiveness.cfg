CONSTANTS
    Slots = {s1}
    Workers = {w1, w2}
    Sockets = {k1, k2}
    Buffers = {b1}
    INVALID_SOCKET = INVALID_SOCKET
    RESERVED = RESERVED
    None = None
    RE_USE_SESSION_WAIT_TIMESEC = 1
    MaxLag = 1
    MaxPass = 1
    MaxCount = 0
    AcceptFaults = FALSE
SPECIFICATION FairSpec
PROPERTY ClosedSlotReturns
