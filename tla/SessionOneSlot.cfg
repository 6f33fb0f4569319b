CONSTANTS
    Slots = {s1}
    Workers = {w1, w2, w3}
    Sockets = {k1, k2, k3}
    Buffers = {b1, b2, b3}
    INVALID_SOCKET = INVALID_SOCKET
    RESERVED = RESERVED
    None = None
    RE_USE_SESSION_WAIT_TIMESEC = 3
    MaxLag = 3
    MaxPass = 1
    MaxCount = 1
    AcceptFaults = TRUE
SPECIFICATION Spec
SYMMETRY Symmetry
INVARIANTS
    SendOfHeadOnly
    OneRecvPerSlot
    OneAcceptPerSlot
    NoStaleIo
    NoOldMessage
PROPERTIES
    NoSocketLeak
    RefinesLifecycle
    RefinesOutput
CHECK_DEADLOCK FALSE
