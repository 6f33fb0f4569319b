CONSTANTS
    origin = origin
    here = here
    Clients = {0, 1, 2}
    Me = 1
    Places = {origin, here}
    Origin = origin
    MaxPackets = 2
SPECIFICATION Spec
INVARIANTS
    LastDispatched
    PointersAlive
    SocketOutlivesThread
PROPERTIES
    ShutdownReturns
    EveryPushTaken
CHECK_DEADLOCK FALSE
