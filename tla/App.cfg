CONSTANTS
    w1 = w1
    w2 = w2
    w3 = w3
    Workers = {w1, w2, w3}
SPECIFICATION Spec
INVARIANTS
    HandlersReady
    NothingLeftRunning
    RoleHasTimers
PROPERTIES
    JoinsApproach
    ShutdownReturns
CHECK_DEADLOCK FALSE
