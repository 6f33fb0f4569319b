SPECIFICATION Spec
CONSTANTS
    Slots = {s1, s2}
    Positions = {Spawn, away}
    Spawn = Spawn
    Unknown = Unknown
    Ops = {"IN_GAME", "REMOTE", "MOVE"}
    MaxSessions = 3
    MaxUnread = 1
    Batches = {1}
    MaxSystem = 1
INVARIANT
    ViewsAgree
SYMMETRY Symmetry
