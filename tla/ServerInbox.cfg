SPECIFICATION Spec
CONSTANTS
    Slots = {s1, s2}
    Positions = {Spawn}
    Spawn = Spawn
    Unknown = Unknown
    Ops = {"CHAT"}
    MaxSessions = 3
    MaxUnread = 2
    Batches = {0, 1, 2}
    MaxSystem = 2
PROPERTY
    RefinesInbox
SYMMETRY Symmetry
