SPECIFICATION FairSpec
CONSTANTS
    Slots = {s1, s2}
    Positions = {Spawn}
    Spawn = Spawn
    Unknown = Unknown
    Ops = {"LOGIN", "SIGNIN", "CHAT", "TEST", "IN_GAME", "DAMAGE"}
    MaxSessions = 2
    MaxUnread = 1
    Batches = {0, 1}
    MaxSystem = 2
PROPERTIES
    EveryClientServed
    DisconnectsTaken
