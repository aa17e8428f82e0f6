CONSTANTS
    MaxPeers = 1
    IdSpace = 16
    Sessions = {s1, s2}
    NoClient = NoClient
    Paths = {p1}
    Reach <- MCReach
    Depth = 2
    MaxPacked = 2
    Chunks = {1, 2}
SPECIFICATION SendSpec
CHECK_DEADLOCK FALSE
INVARIANTS
    SentToItsPeer
