CONSTANTS
    WindowSize = 2
    SeqSpace = 16
    NoPkt = NoPkt
    Sessions = {1, 2}
    Elements = {1, 2, 3, 4}
    Packets <- MCPackets
    Fragments = {}
    MaxMessage = 3
    Paths = {1, 2}
    Confs <- Safety
    Pings = TRUE
    Keeps = TRUE
    DedupSlots = 0
SPECIFICATION Spec
INVARIANTS
    TypeOK
    StrictOrder
    NoSilentGap
PROPERTIES
    FinAfterData
