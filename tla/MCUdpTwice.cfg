CONSTANTS
    WindowSize = 2
    SeqSpace = 16
    NoPkt = NoPkt
    Sessions = {1, 2}
    Elements = {1, 2, 3, 4}
    Packets <- MCPackets
    Fragments = {}
    MaxMessage = 3
    Paths = {1, 2}
    Confs <- Closing
    Pings = TRUE
    Keeps = TRUE
    DedupSlots = 0
SPECIFICATION Spec
INVARIANTS
    DeliveredOnce
