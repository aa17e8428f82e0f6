CONSTANTS
    WindowSize = 2
    SeqSpace = 16
    NoPkt = NoPkt
    Paths = {1}
    Path0 = 1
    Sessions = {1, 2}
    Elements = {1, 2, 3}
    Packets <- MCPackets
    Confs <- Closing
    MaxCuts = 1
    MaxConns = 1
SPECIFICATION Spec
INVARIANTS
    AckMeansDelivered
CHECK_DEADLOCK FALSE
