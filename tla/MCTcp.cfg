CONSTANTS
    WindowSize = 2
    SeqSpace = 16
    NoPkt = NoPkt
    Paths = {1, 2}
    Path0 = 1
    Sessions = {1, 2}
    Elements = {1, 2, 3}
    Packets <- MCPackets
    Confs <- Safety
    MaxCuts = 1
    MaxConns = 1
SPECIFICATION Spec
INVARIANTS
    TypeOK
    StrictOrder
    NoSilentGap
    OldSessionShutOut
    QuietMeansReset
    AckMeansTaken
PROPERTIES
    SessionHolds
CHECK_DEADLOCK FALSE
