CONSTANTS
    WindowSize = 3
    SeqSpace = 8
    Packets = {6, 7, 8, 9, 10, 11, 12, 13, 14, 15, 16}
    NoPkt = NoPkt
    FirstPos = 6
    LastPos = 16
SPECIFICATION Spec
INVARIANTS
    TypeOK
    SenderHolds
    ReceiverHolds
    NackExact
