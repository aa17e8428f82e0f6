CONSTANTS
    Depth = 2
    MaxPayload = 5
    HdrSize = 1
    MsgLens = {1, 2, 9}
    MaxMsgs = 4
    Tcp = FALSE
    PackWait = TRUE
SPECIFICATION FairSpec
INVARIANTS
    TypeOK
    InOrder
    Capacity
    PackingSound
    FinFollowsData
    ClosedMeansSent
PROPERTIES
    BlockingSendHandsOver
    CallsReturn
    ImplementsChannel
