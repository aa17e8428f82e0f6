CONSTANTS
    Depth = 2
    MaxPayload = 5
    HdrSize = 1
    MsgLens = {1, 5}
    MaxMsgs = 3
    Tcp = TRUE
    PackWait = FALSE
SPECIFICATION FairSpec
INVARIANTS
    InOrder
    Capacity
    FinFollowsData
PROPERTIES
    BlockingSendHandsOver
    StopTerminates
