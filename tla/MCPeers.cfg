CONSTANTS
    MaxPeers = 2
    IdSpace = 6
    s1 = s1
    s2 = s2
    s3 = s3
    p1 = p1
    p2 = p2
    Sessions = {s1, s2, s3}
    NoClient = NoClient
    Paths = {p1, p2}
    Reach <- MCReach
SPECIFICATION FairSpec
CHECK_DEADLOCK FALSE
INVARIANTS
    TypeOK
    CountMatches
    IdsDistinct
    AppViewExact
    ConnectedCanExpire
PROPERTIES
    SilenceDisconnects
