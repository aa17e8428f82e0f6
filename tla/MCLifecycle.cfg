CONSTANTS
    MaxPath = 2
    Confs <- MCConfs
SPECIFICATION FairSpec
INVARIANTS
    TypeOK
    ThreadsHaveResources
    NothingLeft
PROPERTIES
    CallsEnd
CHECK_DEADLOCK FALSE
