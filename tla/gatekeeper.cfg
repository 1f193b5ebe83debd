SPECIFICATION FairSpec
CONSTANTS
    t1 = t1
    t2 = t2
    t3 = t3
    Callers <- ThreeThreads
    Capacity = 1
    Window = 1
    BurstThreshold = 2
    DailyLimit = 1
    MaxDepth = 2
    MaxRetries = 1
    MaxWait = 2
    MaxCalls = 4
INVARIANTS
    TypeOK
    BurstIsBounded
    OvershootIsBounded
PROPERTIES
    EveryCallEnds
