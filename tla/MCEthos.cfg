CONSTANTS
    t1 = t1
    t2 = t2
    NoThread = NoThread
    Threads <- MCThreads
    Files <- MCFiles
    NodeLists <- MCNodes
    MaxU32 = 7
    kMaxRegions = 2
    kMaxCommandBytes = 1
    kMaxRegionBytes = 3
    MaxCalls = 2
SPECIFICATION FairSpec
INVARIANTS
    BuffersAccounted
    OutputIsOwn
    TensorsInside
PROPERTY RunEnds
CHECK_DEADLOCK FALSE
