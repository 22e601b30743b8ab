CONSTANTS
    t1 = t1
    t2 = t2
    t3 = t3
    NoThread = NoThread
    Threads <- MCThreads
    Workloads <- MCWorkloads
    NumGpus = 3
    Peer <- MCPeer
    backlog_threshold = 1
    max_inflight_per_gpu = 1
    max_payload_bytes = 2
SPECIFICATION FairSpec
INVARIANTS
    InflightExact
    
    PlaceKnowsHome
    
    ReplyIsHonest
PROPERTIES
    
    EveryRequestAnswered
