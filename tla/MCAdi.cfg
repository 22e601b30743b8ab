CONSTANTS
    c1 = c1
    c2 = c2
    NoClient = NoClient
    Clients <- MCClients
    NumGpus = 2
    Peer <- MCPeer
    Thresholds = {0, 1}
    MaxExchanges = 2
SPECIFICATION FairSpec
INVARIANTS
    AffinityIsExact
    OneTaskEach
    PacketsInOrder
PROPERTY QueuedIsAnswered
CHECK_DEADLOCK FALSE
