CONSTANTS
    c1 = c1
    c2 = c2
    NoClient = NoClient
    Clients <- MCOneClient
    NumGpus = 2
    Peer <- MCPeer
    Thresholds = {1}
    MaxExchanges = 1
SPECIFICATION FairSpec
PROPERTY StopEndsRun
CHECK_DEADLOCK FALSE
