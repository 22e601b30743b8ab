CONSTANTS
    NumGpus = 3
    Clients <- MCClients
    Topologies <- MCTopologies
    backlog_threshold = 2
    MaxDepth = 3
    MaxRounds = 4
SPECIFICATION PlacerSpec
INVARIANTS
    BestPeerIsBest
    PlacedWell
