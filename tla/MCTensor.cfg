CONSTANTS
    c1 = c1
    c2 = c2
    c3 = c3
    NoClient = NoClient
    Clients <- MCClients
    NumGpus = 1
    NumLanes = 2
    ModelIds = {1, 2}
    Engines <- MCEngines
    Loaders <- MCLoaders
    MaxRequests <- MCRequests
SPECIFICATION FairSpec
INVARIANTS
    TaskInOnePlace
    BuffersFit
    
 
