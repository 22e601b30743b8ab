CONSTANTS
    c1 = c1
    c2 = c2
    c3 = c3
    Conns <- MCConns
    NumFds = 4
    max_clients = 2
    StopsOnMain = FALSE
SPECIFICATION FairServerSpec
INVARIANTS
    SessionOwnsFd
    RegistryIsExact
    
PROPERTIES
    SessionsOutlined
    StopEndsRun
