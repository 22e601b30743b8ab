CONSTANTS
    c1 = c1
    c2 = c2
    c3 = c3
    Conns <- MCOneConn
    NumFds = 3
    max_clients = 2
    StopsOnMain = TRUE
SPECIFICATION FairServerSpec
PROPERTY StopEndsRun
CHECK_DEADLOCK FALSE
