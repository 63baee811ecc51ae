CONSTANTS
    Conns = {c1, c2}
    Fds = {4, 5}
    socket_listen = 3
    NULL = NULL
    Units <- MCUnits
    Text <- FourUnitsEach
    ReadSize = 1
    Backlog = 1
    Window = 3
    Sigpipe = FALSE
    SysErrors = {}
    LineSize = 2
    ClientRead = 2
    RcvBuf = 3
    TypeAhead = 4
    Terminal = FALSE
SPECIFICATION System
INVARIANTS ClientTypeOK NoCircularWait
SYMMETRY ConnSymmetry
CHECK_DEADLOCK FALSE
