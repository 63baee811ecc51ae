CONSTANTS
    Conns = {c1, c2}
    Fds = {4, 5}
    socket_listen = 3
    NULL = NULL
    Units <- MCUnits
    Text <- TwoAndOne
    ReadSize = 1
    Backlog = 1
    Window = 2
    Sigpipe = FALSE
    SysErrors = {}
    LineSize = 1
    ClientRead = 1
    RcvBuf = 1
    TypeAhead = 2
    Terminal = TRUE
SPECIFICATION FairSystem
PROPERTIES EnteredIsHeard
CHECK_DEADLOCK FALSE
