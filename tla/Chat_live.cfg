CONSTANTS
    Conns = {c1, c2, c3}
    Fds = {2, 4}
    socket_listen = 3
    NULL = NULL
    Units <- MCUnits
    Text <- OneSpeaker
    ReadSize = 1
    Backlog = 1
    Window = 1
    Sigpipe = TRUE
    SysErrors = {}
SPECIFICATION FairSpec
PROPERTIES SaidIsHeard QuitterLeaves
CHECK_DEADLOCK FALSE
