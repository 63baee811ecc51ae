CONSTANTS
    Conns = {c1, c2}
    Fds = {2, 4, 5}
    socket_listen = 3
    NULL = NULL
    Units <- MCUnits
    Text <- ShortTexts
    ReadSize = 2
    Backlog = 2
    Window = 1
    Sigpipe = TRUE
    SysErrors = {"select", "accept"}
    Toupper <- MCToupper
SPECIFICATION FairSpec
INVARIANTS TypeOK EchoIsOwnText
PROPERTIES TextComesBack
CHECK_DEADLOCK FALSE
