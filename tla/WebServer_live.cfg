\* Two peers that keep reading a page of five segments through a window of one.
CONSTANTS
    MAX_REQUEST_SIZE = 4
    MaxPath = 1
    Index <- MCIndex
    Pages <- EmptyPages
    Conns = {c1, c2}
    Fds = {4, 5, 6}
    server = 3
    NULL = NULL
    Requests <- LiveRequests
    Backlog = 1
    Window = 1
    Sigpipe = FALSE
    SysErrors = {}
SPECIFICATION FairSpec
PROPERTIES RequestIsAnswered DeadPeerIsDropped
CHECK_DEADLOCK FALSE
