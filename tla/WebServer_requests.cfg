\* One peer, every shape of request, every way to split it.
CONSTANTS
    MAX_REQUEST_SIZE = 6
    MaxPath = 1
    Index <- MCIndex
    Pages <- MCPages
    Conns = {c1}
    Fds = {4, 5}
    server = 3
    NULL = NULL
    Requests <- AllRequests
    Backlog = 1
    Window = 2
    Sigpipe = TRUE
    SysErrors = {"select", "calloc", "accept"}
SPECIFICATION FairSpec
INVARIANTS TypeOK AnswerIsPromise ClosedIsAnswered ExactRequestNotReset
PROPERTIES OverrunIsAnswered
CHECK_DEADLOCK FALSE
