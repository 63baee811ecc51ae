\* Two peers, SIGPIPE, and no descriptor left for fopen when both are open.
CONSTANTS
    MAX_REQUEST_SIZE = 4
    MaxPath = 1
    Index <- MCIndex
    Pages <- EmptyPages
    Conns = {c1, c2}
    Fds = {4, 5}
    server = 3
    NULL = NULL
    Requests <- FewRequests
    Backlog = 2
    Window = 2
    Sigpipe = TRUE
    SysErrors = {}
SPECIFICATION Spec
INVARIANTS CompleteNeverIdle BufferIsWhatWasSent
PROPERTIES ImplementsService
SYMMETRY ConnSymmetry
CHECK_DEADLOCK FALSE
