\* Three peers that each send one short bad request, two descriptors left for them.
CONSTANTS
    MAX_REQUEST_SIZE = 2
    MaxPath = 1
    Index <- MCIndex
    Pages <- MCPages
    Conns = {c1, c2, c3}
    Fds = {4, 5}
    server = 3
    NULL = NULL
    Requests <- BareRequests
    Backlog = 2
    Window = 1
    Sigpipe = FALSE
    SysErrors = {}
SPECIFICATION Spec
INVARIANTS ListIsOpenDescriptors CursorIsValid NeverBlocksInRecv
PROPERTIES DropFindsClient
SYMMETRY ConnSymmetry
CHECK_DEADLOCK FALSE
