CONSTANTS
    Conns = {c1, c2, c3}
    Fds = {2, 4, 5}
    socket_listen = 3
    NULL = NULL
    Units <- MCUnits
    Text <- OneUnitEach
    ReadSize = 2
    Backlog = 2
    Window = 1
    Sigpipe = TRUE
    SysErrors = {"select"}
SPECIFICATION Spec
INVARIANTS MasterIsOpen NeverBlocksOnReady SentIsDue NobodyLagsBehind
PROPERTIES ImplementsRoom
SYMMETRY ConnSymmetry
CHECK_DEADLOCK FALSE
