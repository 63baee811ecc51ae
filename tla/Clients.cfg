SPECIFICATION Spec
CONSTANTS
    MAXINPUT = 4
    MAXRESPONSE = 10
    MaxLines = 4
    RESPONSE_SIZE = 27
    TIMEOUT = 1
    MaxStale = 3
    Yes = {"Y"}
    Inputs <- MCInputs
    Replies <- MCReplies
    Urls <- MCUrls
    Sites <- MCSites
    Keyboards <- MCKeyboards
    Remotes <- MCRemotes
INVARIANTS
    ClientsTypeOK
    InStep
    MailArrives
    BodyIsPage
    TrustBeforeSecret
    WholeOrFailed
PROPERTY
    WebGetEnds
CHECK_DEADLOCK FALSE
