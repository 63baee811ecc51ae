SPECIFICATION Spec
CONSTANTS
    UdpClient = {u1, u2}
    OneShot = one
    READ_SIZE = 2
    MaxTyped = 2
    TimeClient = {c1, c2}
    MaxRequest = 2
    MaxDepth = 3
    Types = {1, 255}
    buffer_size = 4
    Lines <- MCLines
    HelloWorld <- MCHello
    toupper <- MCToupper
    Hosts <- MCHosts
    Zone <- MCZone
    Strange <- MCStrange
    Files <- MCFiles
INVARIANTS
    ServicesTypeOK
    EchoIsOwn
    NamesArePrinted
    CountsOfFile
PROPERTY
    TimeIsServed
CHECK_DEADLOCK FALSE
