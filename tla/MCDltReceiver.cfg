SPECIFICATION Spec
CONSTANTS
    a = a
    b = b
    Conn <- MCConn
    BufSize = 8
    Pattern = 1
    Header = 2
    Fixed = 3
    DescSize = 4
    StreamSize = 16
    Start <- MCStart
    Size <- MCSize
    Kind <- MCKind
    Sends <- MCSends
    Junk = Junk
    None = None
INVARIANTS Retained HandledIntact
PROPERTY EverythingIsHandled
CHECK_DEADLOCK FALSE
