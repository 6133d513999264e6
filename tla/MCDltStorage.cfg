SPECIFICATION Spec
CONSTANTS
    A = A
    B = B
    C = C
    D = D
    None = None
    AnyId = AnyId
    Bad = Bad
    MaxIds = 2
    Ecu = Ecu
    Scenarios <- MCScenarios
    MaxCounter = 3
    MaxErrors = 2
    CacheMax = 100
    FooterSize = 1
    MaxMessages = 7
    MaxStops = 2
    M1 = M1
    M2 = M2
    M3 = M3
    Node = Node
    MaxDevices = 2
    ConfigOf <- MCConfigOf
    PrefixPairs <- MCPrefixPairs
    NodeContexts <- MCNodeContexts
    Contexts <- MCContexts
    DaemonEcu = Ecu
    ClientLevel = 3
    MaxRequests = 4
    TraceFileSize = 3
    TraceMaxSize = 5
    TraceSizes = {1, 2}
    TraceWrites = 4
    TraceSeconds = 3
    TraceStarts = 2
CHECK_DEADLOCK FALSE
INVARIANTS FilesSound NewestIsKept 
PROPERTY Synced
