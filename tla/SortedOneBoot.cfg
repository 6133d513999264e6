SPECIFICATION Spec
CONSTANTS
    Layouts <- OneBootLayout
    FilterAsks <- MCFilterAsks
    MaxAsks = 0
    DLT_FILTER_MAX = 3
    IndexAlloc = 2
    MaxBuffer = 6
    TmspGap = 15
    SysGap = 180
    WriteCalls <- MCWriteCalls
    MaxCalls = 3
    BufferLengths = {18, 21, 23, 26, 31}
    Garbled = Garbled
    TruncatedText <- Truncated
    Tracers = {t1, t2}
    TraceIds = {1, 2}
    Payloads = {70, 78}
    HeaderLength = 2
    LogLength = 70
    SegmentSize = 39
    QueueSize = 1
    RingSize = 2
    MaxTraces = 2
    MaxSwitches = 2
INVARIANTS
    SortedIsComplete
CHECK_DEADLOCK FALSE
