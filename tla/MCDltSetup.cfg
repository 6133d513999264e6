SPECIFICATION Spec
CONSTANTS
    ConfigFiles <- MCConfigFiles
    DLT_CONFIG_FILE_SECTIONS_MAX = 3
    DLT_CONFIG_FILE_KEYS_MAX = 7
    DLT_DAEMON_TCP_PORT = 3490
    DefaultInterval = 1
    IPPORT_RESERVED = 1024
    MaxPort = 65535
    LastService = 21
    ContextIds = {1, 2}
    LogLevels = {3, 5}
    Services = {4096}
    Environments <- MCEnvironments
    InitialLevel = 4
    DefaultLevel = 4
    MaxSlots = 2
    MaxEvents = 5
    AppIds = {11, 12}
    CtxIds = {1, 2}
    Descriptions <- MCDescriptions
    Plans <- MCPlans
    Base = 16
    MaxData = 100
    MaxText = 80
    MaxFlight = 2
INVARIANTS ConfigurationIsRead LevelsInUse InjectionsReachTheirs AnswerIsRead CopyKnowsNode RecordedIsTold
CHECK_DEADLOCK FALSE
