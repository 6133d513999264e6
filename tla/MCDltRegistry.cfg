SPECIFICATION Spec
CONSTANTS
    Pid = {1, 2}
    MaxFd = 6
    ContextDefault <- MCDefault
    Scenarios <- MCScenarios
INVARIANTS TablesSound HandlesSound ProcessesReached LevelsSound
