SPECIFICATION Spec
CONSTANTS
    MaxFd = 9
    MaxPeers = 2
    Nodes = 1
    Timeout = 0
    Messages <- MCMessages
    Scenarios = {{"gateway"}, {"gateway", "messages", "quiet"}, {"gateway", "strange", "quiet"}, {"gateway", "demand"}, {"sockets", "resets"}, {"serial", "files"}}
INVARIANTS ConnectionsSound EventsAreFresh
PROPERTIES PeriodicOnTime Reconnects NobodyStarves
