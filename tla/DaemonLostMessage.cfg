SPECIFICATION MCSpec
CONSTANTS
    c1 = c1
    c2 = c2
    c3 = c3
    app = app
    Client <- MCClients
    RingSize = 2
    MaxConnected = 2
    MaxLog = 1
    MaxUserOverflow = 0
    MaxSixty = 0
    MaxAppGone = 0
    App = app
    sendECUSoftwareVersion = FALSE
    sendTimezone = FALSE
INVARIANT NothingLost
CHECK_DEADLOCK FALSE
