SPECIFICATION MCSpec
CONSTANTS
    c1 = c1
    c2 = c2
    c3 = c3
    app = app
    Client <- MCClients
    RingSize = 4
    MaxConnected = 2
    MaxLog = 2
    MaxUserOverflow = 1
    MaxSixty = 1
    MaxAppGone = 1
    App = app
    sendECUSoftwareVersion = TRUE
    sendTimezone = FALSE
INVARIANTS Consistent LossesAreKnown DeliveredInOrder
PROPERTY RingIsFlushed
CHECK_DEADLOCK FALSE
