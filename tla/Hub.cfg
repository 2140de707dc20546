CONSTANTS
    Clients = {c1, c2}
    Cap = 2
    MaxPublished = 4
SPECIFICATION StalledSpec
INVARIANTS TypeOK NoSendOnClosed Conservation HeadStart
PROPERTIES FeedSpec BroadcastReturns HandlersServe
CHECK_DEADLOCK FALSE
