SPECIFICATION FairSpec
CONSTANTS
    Watchers = {w1}
    Config = config
    Tiles = {t1}
    Other = other
    QueueCap = 2
    BroadcastCap = 1
    MaxMessages = 3
    MaxJoins = 2
    MaxRequests = 1
    Clients = {}
    SendBuf = 2
    GopMaxFrags = 1
    MaxGen = 1
    MaxFrags = 0
    MaxSlots = 2
    MaxFeeds = 1
    Size <- KeyIsLarge
    Window = 1
    MaxSubs = 1
    ControlCap = 1
CHECK_DEADLOCK FALSE
INVARIANTS
    WatcherUpToDate
PROPERTIES
    ClosedIsCollected QueuedIsSent BothEnd
