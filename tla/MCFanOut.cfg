SPECIFICATION Spec
CONSTANTS
    Watchers = {w1, w2}
    Config = config
    Tiles = {}
    Other = other
    QueueCap = 1
    BroadcastCap = 1
    MaxMessages = 2
    MaxJoins = 2
    MaxRequests = 1
    Clients = {c1, c2}
    SendBuf = 3
    GopMaxFrags = 2
    MaxGen = 2
    MaxFrags = 4
    MaxSlots = 2
    MaxFeeds = 3
    Size <- KeyIsLarge
    Window = 2
    MaxSubs = 2
    ControlCap = 1
SYMMETRY Symmetry
CHECK_DEADLOCK FALSE
INVARIANTS
    RemovedOnce SnapshotToRequester StreamIsPlayable FlowControlled
    NoHubLeak
