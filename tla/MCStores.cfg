SPECIFICATION Spec
CONSTANTS
    pa = pa
    pb = pb
    r1 = r1
    Secs = {1, 2}
    Pics = {pa, pb}
    WidePics = {pa}
    Near = 1
    ThBudget = 3
    ThCap = 2
    Requests = {r1, r2}
    Workers = {w1}
    QueueCap = 1
    Slots = 1
    MaxDisk = 2
    OnDisk <- OnDisk_
    Snapshots <- Snapshots_
    Asks <- Asks_
    c1 = c1
    c2 = c2
    c3 = c3
    val = val
    Operators = {o1, o2}
    Passwords = {p0, p1}
    EnvPassword = p0
    Agents = {a1, a2}
    EnvAgents = {a1}
    AlertFields = {f1, f2}
    AlertValues = {val}
    EnvAlert <- EnvAlert_
    Orders <- Orders_
    Streaming <- Streaming_
    MaxOps = 4
    IPs = {i1, i2}
    Handlers = {h1, h2}
    MaxFails = 2
    Window = 1
    Block = 3
    MaxIPs = 1
    MaxTime = 4
    MaxFailures = 4
    s1 = s1
    Serials = {s1}
    Macs = {}
    addr1 = addr1
    Addrs = {addr1}
    SeedAddr = addr1
    SeedRound = {1, 2}
    Readings <- Readings_
    Rounds = {{1, 3}}
    NewOrders <- NewOrders_
    Protocols = {"isapi"}
    Selectable = {"auto", "isapi"}
    Threads = {t1, t2}
    MaxDvOps = 3
SYMMETRY Symmetry
CHECK_DEADLOCK FALSE
INVARIANTS
    TypeOK ThumbIsCurrent WithinBounds WallShowsItsCameras LastChangerStaysIn
    RestartKeepsSettings RelayShowsIt
PROPERTIES
    BlocksAreDeserved
