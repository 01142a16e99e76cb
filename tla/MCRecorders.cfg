SPECIFICATION RecordersSpec
CONSTANTS
    ch1 = ch1
    ch2 = ch2
    Channels = {ch1, ch2}
    Dvr <- TwoDvrs
    Transcoded = {ch1, ch2}
    MaxEntries = 4
    MaxConfigs = 2
    MaxDrops = 1
    MaxRetries = 2
    s1 = s1
    s2 = s2
    m1 = m1
    addr1 = addr1
    Serials = {s1, s2}
    Macs = {m1}
    Addrs = {addr1, addr2}
    SeedAddr = addr1
    SeedRound = {}
    Readings <- Readings_
    Rounds = {}
    NewOrders = {}
    Protocols = {"isapi"}
    Selectable = {"auto", "isapi"}
    Threads = {t1}
    MaxDvOps = 4
CHECK_DEADLOCK FALSE
INVARIANTS
    MapIsExact StreamsMatchConfig
PROPERTIES
    IdentityHasOneKey
