SPECIFICATION Spec
CONSTANTS
    Channels = {c1}
    MaxStarts = 3
    MaxRestarts = 2
    MaxChanges = 3
    Sites = {d1, d2}
    OfflineGrace = 2
    MaxAgents = 2
    Links = {l1, l2}
    Tray = tray
    Callers = {tray, web}
    LastBackoff = 1
    MaxCalls = 2
    MaxFaults = 2
    MaxStreams = 2
    Clients = {q1, q2, q3}
    MaxAttempts = 2
    MaxDrops = 2
    MaxStops = 1
CHECK_DEADLOCK FALSE
INVARIANTS
    TypeOK NoSessionLost
PROPERTIES
    RecordersFollow AlertsFollow AgentsAccounted RunsOn
    DroppedIsHandled
