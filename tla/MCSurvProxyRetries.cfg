SPECIFICATION Spec
CONSTANTS
    ch1 = ch1
    ch2 = ch2
    Channels = {ch1}
    Dvr <- OneDvr
    Transcoded = {}
    MaxEntries = 4
    MaxConfigs = 1
    MaxDrops = 1
    MaxRetries = 2
INVARIANTS RetriesUsedUp
CHECK_DEADLOCK FALSE
