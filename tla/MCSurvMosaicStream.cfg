SPECIFICATION MoSpec
CONSTANTS
    Channels = {ch1}
    Viewers = {v1}
    Operator = operator
    Configurer = configurer
    Orders = {o1, o2}
    Qualities = {q1}
    MaxWalls = 2
    MaxPosts = 0
    MaxConfigs = 1
    Grace = 2
INVARIANT WallHasStream
CHECK_DEADLOCK FALSE
