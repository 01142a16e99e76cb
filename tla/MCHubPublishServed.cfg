SPECIFICATION FairSpec
CONSTANTS
    Conns = {c1, c2}
    Named = {}
    Default = default
    NoAgent = noAgent
    Pins = {p1}
    NoPin = noPin
    NoConn = nil
    Senders = {}
    MaxPublishes = 3
    MaxStarts = 4
PROPERTY ClaimedIsServed
CHECK_DEADLOCK FALSE
