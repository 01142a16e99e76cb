SPECIFICATION Spec
CONSTANTS
    Conns = {c1, c2}
    Named = {cafe}
    Default = default
    NoAgent = noAgent
    Pins = {p1, p2}
    NoPin = noPin
    NoConn = nil
    Senders = {d1, d2}
    MaxPublishes = 3
    MaxStarts = 4
INVARIANTS TypeOK SinglePublisher OnlineIffOwned PatternNotLost SendersExclude
PROPERTY ImplementsSlot
SYMMETRY Symmetry
CHECK_DEADLOCK FALSE
