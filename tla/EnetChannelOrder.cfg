\* One channel, packets of two sizes, a window one of them fills.
SPECIFICATION Spec
CONSTANTS
    ChannelCount = 1
    Lengths = {1, 2}
    WindowSize = 2
    TimeoutLimit = 4
    MaxSends = 3
    MaxAcks = 2
INVARIANTS
    TypeOK
    NothingLost
    WindowExact
    RetransmitFirst
    OrderInv
    AcksTruthful
PROPERTIES
    KeepsOrder
CHECK_DEADLOCK FALSE
