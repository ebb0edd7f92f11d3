\* Two channels, of which the first is served first; everything may get lost.
SPECIFICATION FairSpec
CONSTANTS
    ChannelCount = 2
    Lengths = {1}
    WindowSize = 1
    TimeoutLimit = 2
    MaxSends = 2
    MaxAcks = 1
PROPERTIES
    ReliableDelivery
CHECK_DEADLOCK FALSE
