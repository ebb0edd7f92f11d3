SPECIFICATION PartsSpec
CONSTANTS
    MSG_C = 1
    MSG_S = 1
    MaxTime = 4
    MaxMessages = 7
    MaxPackets = 3
    MaxFragments = 3
    Scale = 4
    CounterStep = 3
    Acceleration = 2
    Deceleration = 2
    DefaultRoundTrip = 8
    Samples = {0, 16}
    Peers = {p1, p2}
    ThrottleScale = 4
    Interval = 2
    Unlimited = 1000
    HostBandwidths = {0, 6}
    PeerBandwidths = {0, 2}
    Traffic = {0, 3, 9}
    Elapsed = {2, 168}
    Guests = {guest}
    Bullets = {b1, b2}
    MaxRounds = 1
    MaxPlayers = 2
    Ticks60 = {1, 4}
    Spawns = {10, 561}
INVARIANTS
    PartsTypeOK
    PolitePasses BurstBound NobodyOverstays
    HandedWhole OpeningFindsRoom
    ThrottleWithinLimit EstimatesHold CycleShare
    NeverOverdrawn SharesFit NewsIsDue
    UsedWhileAlive AliveIsListed
    GroundHolds
PROPERTIES
    MisfiledStalls HandedUnlessMisfiled NewsIsSent EscapeEnds NoneFallenThrough
CHECK_DEADLOCK FALSE
