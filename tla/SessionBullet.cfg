\* One client shoots while the other arrives.
SPECIFICATION Spec
CONSTANTS
    Clients = {a, b}
    Movers = {}
    Shooters = {a, b}
    Chatters = {}
    Garbage = {0}
INVARIANT EveryBulletHasSender
CHECK_DEADLOCK FALSE
