\* Three clients, the first of which leaves before the last arrives.
SPECIFICATION Spec
CONSTANTS
    Clients = {a, b, c}
    Movers = {}
    Shooters = {}
    Chatters = {}
    Garbage = {0}
INVARIANT UniqueNumbers
CHECK_DEADLOCK FALSE
