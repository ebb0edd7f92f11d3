\* One client leaves the other.
SPECIFICATION Spec
CONSTANTS
    Clients = {a, b}
    Movers = {}
    Shooters = {}
    Chatters = {}
    Garbage = {0, 1, 2}
INVARIANT NoGhosts
CHECK_DEADLOCK FALSE
