\* Two clients, one that moves and chats, in every order of arrival.
SPECIFICATION Spec
CONSTANTS
    Clients = {a, b}
    Movers = {a}
    Shooters = {}
    Chatters = {a}
    Garbage = {0, 1}
INVARIANTS TypeOK NumbersAgree GoneIsAnnounced Acquainted KnownOnceCaughtUp
CHECK_DEADLOCK FALSE
