\* One client, two slots: a repeated CONNECT could take the second one.
SPECIFICATION FairSpec
CONSTANTS
    SlotCount = 2
    Attempts = {a}
    Senders = {0, a}
    None = None
INVARIANTS OneSlotPerClient
PROPERTIES HandshakeEnds GoodbyeEnds
CHECK_DEADLOCK FALSE
