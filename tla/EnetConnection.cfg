\* Two clients, one slot: every connection of the second reuses the first's peer.
SPECIFICATION Spec
CONSTANTS
    SlotCount = 1
    Attempts = {a, b}
    Senders = {a, b}
    None = None
INVARIANTS TypeOK OnlyFarewellOwed UserIsTenant NoForeignPacket
CHECK_DEADLOCK FALSE
