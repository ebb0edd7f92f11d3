\* One client, one slot: its first packet overtakes the end of the handshake.
SPECIFICATION Spec
CONSTANTS
    SlotCount = 1
    Attempts = {a}
    Senders = {a}
    None = None
INVARIANT SentUntilDelivered
CHECK_DEADLOCK FALSE
