\* One client, one slot: both ends disconnect at once.
SPECIFICATION Spec
CONSTANTS
    SlotCount = 1
    Attempts = {a}
    Senders = {}
    None = None
INVARIANT DisconnectReported
CHECK_DEADLOCK FALSE
