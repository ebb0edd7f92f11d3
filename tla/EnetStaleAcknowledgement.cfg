\* Two clients that follow each other in one slot.
SPECIFICATION Spec
CONSTANTS
    SlotCount = 1
    Attempts = {a, b}
    Senders = {}
    None = None
INVARIANT ZombieHasLeft
CHECK_DEADLOCK FALSE
