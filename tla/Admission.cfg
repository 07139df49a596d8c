SPECIFICATION SlotsFairSpec
CONSTANTS
    Calls = {r1, r2, r3}
    Slots = 2
INVARIANTS
    ExecutingBounded
PROPERTY PermitReturned
CHECK_DEADLOCK FALSE
