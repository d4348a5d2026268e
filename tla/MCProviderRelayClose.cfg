SPECIFICATION Spec
CONSTANTS
    Relays = {r1}
    RequestIds = {i1, i2}
    Faults = TRUE
    Long = {}
INVARIANTS
    ClosesOnce
SYMMETRY Symmetry
CHECK_DEADLOCK FALSE
