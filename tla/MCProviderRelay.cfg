SPECIFICATION FairSpec
CONSTANTS
    Relays = {r1, r2}
    RequestIds = {i1, i2, i3}
    Faults = TRUE
    Long = {i1}
INVARIANTS
    Paired
PROPERTIES
    LostOnlyWhenBroken
    ServiceRefined
    Leaves
    GoneRelaysFreed
CHECK_DEADLOCK FALSE
