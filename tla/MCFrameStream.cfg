SPECIFICATION FairSpec
CONSTANTS
    HEADER = 2
    Capacity = 6
    NumFrames = 6
    Bound <- MCBound
    Reconnects = "clean"
    Garbage = {0, 1, 3, 9}
INVARIANTS
    FramesInOrder
    RoomToRead
PROPERTIES
    LastHandedOn
CHECK_DEADLOCK FALSE
