SPECIFICATION FairSpec
CONSTANTS
    FRAME_HEADER = 1
    raw_array_max_size = 4
    HeaderLengths = {2, 5}
    BodyLengths = {2, 4, 6}
    Misstated <- MCMisstated
    Stale <- MCStale
    UINT_SPAN = 8
    MaxRequests = 2
INVARIANTS
    FramesExact
    FramesInside
    ArrayOutlivesWrites
PROPERTIES
    PassedOnOrClosed
CHECK_DEADLOCK FALSE
