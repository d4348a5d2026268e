SPECIFICATION FairSpec
CONSTANTS
    Producers = {p1, p2}
    Pullers = {c1, c2}
    max_size <- MCmax_size
    PushesEach <- MCPushesEach
    PullsEach <- MCPullsEach
    Nothing = Nothing
INVARIANTS
    NoLostWakeup
PROPERTIES
    FifoRefined
    Drained
