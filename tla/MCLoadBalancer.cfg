SPECIFICATION LBSpec
CONSTANTS
    num_of_ends = 3
    HISTORY_WINDOW_SIZE = 2
    direct_send_limit <- MCDirect
    penalty_send_limit <- MCPenalty
    INT64_MAX = 1000
    InitDiff = 2
    DiffTimes = {1, 3}
    MaxOutstanding = 9
INVARIANTS
    SumIsWindow
PROPERTIES
    WindowRefined
    SelectsCheapest
    DirectFirst
