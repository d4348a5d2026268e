SPECIFICATION Spec
CONSTANTS
    num_of_ends = 1
    HISTORY_WINDOW_SIZE = 1
    direct_send_limit <- MCDirect
    penalty_send_limit <- MCPenalty
    INT64_MAX = 1000
    InitDiff = 1
    DiffTimes = {1}
    MaxOutstanding = 9
    EVENT_LOOP_NUM = 2
    HASH_SLOT_NUM = 2
    MAXIMUM_CONN_WARMUP_COUNT = 1
    MAXIMUM_CONN_COUNT = 2
    Conns = {c1, c2}
    Blocks = {b1, b2}
    NULL = NULL
    MaxReqId = 2
    MaxConnects = 2
    ClientsWait = FALSE
    Timely = FALSE
    Faults = TRUE
INVARIANTS
    RemainCovers
    AdmissionControlled
    WaitersFound
SYMMETRY Symmetry
CHECK_DEADLOCK FALSE
