SPECIFICATION Spec
CONSTANTS
    num_of_ends = 2
    HISTORY_WINDOW_SIZE = 1
    direct_send_limit <- MCDirect
    penalty_send_limit <- MCPenalty
    INT64_MAX = 1000
    InitDiff = 1
    DiffTimes = {1}
    MaxOutstanding = 9
    EVENT_LOOP_NUM = 2
    HASH_SLOT_NUM = 4
    MAXIMUM_CONN_WARMUP_COUNT = 1
    MAXIMUM_CONN_COUNT = 2
    Conns = {c1, c2, c3}
    Blocks = {b1, b2, b3}
    NULL = NULL
    MaxReqId = 5
    MaxConnects = 3
    ClientsWait = TRUE
    Timely = FALSE
    Faults = FALSE
INVARIANTS
    AnswerIsOwn
