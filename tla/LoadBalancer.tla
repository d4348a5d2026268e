---------------------------- MODULE LoadBalancer -----------------------------
(***************************************************************************)
(* utils/loadBalancer.c: the balancer that all event loops of a consumer   *)
(* agent share behind lb_lock.  Every endpoint has a ring of its last      *)
(* response times, their running sum, and the number of tasks it has been  *)
(* given and has not finished.  The operators here are the bodies of the   *)
(* functions, each called with lb_lock held and so atomic; ConsumerAgent   *)
(* uses the same operators.                                                *)
(***************************************************************************)
EXTENDS Integers, FiniteSets, Functions, FiniteSetsExt

CONSTANTS
    num_of_ends,            \* num_of_ends_: how many provider agents there are
    HISTORY_WINDOW_SIZE,
    direct_send_limit,      \* below it an endpoint costs nothing
    penalty_send_limit,     \* from it on an endpoint costs INT64_MAX
    INT64_MAX,
    InitDiff,               \* the response time the history starts with (50000)
    DiffTimes,              \* what get_wall_time() - ts_req_beg can be
    MaxOutstanding          \* bound: tasks unfinished at once (the connections)

Ends == 0 .. num_of_ends - 1
Slots == 0 .. HISTORY_WINDOW_SIZE - 1
Diffs == DiffTimes \cup {InitDiff}

ASSUME EndsAssumption == num_of_ends \in Nat \ {0}
ASSUME WindowAssumption == HISTORY_WINDOW_SIZE \in Nat \ {0}
ASSUME LimitsAssumption ==
    /\ direct_send_limit \in [Ends -> Nat]
    /\ penalty_send_limit \in [Ends -> Nat]
ASSUME TimesAssumption == DiffTimes \subseteq Int /\ InitDiff \in Int /\ INT64_MAX \in Int

VARIABLES
    remain,                 \* remain[e]: tasks given to e and not finished
    diff_time_history,      \* the ring of response times of e
    diff_time_sum,          \* the running sum over that ring
    head,                   \* index of the oldest entry
    tail                    \* index of the newest entry

lbVars == <<remain, diff_time_history, diff_time_sum, head, tail>>
------------------------------------------------------------------------------
\* init_history_time for every endpoint, as init_load_balancer calls it.
LBInit ==
    /\ remain = [e \in Ends |-> 0]
    /\ diff_time_history = [e \in Ends |-> [s \in Slots |-> InitDiff]]
    /\ diff_time_sum = [e \in Ends |-> InitDiff * HISTORY_WINDOW_SIZE]
    /\ head = [e \in Ends |-> 0]
    /\ tail = [e \in Ends |-> HISTORY_WINDOW_SIZE - 1]

\* Mutant: an endpoint below its direct limit has its history's cost like any other.
estimate_cost_NoDirect(index) ==
    IF remain[index] >= penalty_send_limit[index] THEN INT64_MAX ELSE diff_time_sum[index]

estimate_cost(index) ==
    CASE remain[index] >= penalty_send_limit[index] -> INT64_MAX
      [] /\ remain[index] < penalty_send_limit[index]
         /\ remain[index] < direct_send_limit[index] -> 0
      [] OTHER -> diff_time_sum[index]

\* min_idx once the loop of select_endpoint_time_based has looked at endpoint i:
\* it starts at the last endpoint and walks down, moving on a strictly lower cost.
min_idx ==
    LET after[i \in Ends] ==
          IF i = num_of_ends - 1 THEN i
          ELSE IF estimate_cost(i) < estimate_cost(after[i + 1]) THEN i ELSE after[i + 1]
    IN  after[0]

\* Mutant: the first endpoint of those with the lowest cost is taken by walking
\* down with <=, so a saturated endpoint 0 wins every tie.
select_endpoint_NonStrict(e) ==
    /\ \A f \in Ends : estimate_cost(e) <= estimate_cost(f) /\ (f < e => estimate_cost(e) < estimate_cost(f))
    /\ remain' = [remain EXCEPT ![e] = @ + 1]
    /\ UNCHANGED <<diff_time_history, diff_time_sum, head, tail>>

select_endpoint_time_based(e) ==
    /\ e = min_idx
    /\ remain' = [remain EXCEPT ![e] = @ + 1]
    /\ UNCHANGED <<diff_time_history, diff_time_sum, head, tail>>

\* Mutant: the newest entry is written where the oldest was without moving tail.
finish_endpoint_TailStays(e, new_diff_time) ==
    LET oldest_diff == diff_time_history[e][head[e]] IN
    /\ remain' = [remain EXCEPT ![e] = @ - 1]
    /\ head' = [head EXCEPT ![e] = (@ + 1) % HISTORY_WINDOW_SIZE]
    /\ diff_time_history' = [diff_time_history EXCEPT ![e][tail[e]] = new_diff_time]
    /\ diff_time_sum' = [diff_time_sum EXCEPT ![e] = @ - oldest_diff + new_diff_time]
    /\ UNCHANGED tail

\* Mutant: the evicted entry is read after head has moved.
finish_endpoint_EvictsNext(e, new_diff_time) ==
    LET new_tail == (tail[e] + 1) % HISTORY_WINDOW_SIZE
        new_head == (head[e] + 1) % HISTORY_WINDOW_SIZE
        oldest_diff == diff_time_history[e][new_head]
    IN
    /\ remain' = [remain EXCEPT ![e] = @ - 1]
    /\ head' = [head EXCEPT ![e] = new_head]
    /\ tail' = [tail EXCEPT ![e] = new_tail]
    /\ diff_time_history' = [diff_time_history EXCEPT ![e][new_tail] = new_diff_time]
    /\ diff_time_sum' = [diff_time_sum EXCEPT ![e] = @ - oldest_diff + new_diff_time]

finish_endpoint_task_time_based(e, new_diff_time) ==
    LET oldest_diff == diff_time_history[e][head[e]]
        new_tail == (tail[e] + 1) % HISTORY_WINDOW_SIZE
    IN
    /\ remain' = [remain EXCEPT ![e] = @ - 1]
    /\ head' = [head EXCEPT ![e] = (@ + 1) % HISTORY_WINDOW_SIZE]
    /\ tail' = [tail EXCEPT ![e] = new_tail]
    /\ diff_time_history' = [diff_time_history EXCEPT ![e][new_tail] = new_diff_time]
    /\ diff_time_sum' = [diff_time_sum EXCEPT ![e] = @ - oldest_diff + new_diff_time]
------------------------------------------------------------------------------
(***************************************************************************)
(* The balancer by itself: tasks are given out while fewer than            *)
(* MaxOutstanding are unfinished, and only a task that was given out is    *)
(* finished.  Which endpoint answers, and after how long, is free.         *)
(***************************************************************************)
Outstanding == SumFunction(remain)

Give == /\ Outstanding < MaxOutstanding
        /\ \E e \in Ends : select_endpoint_time_based(e)

Take(e) == /\ remain[e] > 0
           /\ \E d \in DiffTimes : finish_endpoint_task_time_based(e, d)

LBNext == Give \/ \E e \in Ends : Take(e)

LBSpec == LBInit /\ [][LBNext]_lbVars
------------------------------------------------------------------------------
\* The balancer's variables have their types: every index is inside the ring.
LBTypeOK ==
    /\ remain \in [Ends -> Int]
    /\ diff_time_history \in [Ends -> [Slots -> Diffs]]
    /\ diff_time_sum \in [Ends -> Int]
    /\ head \in [Ends -> Slots]
    /\ tail \in [Ends -> Slots]

\* The history of e, oldest entry first, as the ring stores it.
HistoryOf(e) ==
    [k \in 1..HISTORY_WINDOW_SIZE |-> diff_time_history[e][(head[e] + k - 1) % HISTORY_WINDOW_SIZE]]

Window == INSTANCE LatencyWindow WITH
    Endpoints <- Ends, WindowSize <- HISTORY_WINDOW_SIZE, Times <- DiffTimes,
    FirstTime <- InitDiff, window <- [e \in Ends |-> HistoryOf(e)]

\* The ring with its two indices (finish_endpoint_task_time_based) is a sliding
\* window: each finished task drops exactly the oldest entry, whatever the
\* order in which endpoints answer and however often the indices have wrapped.
WindowRefined == Window!Spec

\* The slot tail moves to next is the one head is about to leave, so writing the
\* newest response time overwrites the evicted one and no other.
RingFull == \A e \in Ends : (tail[e] + 1) % HISTORY_WINDOW_SIZE = head[e]

\* The running sum never drifts from the window it summarises, although each
\* update only subtracts the evicted entry and adds the new one.
SumIsWindow ==
    \A e \in Ends : diff_time_sum[e] = SumFunction(diff_time_history[e])

\* What an endpoint ought to cost, read off the window rather than the sum.
RefCost(e) ==
    IF remain[e] >= penalty_send_limit[e] THEN INT64_MAX
    ELSE IF remain[e] < direct_send_limit[e] THEN 0
    ELSE SumFunction(HistoryOf(e))

\* Each task goes to an endpoint that no other endpoint undercuts, the highest
\* numbered one among equals (the scan of select_endpoint_time_based).
SelectsCheapest ==
    [][\A e \in Ends : remain'[e] > remain[e] =>
          \A f \in Ends : /\ RefCost(e) <= RefCost(f)
                          /\ f > e => RefCost(e) < RefCost(f)]_lbVars

\* No endpoint is starved: one below its direct limit is never passed over for
\* one that is at or above its own (estimate_cost returns 0 for it).
DirectFirst ==
    [][\A e \in Ends : remain'[e] > remain[e] /\ remain[e] >= direct_send_limit[e] =>
          \A f \in Ends : remain[f] < penalty_send_limit[f] => remain[f] >= direct_send_limit[f]]_lbVars
==============================================================================
