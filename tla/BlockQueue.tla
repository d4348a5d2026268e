----------------------------- MODULE BlockQueue ------------------------------
(***************************************************************************)
(* utils/blockQueue.c: a ring of max_size pointers between threads, with a *)
(* mutex and a condition variable.  A section under the mutex is one step; *)
(* uv_cond_signal comes after the unlock and is a step of its own, so any  *)
(* other thread can run in between.  A thread in uv_cond_wait leaves it    *)
(* when it is signalled or spuriously, and then has to take the mutex      *)
(* again and look again.                                                   *)
(*                                                                         *)
(* The threads are those of tests/test_blockQueue.c: producers that push a *)
(* number of items each, whatever bq_push returns, and pullers.            *)
(***************************************************************************)
EXTENDS Integers, Sequences, FiniteSets

CONSTANTS
    Producers, Pullers,
    max_size,           \* how many pointers the ring holds
    PushesEach,         \* how often every producer calls bq_push
    PullsEach,          \* how often every puller calls bq_pull
    Nothing             \* no item (an unwritten array entry)

ASSUME SizeAssumption == max_size \in Nat \ {0}
ASSUME PushesAssumption == PushesEach \in Nat /\ PullsEach \in Nat
ASSUME ThreadsAssumption ==
    /\ IsFiniteSet(Producers) /\ IsFiniteSet(Pullers)
    /\ Producers \cap Pullers = {}

Items == Producers \X (1 .. PushesEach)
Slots == 0 .. max_size - 1

VARIABLES
    http_req_array, head, tail,
    tail_ahead,         \* 1 when tail has wrapped round and head has not
    left,               \* left[t]: the calls thread t has still to make
    pc,                 \* "run"; "signal": unlocked, about to signal; "wait": in uv_cond_wait
    req                 \* req[c]: what the last bq_pull of c returned

ringVars == <<http_req_array, head, tail, tail_ahead>>
vars == <<ringVars, left, pc, req>>

Init ==
    /\ http_req_array = [s \in Slots |-> Nothing]
    /\ head = 0 /\ tail = 0 /\ tail_ahead = 0
    /\ left = [t \in Producers \cup Pullers |-> IF t \in Producers THEN PushesEach ELSE PullsEach]
    /\ pc = [t \in Producers \cup Pullers |-> "run"]
    /\ req = [c \in Pullers |-> Nothing]
------------------------------------------------------------------------------
test_full == head = tail /\ tail_ahead = 1

test_empty == head = tail /\ tail_ahead = 0

\* The first section of bq_push when there is no room: the item is dropped.
bq_push_full(p) ==
    /\ pc[p] = "run" /\ left[p] > 0
    /\ test_full
    /\ left' = [left EXCEPT ![p] = @ - 1]
    /\ UNCHANGED <<ringVars, pc, req>>

\* Mutant: a push that wraps returns without signalling.
bq_push_WrapNoSignal(p) ==
    /\ pc[p] = "run" /\ left[p] > 0
    /\ ~test_full
    /\ http_req_array' = [http_req_array EXCEPT ![tail] = <<p, left[p]>>]
    /\ tail' = IF tail + 1 = max_size THEN 0 ELSE tail + 1
    /\ tail_ahead' = IF tail + 1 = max_size THEN 1 ELSE tail_ahead
    /\ left' = [left EXCEPT ![p] = @ - 1]
    /\ pc' = IF tail + 1 = max_size THEN pc ELSE [pc EXCEPT ![p] = "signal"]
    /\ UNCHANGED <<head, req>>

\* The first section of bq_push when there is room.
bq_push(p) ==
    /\ pc[p] = "run" /\ left[p] > 0
    /\ ~test_full
    /\ http_req_array' = [http_req_array EXCEPT ![tail] = <<p, left[p]>>]
    /\ tail' = IF tail + 1 = max_size THEN 0 ELSE tail + 1
    /\ tail_ahead' = IF tail + 1 = max_size THEN 1 ELSE tail_ahead
    /\ left' = [left EXCEPT ![p] = @ - 1]
    /\ pc' = [pc EXCEPT ![p] = "signal"]
    /\ UNCHANGED <<head, req>>

Waiting == {c \in Pullers : pc[c] = "wait"}

\* uv_cond_signal at the end of bq_push: one waiting puller is woken, if any is.
uv_cond_signal(p) ==
    /\ pc[p] = "signal"
    /\ \/ /\ Waiting = {}
          /\ pc' = [pc EXCEPT ![p] = "run"]
       \/ \E c \in Waiting : pc' = [pc EXCEPT ![p] = "run", ![c] = "woken"]
    /\ UNCHANGED <<ringVars, left, req>>

\* bq_pull, on entry or after a wake-up, with nothing to pull: uv_cond_wait.
bq_pull_wait(c) ==
    /\ pc[c] \in {"run", "woken"} /\ left[c] > 0
    /\ test_empty
    /\ pc' = [pc EXCEPT ![c] = "wait"]
    /\ UNCHANGED <<ringVars, left, req>>

\* Mutant: a puller that was woken takes an item without looking again.
bq_pull_NoRecheck(c) ==
    /\ pc[c] \in {"run", "woken"} /\ left[c] > 0
    /\ pc[c] = "run" => ~test_empty
    /\ req' = [req EXCEPT ![c] = http_req_array[head]]
    /\ head' = IF head + 1 = max_size THEN 0 ELSE head + 1
    /\ tail_ahead' = IF head + 1 = max_size THEN 0 ELSE tail_ahead
    /\ left' = [left EXCEPT ![c] = @ - 1]
    /\ pc' = [pc EXCEPT ![c] = "run"]
    /\ UNCHANGED <<http_req_array, tail>>

\* bq_pull with something to pull.
bq_pull(c) ==
    /\ pc[c] \in {"run", "woken"} /\ left[c] > 0
    /\ ~test_empty
    /\ req' = [req EXCEPT ![c] = http_req_array[head]]
    /\ head' = IF head + 1 = max_size THEN 0 ELSE head + 1
    /\ tail_ahead' = IF head + 1 = max_size THEN 0 ELSE tail_ahead
    /\ left' = [left EXCEPT ![c] = @ - 1]
    /\ pc' = [pc EXCEPT ![c] = "run"]
    /\ UNCHANGED <<http_req_array, tail>>

\* uv_cond_wait may return without a signal.
spurious_wakeup(c) ==
    /\ pc[c] = "wait"
    /\ pc' = [pc EXCEPT ![c] = "woken"]
    /\ UNCHANGED <<ringVars, left, req>>

Push(p) == bq_push(p) \/ bq_push_full(p) \/ uv_cond_signal(p)
Pull(c) == bq_pull(c) \/ bq_pull_wait(c)

Next ==
    \/ \E p \in Producers : Push(p)
    \/ \E c \in Pullers : Pull(c) \/ spurious_wakeup(c)

Spec == Init /\ [][Next]_vars

\* Threads that can run do run.  Nothing is promised of spurious wake-ups.
FairSpec ==
    /\ Spec
    /\ \A p \in Producers : WF_vars(Push(p))
    /\ \A c \in Pullers : WF_vars(Pull(c))
------------------------------------------------------------------------------
\* The queue's variables have their types.
TypeOK ==
    /\ http_req_array \in [Slots -> Items \cup {Nothing}]
    /\ head \in Slots /\ tail \in Slots /\ tail_ahead \in {0, 1}
    /\ left \in [Producers \cup Pullers -> Nat]
    /\ \A p \in Producers : left[p] <= PushesEach
    /\ pc \in [Producers \cup Pullers -> {"run", "signal", "wait", "woken"}]
    /\ req \in [Pullers -> Items \cup {Nothing}]

\* The number of items inside, and the items themselves, oldest first.
Count == IF tail_ahead = 1 THEN tail + max_size - head ELSE tail - head
Contents ==
    [i \in 1 .. Count |->
       http_req_array[IF head + i - 1 < max_size THEN head + i - 1 ELSE head + i - 1 - max_size]]

\* The flag says on which lap tail is, so that neither index overtakes the other.
LapsInOrder ==
    /\ tail_ahead = 0 => head <= tail
    /\ tail_ahead = 1 => tail <= head

Fifo == INSTANCE BoundedFifo WITH
    Takers <- Pullers, Capacity <- max_size, queue <- Contents, got <- req

\* The ring is a bounded queue: nothing that bq_push accepted is lost, repeated or
\* overtaken, over any number of laps and with any number of threads.
FifoRefined == Fifo!Spec

Signalling == {p \in Producers : pc[p] = "signal"}
Woken == {c \in Pullers : pc[c] = "woken"}

\* No wake-up is lost although bq_push signals after it has unlocked: while a
\* puller waits, there is a signal still to come or a woken puller for every item.
NoLostWakeup == Waiting # {} => Count <= Cardinality(Signalling) + Cardinality(Woken)

\* Whatever has been pushed is pulled, as long as pullers keep coming back.
Drained == (Count > 0) ~> (Count = 0)
==============================================================================
