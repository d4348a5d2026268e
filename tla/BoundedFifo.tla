----------------------------- MODULE BoundedFifo -----------------------------
(***************************************************************************)
(* What a bounded queue that drops when full promises: items come out in   *)
(* the order in which they went in, each to one taker, none is lost once   *)
(* it is in, and at most Capacity are inside.                              *)
(***************************************************************************)
EXTENDS Naturals, Sequences

CONSTANTS Items, Takers, Capacity, Nothing

VARIABLES
    queue,      \* the items inside, oldest first
    got         \* got[t]: the item taker t received last

Init == queue = <<>> /\ got = [t \in Takers |-> Nothing]

Put(v) ==
    /\ Len(queue) < Capacity
    /\ queue' = Append(queue, v)
    /\ UNCHANGED got

Get(t) ==
    /\ queue # <<>>
    /\ got' = [got EXCEPT ![t] = Head(queue)]
    /\ queue' = Tail(queue)

Next == (\E v \in Items : Put(v)) \/ (\E t \in Takers : Get(t))

Spec == Init /\ [][Next]_<<queue, got>>
==============================================================================
