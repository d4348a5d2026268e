---------------------------- MODULE LatencyWindow ----------------------------
(***************************************************************************)
(* What the load balancer's history promises, without rings or indices:    *)
(* for every endpoint it keeps the WindowSize most recent response times,  *)
(* oldest first.  A completed task pushes its response time and drops the  *)
(* oldest one.  LoadBalancer.tla is shown to implement this.               *)
(***************************************************************************)
EXTENDS Naturals, Sequences

CONSTANTS
    Endpoints,      \* the endpoints that are balanced over
    WindowSize,     \* how many response times are remembered
    Times,          \* the response times that can be measured
    FirstTime       \* what an endpoint is assumed to have taken before any task

VARIABLE window     \* window[e]: the last WindowSize response times of e

Init == window = [e \in Endpoints |-> [k \in 1..WindowSize |-> FirstTime]]

\* The k-th oldest entry becomes the (k-1)-th; the newest is the one measured.
Push(e, t) ==
    window' = [window EXCEPT ![e] =
                 [k \in 1..WindowSize |-> IF k = WindowSize THEN t ELSE window[e][k + 1]]]

Next == \E e \in Endpoints, t \in Times : Push(e, t)

Spec == Init /\ [][Next]_window
==============================================================================
