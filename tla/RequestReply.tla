---------------------------- MODULE RequestReply -----------------------------
(***************************************************************************)
(* What a consumer agent promises its HTTP clients: a request on a         *)
(* connection is answered on that connection, by the answer to that very   *)
(* request, at most once, and a connection that is not waiting is sent     *)
(* nothing.  ConsumerAgent.tla implements this in the environments its     *)
(* configurations name.                                                    *)
(***************************************************************************)
CONSTANTS
    Connections,
    Questions,      \* the identities requests can be given
    None            \* no request, no answer

VARIABLES
    phase,          \* phase[c]: "closed", "idle" or "waiting"
    question,       \* question[c]: the request c asked last
    answer          \* answer[c]: the request whose answer c got since then

vars == <<phase, question, answer>>

Init ==
    /\ phase = [c \in Connections |-> "closed"]
    /\ question = [c \in Connections |-> None]
    /\ answer = [c \in Connections |-> None]

Open(c) ==
    /\ phase[c] = "closed"
    /\ phase' = [phase EXCEPT ![c] = "idle"]
    /\ question' = [question EXCEPT ![c] = None]
    /\ answer' = [answer EXCEPT ![c] = None]

\* No two connections are ever identified by the same question.
Ask(c, q) ==
    /\ phase[c] = "idle"
    /\ \A d \in Connections : question[d] # q
    /\ phase' = [phase EXCEPT ![c] = "waiting"]
    /\ question' = [question EXCEPT ![c] = q]
    /\ answer' = [answer EXCEPT ![c] = None]

Reply(c) ==
    /\ phase[c] = "waiting"
    /\ phase' = [phase EXCEPT ![c] = "idle"]
    /\ answer' = [answer EXCEPT ![c] = question[c]]
    /\ UNCHANGED question

Close(c) ==
    /\ phase[c] = "idle"
    /\ phase' = [phase EXCEPT ![c] = "closed"]
    /\ UNCHANGED <<question, answer>>

Next == \E c \in Connections :
    \/ Open(c)
    \/ \E q \in Questions : Ask(c, q)
    \/ Reply(c)
    \/ Close(c)

Spec == Init /\ [][Next]_vars

FairSpec == Spec /\ \A c \in Connections : WF_vars(Reply(c))
==============================================================================
