--------------------------- MODULE ProviderService ---------------------------
(***************************************************************************)
(* What a consumer agent may expect of the provider agents: a request sent *)
(* on a link stays in flight on that link until it is answered there, at   *)
(* most once, or is lost.                                                  *)
(***************************************************************************)
CONSTANTS Links, RequestIds

VARIABLES sent, flight, answered

svars == <<sent, flight, answered>>

SInit ==
    /\ sent = {}
    /\ flight = [r \in Links |-> {}]
    /\ answered = {}

Send(r, i) ==
    /\ i \notin sent
    /\ sent' = sent \cup {i}
    /\ flight' = [flight EXCEPT ![r] = @ \cup {i}]
    /\ UNCHANGED answered

Answer(r, i) ==
    /\ i \in flight[r]
    /\ flight' = [flight EXCEPT ![r] = @ \ {i}]
    /\ answered' = answered \cup {i}
    /\ UNCHANGED sent

Lose(r, S) ==
    /\ flight' = [flight EXCEPT ![r] = @ \ S]
    /\ UNCHANGED <<sent, answered>>

SNext ==
    \E r \in Links :
        \/ \E i \in RequestIds : Send(r, i) \/ Answer(r, i)
        \/ \E S \in SUBSET RequestIds : Lose(r, S)

SSpec == SInit /\ [][SNext]_svars
==============================================================================
