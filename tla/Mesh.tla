-------------------------------- MODULE Mesh ---------------------------------
(***************************************************************************)
(* The consumer agent and the provider agents together.  Every link of     *)
(* the consumer agent is a TCP connection to a provider agent, and every   *)
(* connection gets a relay there (ProviderRelay.tla); nothing is left of   *)
(* the environments the two modules assume of each other but the clients,  *)
(* Dubbo and the network between the agents.                               *)
(*                                                                         *)
(* The ends of a connection move separately.  The provider's kernel        *)
(* completes it; the consumer agent's callback and the provider agent's    *)
(* then come in either order.  A relay's uv_close ends the stream at once: *)
(* the consumer agent may see that, and have a new connection, before the  *)
(* relay is freed.  What is written travels for a while.                   *)
(*                                                                         *)
(* The provider agents' processes stay up (ProviderRelay has what brings   *)
(* them down); the consumer agent's may die, and the relays then see their *)
(* connections closed.                                                     *)
(***************************************************************************)
EXTENDS ConsumerAgent

CONSTANT Long       \* requests whose frames are longer than a relay's buffer

ASSUME LongAssumption == Long \subseteq Requests

VARIABLES
    socket,         \* socket[l][e]: the number of the connection the link makes or has
    established,    \* established[l][e]: that connection has been made
    backlog,        \* connections made and not yet accepted by the provider agent
    tcp_conn_1, tcp_conn_2, gone1, gone2, full1, full2, up, atDubbo, results, down, sent, answered, process

\* A connection: its link and its number (bound MaxConnects).
Connections == Loops \X Ends \X (0 .. MaxConnects - 1)

P == INSTANCE ProviderRelay WITH Relays <- Connections, RequestIds <- Requests

relayVars == <<tcp_conn_1, tcp_conn_2, gone1, gone2, full1, full2, up, atDubbo, results, down, sent, answered, process>>
netVars == <<socket, established, backlog>>
mvars == <<vars, netVars, relayVars>>

Current(l, e) == <<l, e, socket[l][e]>>

MInit ==
    /\ Init /\ P!Init
    /\ socket = [l \in Loops |-> [e \in Ends |-> 0]]
    /\ established = [l \in Loops |-> [e \in Ends |-> FALSE]]
    /\ backlog = {}
------------------------------------------------------------------------------
(* Connections *)

\* The provider's kernel completes the connection.
connection_made(l, e) ==
    /\ running
    /\ link[l][e] = "connecting" /\ ~established[l][e]
    /\ established' = [established EXCEPT ![l][e] = TRUE]
    /\ backlog' = backlog \cup {Current(l, e)}
    /\ UNCHANGED <<vars, socket, relayVars>>

\* Either end is told: c_after_connect_to_a_agent, p_on_new_connection.
link_made(l, e) ==
    /\ established[l][e]
    /\ c_after_connect_to_a_agent(l, e)
    /\ UNCHANGED <<netVars, relayVars>>

relay_made(k) ==
    /\ k \in backlog
    /\ P!p_on_new_connection(k)
    /\ backlog' = backlog \ {k}
    /\ UNCHANGED <<vars, socket, established>>

\* Connecting fails instead.
link_refused(l, e) ==
    /\ ~established[l][e]
    /\ c_after_connect_to_a_agent_fail(l, e)
    /\ UNCHANGED <<netVars, relayVars>>

\* The relay has called uv_close on tcp_conn_1.
Ended(k) == k \notin backlog /\ tcp_conn_1[k] \notin {"accepted", "reading"}

\* The consumer agent has read all there was, and the end of the stream.
link_lost(l, e) ==
    /\ Ended(Current(l, e)) /\ down[Current(l, e)] = {}
    /\ c_read_from_provide_agents_eof(l, e)
    /\ UNCHANGED <<netVars, relayVars>>

\* reconnection_to_agent starts a new connection.
link_renewed(l, e) ==
    /\ socket[l][e] < MaxConnects - 1
    /\ reconnection_to_agent(l, e)
    /\ socket' = [socket EXCEPT ![l][e] = @ + 1]
    /\ established' = [established EXCEPT ![l][e] = FALSE]
    /\ UNCHANGED <<backlog, relayVars>>
------------------------------------------------------------------------------
(* Requests and responses *)

\* What send_to_provider_agent wrote arrives; a write to a link that was still
\* connecting waits until it is up.
link_delivers(l, e, r) ==
    /\ link[l][e] = "up"
    /\ r \in OnLink(l, e)
    /\ P!consumer_sends(Current(l, e), r)
    /\ UNCHANGED <<vars, netVars>>

\* A response frame of p_on_read_results is read by c_read_from_provide_agents.
response_read(e, r) ==
    /\ c_read_from_provide_agents(e, r)
    /\ P!consumer_reads(Current(r.loop, e), r)
    /\ UNCHANGED netVars

\* A response with a status other than 20 is dropped: its request will never be
\* answered, unless the consumer agent has given it up with the link already.
response_dropped(k, m) ==
    /\ m.status = "error"
    /\ P!p_on_read_results(k, m)
    /\ provider_drops(k[2], m.id)
    /\ UNCHANGED netVars

response_passed(k, m) ==
    /\ P!p_on_read_results(k, m)
    /\ m.status = "ok" \/ ~running \/ m.id \notin flight[k[2]]
------------------------------------------------------------------------------
(* Steps of one side *)

\* The links of a loop that have still to be made, and those that will have to be
\* made anew: their relay is closing or will be.
NotUp(l) == {e \in Ends : link[l][e] # "up"}
Doomed(l) ==
    {e \in Ends : \/ OnLink(l, e) \cap Long # {}
                  \/ link[l][e] # "closing" /\ established[l][e] /\ P!Broken(Current(l, e))}

\* Every link can still be made anew within MaxConnects (bound).
Budget ==
    \A l \in Loops :
        endpoint_connection_count[l] + Cardinality(NotUp(l)) + Cardinality(Doomed(l)) <= MaxConnects

ConsumerAlone ==
    /\ UNCHANGED <<netVars, relayVars>>
    /\ \/ \E l \in Loops, e \in Ends : c_read_from_provide_agents_error(l, e)
       \/ \E c \in Conns : ConnStep(c) /\ Budget'
       \/ WallClock

\* Without faults Dubbo answers with status 20 only.
Statuses == IF Faults THEN {"ok", "error"} ELSE {"ok"}

\* A step of a relay or of Dubbo that the consumer agent does not see.
Alone(A) == UNCHANGED <<vars, netVars>> /\ A /\ process' = "running"

RelayStep(k) ==
    \/ P!p_on_duboo_connect(k)
    \/ P!p_on_duboo_connect_fail(k)
    \/ P!p_alloc_buffer1(k)
    \/ P!p_read_connection_data_close(k)
    \/ P!p_on_read_results_close(k)
    \/ P!p_close_tcp_relay_connection1(k)
    \/ P!p_close_tcp_relay_connection2(k)
    \/ \E i \in up[k] : P!p_read_connection_data_http_req(k, i)
    \/ \E m \in results[k] : response_passed(k, m)

PeerStep(k) ==
    \/ ~running /\ P!consumer_closes(k)
    \/ P!dubbo_closes(k) /\ Budget'
    \/ \E i \in atDubbo[k], s \in Statuses : P!dubbo_answers(k, i, s)

MNext ==
    \/ ConsumerAlone
    \/ \E l \in Loops, e \in Ends :
         \/ connection_made(l, e)
         \/ link_made(l, e)
         \/ link_refused(l, e)
         \/ link_lost(l, e)
         \/ link_renewed(l, e)
         \/ \E r \in OnLink(l, e) : link_delivers(l, e, r)
    \/ \E k \in Connections :
         \/ relay_made(k)
         \/ Alone(RelayStep(k) \/ PeerStep(k))
         \/ \E m \in results[k] : response_dropped(k, m)
    \/ \E e \in Ends : \E r \in flight[e] : response_read(e, r)

MSpec == MInit /\ [][MNext]_mvars

\* The loops of both agents run the callbacks that are due, the network connects and
\* delivers, and Dubbo accepts and answers.  Nothing is assumed of one agent for the
\* other's sake.
RelayFairness(k) ==
    /\ WF_mvars(relay_made(k))
    /\ WF_mvars(Alone(P!p_on_duboo_connect(k)))
    /\ WF_mvars(Alone(P!p_alloc_buffer1(k)))
    /\ WF_mvars(Alone(P!p_read_connection_data_close(k) \/ P!p_on_read_results_close(k)))
    /\ WF_mvars(Alone(P!p_close_tcp_relay_connection1(k)))
    /\ WF_mvars(Alone(P!p_close_tcp_relay_connection2(k)))
    /\ WF_mvars(Alone(~running /\ P!consumer_closes(k)))
    /\ \A i \in Requests :
         /\ WF_mvars(Alone(P!p_read_connection_data_http_req(k, i)))
         /\ WF_mvars(Alone(\E s \in Statuses : P!dubbo_answers(k, i, s)))
         /\ WF_mvars(\E m \in P!Results :
                       m.id = i /\ (response_dropped(k, m) \/ Alone(response_passed(k, m))))

MFairness ==
    /\ \A c \in Conns : WF_mvars(close_cb(c) /\ UNCHANGED <<netVars, relayVars>>)
    /\ \A l \in Loops, e \in Ends :
         /\ WF_mvars(connection_made(l, e)) /\ WF_mvars(link_made(l, e))
         /\ WF_mvars(link_lost(l, e)) /\ WF_mvars(link_renewed(l, e))
         /\ \A i \in Requests : WF_mvars(link_delivers(l, e, i))
    /\ \A k \in Connections : RelayFairness(k)
    /\ \A e \in Ends : \A i \in Requests : WF_mvars(response_read(e, i))

MFairSpec == MSpec /\ MFairness
------------------------------------------------------------------------------
(* Properties *)

\* The relay takes requests, and passes everything on.
Standing(k) == tcp_conn_1[k] \in {"accepted", "reading"} /\ ~P!Broken(k)

\* What the consumer agent waits for on a link that is up is what the relay of its
\* connection holds: nothing else is there, all that was delivered is as long as the
\* relay stands, and no relay of an earlier connection of the link, still closing,
\* holds any of it.
LinkAgreement ==
    running => \A l \in Loops, e \in Ends :
        /\ link[l][e] = "up" => P!InFlight(Current(l, e)) \subseteq OnLink(l, e)
        /\ link[l][e] = "up" /\ Standing(Current(l, e)) =>
             OnLink(l, e) \cap sent \subseteq P!InFlight(Current(l, e))
        /\ \A n \in 0 .. MaxConnects - 1 :
             link[l][e] # "up" \/ n # socket[l][e] => P!InFlight(<<l, e, n>>) \cap OnLink(l, e) = {}

\* The consumer agent gets from real provider agents what ConsumerAgent.tla assumes
\* of its environment, its fairness (every request on a link that is up is answered
\* or the link ends) included.
ConsumerRefined == FairSpec

\* The relays get from a real consumer agent what ProviderRelay.tla assumes, reading
\* of the responses included.
RelaysRefined == P!FairSpec
==============================================================================
