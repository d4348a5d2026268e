---------------------------- MODULE ProviderRelay ----------------------------
(***************************************************************************)
(* provider_agent.c: the agent beside the Dubbo provider.  Every           *)
(* connection accepted from a consumer agent (tcp_conn_1) gets a relay of  *)
(* its own with a connection to Dubbo (tcp_conn_2).  Requests read from    *)
(* the first are translated and written to the second, Dubbo's responses   *)
(* are read from the second and those with status 20 written to the first. *)
(*                                                                         *)
(* The relays of one libuv loop are modelled; loops share nothing but the  *)
(* process.  A request is its id, which the relay copies into the Dubbo    *)
(* request and out of Dubbo's response.  One action is one callback, or    *)
(* one turn of a callback's loop over the frames it has read               *)
(* (FrameStream.tla).  A close callback runs at the end of the loop's      *)
(* iteration: read callbacks of the same iteration may come before it.     *)
(* A frame that is longer than the relay's buffer (P_DEFAULT_PACKAGE_SIZE; *)
(* a consumer agent takes HTTP requests of twice that) fills it, and libuv *)
(* then reports UV_ENOBUFS, which closes the relay like an end of file.    *)
(***************************************************************************)
EXTENDS Naturals, FiniteSets

CONSTANTS
    Relays,         \* the relays the loop can hold at a time
    RequestIds,     \* the requests consumer agents send
    Long,           \* those whose frames are longer than raw_buf1
    Faults          \* peers go away and Dubbo refuses connections

ASSUME EnvironmentAssumption == Faults \in BOOLEAN /\ Long \subseteq RequestIds

VARIABLES
    tcp_conn_1,     \* "absent", "accepted", "reading", "closing" or "closed"
    tcp_conn_2,     \* "none", "connecting", "reading", "ended" or "closing"
    gone1, gone2,   \* the consumer agent, Dubbo has closed its end
    full1, full2,   \* raw_buf1, raw_buf2 is full and holds no whole frame
    up,             \* requests sent by the consumer agent, not yet relayed
    atDubbo,        \* requests Dubbo is working on
    results,        \* Dubbo's responses, not yet relayed
    down,           \* responses on their way to the consumer agent
    sent, answered, \* requests ever sent, responses ever received
    process         \* "running", "aborted" by libuv's assertion, or "crashed"

connVars == <<tcp_conn_1, tcp_conn_2, gone1, gone2, full1, full2>>
dataVars == <<up, atDubbo, results, down>>
vars == <<connVars, dataVars, sent, answered, process>>

running == process = "running"

\* Dubbo's response: raw_buf2[3] = 20, another status, or longer than raw_buf2.
Status == {"ok", "error", "long"}
Results == [id : RequestIds, status : Status]

Init ==
    /\ tcp_conn_1 = [r \in Relays |-> "absent"]
    /\ tcp_conn_2 = [r \in Relays |-> "none"]
    /\ gone1 = [r \in Relays |-> FALSE] /\ gone2 = [r \in Relays |-> FALSE]
    /\ full1 = [r \in Relays |-> FALSE] /\ full2 = [r \in Relays |-> FALSE]
    /\ up = [r \in Relays |-> {}] /\ atDubbo = [r \in Relays |-> {}]
    /\ results = [r \in Relays |-> {}] /\ down = [r \in Relays |-> {}]
    /\ sent = {} /\ answered = {}
    /\ process = "running"
------------------------------------------------------------------------------
(* The life of a relay *)

\* p_on_new_connection, init_tcp_relay_t, connect_to_dubbo_long_live: nothing is
\* read from the consumer agent before Dubbo has accepted.  The name r is used
\* again when the peer has read what was left of the last connection.
p_on_new_connection(r) ==
    /\ running
    /\ tcp_conn_1[r] = "absent" /\ down[r] = {}
    /\ tcp_conn_1' = [tcp_conn_1 EXCEPT ![r] = "accepted"]
    /\ tcp_conn_2' = [tcp_conn_2 EXCEPT ![r] = "connecting"]
    /\ gone1' = [gone1 EXCEPT ![r] = FALSE]
    /\ gone2' = [gone2 EXCEPT ![r] = FALSE]
    /\ full1' = [full1 EXCEPT ![r] = FALSE]
    /\ full2' = [full2 EXCEPT ![r] = FALSE]
    /\ UNCHANGED <<dataVars, sent, answered, process>>

\* Mutant: reading starts on Dubbo's side only.
p_on_duboo_connect_HalfStarted(r) ==
    /\ running
    /\ tcp_conn_2[r] = "connecting"
    /\ tcp_conn_2' = [tcp_conn_2 EXCEPT ![r] = "reading"]
    /\ UNCHANGED <<tcp_conn_1, gone1, gone2, full1, full2, dataVars, sent, answered, process>>

\* p_on_duboo_connect, status 0: both connections are read from now on.
p_on_duboo_connect(r) ==
    /\ running
    /\ tcp_conn_2[r] = "connecting"
    /\ tcp_conn_1' = [tcp_conn_1 EXCEPT ![r] = "reading"]
    /\ tcp_conn_2' = [tcp_conn_2 EXCEPT ![r] = "reading"]
    /\ UNCHANGED <<gone1, gone2, full1, full2, dataVars, sent, answered, process>>

\* p_on_duboo_connect with an error: sleep(3), then connect_to_dubbo_long_live
\* frees the handle whose callback this is, without closing it, and starts over
\* with a new one: the process goes on or crashes.
p_on_duboo_connect_fail(r) ==
    /\ running /\ Faults
    /\ tcp_conn_2[r] = "connecting"
    /\ process' \in {"running", "crashed"}
    /\ UNCHANGED <<connVars, dataVars, sent, answered>>

\* The peers go away, at any time and both if they like.  What they have sent can
\* still be read; what the consumer agent has not read is lost.
consumer_closes(r) ==
    /\ running /\ Faults
    /\ tcp_conn_1[r] # "absent" \/ down[r] # {}
    /\ ~gone1[r]
    /\ gone1' = [gone1 EXCEPT ![r] = TRUE]
    /\ down' = [down EXCEPT ![r] = {}]
    /\ UNCHANGED <<tcp_conn_1, tcp_conn_2, gone2, full1, full2, up, atDubbo, results, sent, answered, process>>

dubbo_closes(r) ==
    /\ running /\ Faults
    /\ tcp_conn_2[r] = "reading" /\ ~gone2[r]
    /\ gone2' = [gone2 EXCEPT ![r] = TRUE]
    /\ atDubbo' = [atDubbo EXCEPT ![r] = {}]
    /\ UNCHANGED <<tcp_conn_1, tcp_conn_2, gone1, full1, full2, up, results, down, sent, answered, process>>

\* p_alloc_buffer1, p_alloc_buffer2: a frame longer than the buffer has filled it,
\* and libuv is given no room to read into.  Nothing behind the frame is read.
p_alloc_buffer1(r) ==
    /\ running
    /\ tcp_conn_1[r] = "reading" /\ ~full1[r]
    /\ up[r] \cap Long # {}
    /\ full1' = [full1 EXCEPT ![r] = TRUE]
    /\ UNCHANGED <<tcp_conn_1, tcp_conn_2, gone1, gone2, full2, dataVars, sent, answered, process>>

p_alloc_buffer2(r) ==
    /\ running
    /\ tcp_conn_2[r] = "reading" /\ ~full2[r]
    /\ \E m \in results[r] : m.status = "long"
    /\ full2' = [full2 EXCEPT ![r] = TRUE]
    /\ UNCHANGED <<tcp_conn_1, tcp_conn_2, gone1, gone2, full1, dataVars, sent, answered, process>>

\* uv_close on tcp_conn_1: a handle that is closing already fails libuv's assertion.
\* Writes that libuv still holds are cancelled, and what was not read is lost.
CloseConnection1(r) ==
    IF tcp_conn_1[r] = "closing"
    THEN process' = "aborted" /\ UNCHANGED <<tcp_conn_1, up, down>>
    ELSE /\ tcp_conn_1' = [tcp_conn_1 EXCEPT ![r] = "closing"]
         /\ up' = [up EXCEPT ![r] = {}]
         /\ \E written \in SUBSET down[r] : down' = [down EXCEPT ![r] = written]
         /\ UNCHANGED process

\* p_read_connection_data_http_req at end of file or on an error, UV_ENOBUFS being
\* one.
p_read_connection_data_close(r) ==
    /\ running
    /\ tcp_conn_1[r] = "reading"
    /\ (gone1[r] /\ up[r] = {}) \/ full1[r]
    /\ CloseConnection1(r)
    /\ UNCHANGED <<tcp_conn_2, gone1, gone2, full1, full2, atDubbo, results, sent, answered>>

\* p_on_read_results at end of file or on an error: it is tcp_conn_1 that is
\* closed; tcp_conn_2 is not read again before the close callback.
p_on_read_results_close(r) ==
    /\ running
    /\ tcp_conn_2[r] = "reading"
    /\ (gone2[r] /\ results[r] = {}) \/ full2[r]
    /\ CloseConnection1(r)
    /\ tcp_conn_2' = [tcp_conn_2 EXCEPT ![r] = "ended"]
    /\ UNCHANGED <<gone1, gone2, full1, full2, atDubbo, results, sent, answered>>

\* Mutant: the close callback leaves the connection to Dubbo open.
p_close_tcp_relay_connection1_KeepsDubbo(r) ==
    /\ running
    /\ tcp_conn_1[r] = "closing"
    /\ tcp_conn_1' = [tcp_conn_1 EXCEPT ![r] = "closed"]
    /\ UNCHANGED <<tcp_conn_2, gone1, gone2, full1, full2, dataVars, sent, answered, process>>

\* The close callback of tcp_conn_1: uv_close on tcp_conn_2.  What was not read
\* from Dubbo is lost.
p_close_tcp_relay_connection1(r) ==
    /\ running
    /\ tcp_conn_1[r] = "closing"
    /\ tcp_conn_1' = [tcp_conn_1 EXCEPT ![r] = "closed"]
    /\ tcp_conn_2' = [tcp_conn_2 EXCEPT ![r] = "closing"]
    /\ atDubbo' = [atDubbo EXCEPT ![r] = {}]
    /\ results' = [results EXCEPT ![r] = {}]
    /\ UNCHANGED <<gone1, gone2, full1, full2, up, down, sent, answered, process>>

\* The close callback of tcp_conn_2: free_tcp_relay_t.  The consumer agent may
\* still be reading what was written.
p_close_tcp_relay_connection2(r) ==
    /\ running
    /\ tcp_conn_2[r] = "closing"
    /\ tcp_conn_1' = [tcp_conn_1 EXCEPT ![r] = "absent"]
    /\ tcp_conn_2' = [tcp_conn_2 EXCEPT ![r] = "none"]
    /\ UNCHANGED <<gone1, gone2, full1, full2, dataVars, sent, answered, process>>
------------------------------------------------------------------------------
(* Requests and responses *)

\* A consumer agent may write as soon as its connection is established.
consumer_sends(r, i) ==
    /\ running
    /\ tcp_conn_1[r] \in {"accepted", "reading"} /\ ~gone1[r]
    /\ i \in RequestIds \ sent
    /\ sent' = sent \cup {i}
    /\ up' = [up EXCEPT ![r] = @ \cup {i}]
    /\ UNCHANGED <<connVars, atDubbo, results, down, answered, process>>

\* Mutant: the buffer is emptied when one frame has been taken off.
p_read_connection_data_http_req_Empties(r, i) ==
    /\ running
    /\ tcp_conn_1[r] = "reading" /\ ~full1[r]
    /\ i \in up[r] \ Long
    /\ up' = [up EXCEPT ![r] = {}]
    /\ atDubbo' = IF gone2[r] THEN atDubbo ELSE [atDubbo EXCEPT ![r] = @ \cup {i}]
    /\ UNCHANGED <<connVars, results, down, sent, answered, process>>

\* p_read_connection_data_http_req for one request frame: generate_res_in_place
\* puts its id into the Dubbo request, which is written to tcp_conn_2.
p_read_connection_data_http_req(r, i) ==
    /\ running
    /\ tcp_conn_1[r] = "reading" /\ ~full1[r]
    /\ i \in up[r] \ Long
    /\ up' = [up EXCEPT ![r] = @ \ {i}]
    /\ atDubbo' = IF gone2[r] THEN atDubbo ELSE [atDubbo EXCEPT ![r] = @ \cup {i}]
    /\ UNCHANGED <<connVars, results, down, sent, answered, process>>

\* Dubbo answers what it was asked, in any order.
dubbo_answers(r, i, s) ==
    /\ running
    /\ i \in atDubbo[r]
    /\ atDubbo' = [atDubbo EXCEPT ![r] = @ \ {i}]
    /\ results' = [results EXCEPT ![r] = @ \cup {[id |-> i, status |-> s]}]
    /\ UNCHANGED <<connVars, up, down, sent, answered, process>>

\* Mutant: the response is passed on but left in the buffer.
p_on_read_results_Repeats(r, m) ==
    /\ running
    /\ tcp_conn_2[r] = "reading" /\ ~full2[r]
    /\ m \in results[r] /\ m.status # "long"
    /\ down' = IF m.status = "ok" /\ tcp_conn_1[r] = "reading" /\ ~gone1[r]
               THEN [down EXCEPT ![r] = @ \cup {m.id}] ELSE down
    /\ UNCHANGED <<connVars, up, atDubbo, results, sent, answered, process>>

\* p_on_read_results for one Dubbo response: only status 20 is passed on, and
\* uv_write to a connection that is closing fails.
p_on_read_results(r, m) ==
    /\ running
    /\ tcp_conn_2[r] = "reading" /\ ~full2[r]
    /\ m \in results[r] /\ m.status # "long"
    /\ results' = [results EXCEPT ![r] = @ \ {m}]
    /\ down' = IF m.status = "ok" /\ tcp_conn_1[r] = "reading" /\ ~gone1[r]
               THEN [down EXCEPT ![r] = @ \cup {m.id}] ELSE down
    /\ UNCHANGED <<connVars, up, atDubbo, sent, answered, process>>

consumer_reads(r, i) ==
    /\ running
    /\ i \in down[r]
    /\ down' = [down EXCEPT ![r] = @ \ {i}]
    /\ answered' = answered \cup {i}
    /\ UNCHANGED <<connVars, up, atDubbo, results, sent, process>>
------------------------------------------------------------------------------
RelayStep(r) ==
    \/ p_on_new_connection(r)
    \/ p_on_duboo_connect(r)
    \/ p_on_duboo_connect_fail(r)
    \/ p_alloc_buffer1(r)
    \/ p_alloc_buffer2(r)
    \/ p_read_connection_data_close(r)
    \/ p_on_read_results_close(r)
    \/ p_close_tcp_relay_connection1(r)
    \/ p_close_tcp_relay_connection2(r)
    \/ \E i \in up[r] : p_read_connection_data_http_req(r, i)
    \/ \E m \in results[r] : p_on_read_results(r, m)

PeerStep(r) ==
    \/ consumer_closes(r)
    \/ dubbo_closes(r)
    \/ \E i \in RequestIds : consumer_sends(r, i)
    \/ \E i \in atDubbo[r], s \in Status : dubbo_answers(r, i, s)
    \/ \E i \in down[r] : consumer_reads(r, i)

Next == \E r \in Relays : RelayStep(r) \/ PeerStep(r)

Spec == Init /\ [][Next]_vars

\* The loop runs the callbacks that are due, Dubbo accepts in the end and answers,
\* and consumer agents read; nobody has to connect, send or close.
FairSpec ==
    /\ Spec
    /\ \A r \in Relays :
         /\ WF_vars(p_on_duboo_connect(r))
         /\ WF_vars(p_alloc_buffer1(r)) /\ WF_vars(p_alloc_buffer2(r))
         /\ WF_vars(p_read_connection_data_close(r) \/ p_on_read_results_close(r))
         /\ WF_vars(p_close_tcp_relay_connection1(r)) /\ WF_vars(p_close_tcp_relay_connection2(r))
         /\ \A i \in RequestIds :
              /\ WF_vars(p_read_connection_data_http_req(r, i))
              /\ WF_vars(\E s \in Status : dubbo_answers(r, i, s))
              /\ WF_vars(\E m \in Results : m.id = i /\ p_on_read_results(r, m))
              /\ WF_vars(consumer_reads(r, i))
------------------------------------------------------------------------------
\* The relays' variables have their types.
TypeOK ==
    /\ tcp_conn_1 \in [Relays -> {"absent", "accepted", "reading", "closing", "closed"}]
    /\ tcp_conn_2 \in [Relays -> {"none", "connecting", "reading", "ended", "closing"}]
    /\ gone1 \in [Relays -> BOOLEAN] /\ gone2 \in [Relays -> BOOLEAN]
    /\ full1 \in [Relays -> BOOLEAN] /\ full2 \in [Relays -> BOOLEAN]
    /\ up \in [Relays -> SUBSET RequestIds] /\ atDubbo \in [Relays -> SUBSET RequestIds]
    /\ results \in [Relays -> SUBSET Results] /\ down \in [Relays -> SUBSET RequestIds]
    /\ sent \subseteq RequestIds /\ answered \subseteq RequestIds
    /\ process \in {"running", "aborted", "crashed"}

Resulted(r) == {m.id : m \in results[r]}
InFlight(r) == up[r] \cup atDubbo[r] \cup Resulted(r) \cup down[r]

\* Every request of the relay is at one place.
Apart(r) ==
    /\ up[r] \cap (atDubbo[r] \cup Resulted(r) \cup down[r]) = {}
    /\ atDubbo[r] \cap (Resulted(r) \cup down[r]) = {}
    /\ Resulted(r) \cap down[r] = {}
    /\ \A m, n \in results[r] : m.id = n.id => m = n

\* A request that was sent and not yet answered is at one place of one relay: it
\* is never forwarded to Dubbo twice, nor its response passed on twice.
OnePlace ==
    /\ answered \subseteq sent
    /\ \A r \in Relays : Apart(r) /\ InFlight(r) \subseteq sent \ answered
    /\ \A r, q \in Relays : r # q => InFlight(r) \cap InFlight(q) = {}

\* A relay's two connections come and go together: Dubbo's is there as long as the
\* relay is, nothing is read before it is, and no request outlives the relay but
\* those whose responses are on the way to the consumer agent.
Paired ==
    \A r \in Relays :
        /\ tcp_conn_1[r] = "absent" <=> tcp_conn_2[r] = "none"
        /\ tcp_conn_1[r] = "accepted" <=> tcp_conn_2[r] = "connecting"
        /\ tcp_conn_1[r] = "closed" <=> tcp_conn_2[r] = "closing"
        /\ tcp_conn_1[r] = "absent" => InFlight(r) = down[r]

\* A peer of the relay has gone, or a frame has been too long for the relay.
Broken(r) == gone1[r] \/ gone2[r] \/ full1[r] \/ full2[r]

\* A request gets lost only when a peer has gone, when a request or a response on
\* the same relay was longer than the buffers (all that is on the relay goes with
\* it), or when Dubbo has answered it with an error: otherwise the relay passes
\* everything on.
LostOnlyWhenBroken ==
    [][\A r \in Relays : \A i \in InFlight(r) \ InFlight(r)' :
          \/ i \in answered'
          \/ Broken(r) \/ Broken(r)'
          \/ [id |-> i, status |-> "error"] \in results[r]]_vars

\* No request stays with the provider agent for ever, broken connections or not,
\* unless the process has died.
Leaves ==
    \A r \in Relays, i \in RequestIds : (i \in InFlight(r)) ~> (i \notin InFlight(r) \/ ~running)

\* When the consumer agent or Dubbo goes away or a buffer is full, both connections
\* are closed and the relay is freed, unless the process has died.
GoneRelaysFreed ==
    \A r \in Relays : (tcp_conn_1[r] # "absent" /\ Broken(r)) ~> (tcp_conn_1[r] = "absent" \/ ~running)

\* "read from consumer agent, if fail or close, then we need to close the
\* connection1" (p_read_connection_data_http_req): closing it never aborts.
ClosesOnce == process # "aborted"

Service == INSTANCE ProviderService WITH
    Links <- Relays, flight <- [r \in Relays |-> InFlight(r)]

\* The relays are the service the consumer agent relies on: what is answered on a
\* link was sent on that link, and is answered once.
ServiceRefined == Service!SSpec
==============================================================================
