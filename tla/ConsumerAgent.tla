---------------------------- MODULE ConsumerAgent ----------------------------
(***************************************************************************)
(* consumer_agent.c: the agent beside the HTTP clients.  EVENT_LOOP_NUM    *)
(* threads each run a libuv loop with its own connections, its own         *)
(* request counter, its own table of outstanding requests and one long     *)
(* connection (a link) to every provider agent; they share the load        *)
(* balancer and the count of admitted connections, each behind a lock.     *)
(*                                                                         *)
(* One action is one callback of one loop.  A callback touches its own     *)
(* loop's state and has one locked section at most, so it is atomic with   *)
(* respect to the other loops.  A read callback that finds several         *)
(* response frames is as many consecutive steps; FrameStream.tla has the   *)
(* reassembly of the frames.                                               *)
(*                                                                         *)
(* http_req_t blocks are heap memory: they are freed when a connection has *)
(* closed and a later connection may be given the same block, while        *)
(* http_req_dict keeps whatever pointer was stored last.                   *)
(***************************************************************************)
EXTENDS LoadBalancer

CONSTANTS
    EVENT_LOOP_NUM,
    HASH_SLOT_NUM,
    MAXIMUM_CONN_COUNT,
    MAXIMUM_CONN_WARMUP_COUNT,
    Conns,          \* the connections HTTP clients can open
    Blocks,         \* the addresses malloc can give an http_req_t
    NULL,           \* the null pointer; no block, no request id, no connection
    MaxReqId,       \* bound: the largest request id handed out
    MaxConnects,    \* bound: links established per loop, counting reconnections
    ClientsWait,    \* clients close a connection only when nothing is outstanding
    Timely,         \* no answer is HASH_SLOT_NUM ids or more behind its loop
    Faults          \* links break and requests get lost on the provider's side

Loops == 0 .. EVENT_LOOP_NUM - 1
DictSlots == 0 .. HASH_SLOT_NUM - 1
Ids == 0 .. MaxReqId
Requests == [loop : Loops, id : Ids]

ASSUME LoopsAssumption == EVENT_LOOP_NUM \in Nat \ {0}
ASSUME HashAssumption == HASH_SLOT_NUM \in Nat \ {0}
ASSUME ConnLimitAssumption ==
    /\ MAXIMUM_CONN_COUNT \in Nat /\ MAXIMUM_CONN_WARMUP_COUNT \in Nat
    /\ MAXIMUM_CONN_WARMUP_COUNT <= MAXIMUM_CONN_COUNT
ASSUME BoundAssumption == MaxReqId \in Nat /\ MaxConnects \in Nat \ {0}
ASSUME ConnsAssumption == IsFiniteSet(Conns)
ASSUME NullAssumption == NULL \notin Conns /\ NULL \notin Blocks /\ NULL \notin Ids
ASSUME EnvironmentAssumption ==
    ClientsWait \in BOOLEAN /\ Timely \in BOOLEAN /\ Faults \in BOOLEAN

VARIABLES
    \* one tcp_server_t per loop
    req_id,                     \* the id its next request gets
    http_req_dict,              \* slot -> the block stored there last
    endpoint_connection_count,
    listening,                  \* start_listen has been called
    link,                       \* link[l][e]: "connecting", "up" or "closing"
    \* one http_req_t per admitted connection
    conn,                       \* conn[c]: how far the connection has come
    tcp_server,                 \* the loop that accepted it
    data,                       \* client->data: its block
    asked,                      \* http_req->req_id: the request it sent last
    answer,                     \* the request whose answer was written to it since
    \* the process
    heap,                       \* heap[a]: the connection block a belongs to, NULL if free
    heapOK,                     \* no freed block has been used
    global_conn_remain_count,
    warm,                       \* the wall clock says the first 30 seconds are over
    running,                    \* the process has neither exited nor crashed
    \* the network and the provider agents
    flight                      \* flight[e]: the requests e still has to answer

serverVars == <<req_id, http_req_dict>>
linkVars == <<endpoint_connection_count, listening, link>>
connVars == <<conn, tcp_server, data, asked, answer>>
memVars == <<heap, heapOK>>
procVars == <<global_conn_remain_count, warm, running>>
vars == <<lbVars, serverVars, linkVars, connVars, memVars, procVars, flight>>

Admitted == {c \in Conns : conn[c] \in {"idle", "waiting"}}
------------------------------------------------------------------------------
\* Every loop draws ids from its own number on, and its table is empty.
init_tcp_server_t ==
    /\ req_id = [l \in Loops |-> l]
    /\ http_req_dict = [l \in Loops |-> [s \in DictSlots |-> NULL]]

\* start_work_event_loop and connect_to_provider_agent_long_live: the loop has
\* asked for all its links.
start_work_event_loop ==
    /\ endpoint_connection_count = [l \in Loops |-> 0]
    /\ listening = [l \in Loops |-> FALSE]
    /\ link = [l \in Loops |-> [e \in Ends |-> "connecting"]]

\* init_consumer: the balancer and the counter are set up; then the loops start.
Init ==
    /\ LBInit
    /\ init_tcp_server_t
    /\ start_work_event_loop
    /\ conn = [c \in Conns |-> "absent"]
    /\ tcp_server = [c \in Conns |-> 0]
    /\ data = [c \in Conns |-> NULL]
    /\ asked = [c \in Conns |-> NULL]
    /\ answer = [c \in Conns |-> NULL]
    /\ heap = [a \in Blocks |-> NULL]
    /\ heapOK = TRUE
    /\ global_conn_remain_count = 0
    /\ warm = FALSE
    /\ running = TRUE
    /\ flight = [e \in Ends |-> {}]
------------------------------------------------------------------------------
(* The links to the provider agents *)

\* c_after_connect_to_a_agent, status 0.  Nothing ever decrements the count.
c_after_connect_to_a_agent(l, e) ==
    /\ running
    /\ link[l][e] = "connecting"
    /\ link' = [link EXCEPT ![l][e] = "up"]
    /\ endpoint_connection_count' = [endpoint_connection_count EXCEPT ![l] = @ + 1]
    /\ listening' = [listening EXCEPT ![l] = @ \/ endpoint_connection_count'[l] = num_of_ends]
    /\ UNCHANGED <<lbVars, serverVars, connVars, memVars, procVars, flight>>

\* The requests of loop l that e has not answered.
OnLink(l, e) == {r \in flight[e] : r.loop = l}

\* The same callback with an error: make_connection_to_agent_ starts over with a
\* new handle, and what was queued on the old one is cancelled.  The old handle
\* is freed without being closed while libuv is still using it: the process goes
\* on or crashes.
c_after_connect_to_a_agent_fail(l, e) ==
    /\ running /\ Faults
    /\ link[l][e] = "connecting"
    /\ flight' = [flight EXCEPT ![e] = @ \ OnLink(l, e)]
    /\ running' \in BOOLEAN
    /\ UNCHANGED <<lbVars, serverVars, linkVars, connVars, memVars, global_conn_remain_count, warm>>

\* Mutant: the endpoint counts as idle when one loop's link to it is lost.
c_read_from_provide_agents_eof_Resets(l, e) ==
    /\ running /\ Faults
    /\ link[l][e] = "up"
    /\ endpoint_connection_count[l] < MaxConnects
    /\ link' = [link EXCEPT ![l][e] = "closing"]
    /\ flight' = [flight EXCEPT ![e] = @ \ OnLink(l, e)]
    /\ remain' = [remain EXCEPT ![e] = 0]
    /\ UNCHANGED <<diff_time_history, diff_time_sum, head, tail, serverVars, endpoint_connection_count,
                   listening, connVars, memVars, procVars>>

\* c_read_from_provide_agents at end of file: the link is closed and the requests
\* sent on it will never be answered.
c_read_from_provide_agents_eof(l, e) ==
    /\ running /\ Faults
    /\ link[l][e] = "up"
    /\ endpoint_connection_count[l] < MaxConnects
    /\ link' = [link EXCEPT ![l][e] = "closing"]
    /\ flight' = [flight EXCEPT ![e] = @ \ OnLink(l, e)]
    /\ UNCHANGED <<lbVars, serverVars, endpoint_connection_count, listening, connVars, memVars, procVars>>

\* Mutant: a link that has closed is not connected again.
reconnection_to_agent_Forgets(l, e) ==
    /\ running
    /\ link[l][e] = "closing"
    /\ UNCHANGED vars

\* The close callback of a link: make_connection_to_agent_ finds conn_status # 0.
reconnection_to_agent(l, e) ==
    /\ running
    /\ link[l][e] = "closing"
    /\ link' = [link EXCEPT ![l][e] = "connecting"]
    /\ UNCHANGED <<lbVars, serverVars, endpoint_connection_count, listening, connVars, memVars, procVars, flight>>

\* c_read_from_provide_agents on any other read error: exit(-1).
c_read_from_provide_agents_error(l, e) ==
    /\ running /\ Faults
    /\ link[l][e] = "up"
    /\ running' = FALSE
    /\ UNCHANGED <<lbVars, serverVars, linkVars, connVars, memVars, global_conn_remain_count, warm, flight>>

\* The provider agent drops what Dubbo answered with a status other than 20
\* (p_on_read_results): no frame ever comes back for the request.
provider_drops(e, r) ==
    /\ running /\ Faults
    /\ r \in flight[e]
    /\ flight' = [flight EXCEPT ![e] = @ \ {r}]
    /\ UNCHANGED <<lbVars, serverVars, linkVars, connVars, memVars, procVars>>
------------------------------------------------------------------------------
(* The HTTP connections *)

conn_limit == IF warm THEN MAXIMUM_CONN_COUNT ELSE MAXIMUM_CONN_WARMUP_COUNT

\* get_wall_time() - start_time passes 30 seconds; the wall clock may also be set
\* back.
WallClock ==
    /\ running
    /\ warm' = ~warm
    /\ UNCHANGED <<lbVars, serverVars, linkVars, connVars, memVars, global_conn_remain_count, running, flight>>

\* init_http_req_t: malloc gives the connection a block that is free.
init_http_req_t(c) ==
    /\ \E a \in Blocks :
         /\ heap[a] = NULL
         /\ heap' = [heap EXCEPT ![a] = c]
         /\ data' = [data EXCEPT ![c] = a]
    /\ asked' = [asked EXCEPT ![c] = NULL]
    /\ answer' = [answer EXCEPT ![c] = NULL]

\* on_new_connection below the limit: init_http_req_t, and reading starts.
on_new_connection(l, c) ==
    /\ running /\ listening[l]
    /\ conn[c] = "absent"
    /\ global_conn_remain_count < conn_limit
    /\ global_conn_remain_count' = global_conn_remain_count + 1
    /\ init_http_req_t(c)
    /\ conn' = [conn EXCEPT ![c] = "idle"]
    /\ tcp_server' = [tcp_server EXCEPT ![c] = l]
    /\ UNCHANGED <<lbVars, serverVars, linkVars, heapOK, warm, running, flight>>

\* on_new_connection at the limit: what the client sends is read and thrown away.
on_new_connection_refused(l, c) ==
    /\ running /\ listening[l]
    /\ conn[c] = "absent"
    /\ global_conn_remain_count >= conn_limit
    /\ conn' = [conn EXCEPT ![c] = "refused"]
    /\ UNCHANGED <<lbVars, serverVars, linkVars, tcp_server, data, asked, answer, memVars, procVars, flight>>

c_dummy_read_connection_data(c) ==
    /\ running
    /\ conn[c] = "refused"
    /\ conn' = [conn EXCEPT ![c] = "absent"]
    /\ UNCHANGED <<lbVars, serverVars, linkVars, tcp_server, data, asked, answer, memVars, procVars, flight>>

\* Mutant: a table slot that holds a pointer already keeps it.
send_to_provider_agent_KeepsSlot(which_endpoint, l, a, id) ==
    /\ http_req_dict' = [http_req_dict EXCEPT ![l][id % HASH_SLOT_NUM] = IF @ = NULL THEN a ELSE @]
    /\ flight' = IF link[l][which_endpoint] = "closing" THEN flight
                 ELSE [flight EXCEPT ![which_endpoint] = @ \cup {[loop |-> l, id |-> id]}]

\* send_to_provider_agent: the table slot is overwritten, whatever it held, and
\* the frame is written.  uv_write to a link that is closing fails with EBADF and
\* nobody looks at the result.
send_to_provider_agent(which_endpoint, l, a, id) ==
    /\ http_req_dict' = [http_req_dict EXCEPT ![l][id % HASH_SLOT_NUM] = a]
    /\ flight' = IF link[l][which_endpoint] = "closing" THEN flight
                 ELSE [flight EXCEPT ![which_endpoint] = @ \cup {[loop |-> l, id |-> id]}]

\* Mutant: the counter moves on by one instead of by the number of loops.
NextReqId_PlusOne(l) == req_id[l] + 1

NextReqId(l) == req_id[l] + EVENT_LOOP_NUM

\* The environment's promise when Timely: every request of loop l that is still
\* to be answered is fewer than HASH_SLOT_NUM ids older than the next one.
InWindow(l) == \A e \in Ends : \A r \in OnLink(l, e) : req_id[l] - r.id < HASH_SLOT_NUM

\* Mutant: the request's id is drawn after the table entry was made.
c_read_connection_data_LateId(c) ==
    LET l == tcp_server[c] IN
    /\ running
    /\ conn[c] = "idle"
    /\ NextReqId(l) <= MaxReqId
    /\ Timely => InWindow(l)
    /\ \E e \in Ends :
         /\ select_endpoint_time_based(e)
         /\ http_req_dict' = [http_req_dict EXCEPT ![l][req_id[l] % HASH_SLOT_NUM] = data[c]]
         /\ flight' = [flight EXCEPT ![e] = @ \cup {[loop |-> l, id |-> NextReqId(l)]}]
    /\ req_id' = [req_id EXCEPT ![l] = NextReqId(l)]
    /\ asked' = [asked EXCEPT ![c] = NextReqId(l)]
    /\ answer' = [answer EXCEPT ![c] = NULL]
    /\ conn' = [conn EXCEPT ![c] = "waiting"]
    /\ UNCHANGED <<linkVars, tcp_server, data, memVars, procVars>>

\* c_read_connection_data once a whole request has been read: an endpoint is
\* chosen, the request gets its id and is sent.  Clients do not pipeline.
c_read_connection_data(c) ==
    LET l == tcp_server[c] IN
    /\ running
    /\ conn[c] = "idle"
    /\ req_id[l] <= MaxReqId
    /\ Timely => InWindow(l)
    /\ \E e \in Ends :
         /\ select_endpoint_time_based(e)
         /\ send_to_provider_agent(e, l, data[c], req_id[l])
    /\ req_id' = [req_id EXCEPT ![l] = NextReqId(l)]
    /\ asked' = [asked EXCEPT ![c] = req_id[l]]
    /\ answer' = [answer EXCEPT ![c] = NULL]
    /\ conn' = [conn EXCEPT ![c] = "waiting"]
    /\ UNCHANGED <<linkVars, tcp_server, data, memVars, procVars>>

\* Mutant: a connection that closes while it waits keeps its place.
c_read_connection_data_close_Leaks(c) ==
    /\ running
    /\ conn[c] = "idle" \/ (conn[c] = "waiting" /\ ~ClientsWait)
    /\ conn' = [conn EXCEPT ![c] = "closing"]
    /\ global_conn_remain_count' = global_conn_remain_count - (IF conn[c] = "idle" THEN 1 ELSE 0)
    /\ UNCHANGED <<lbVars, serverVars, linkVars, tcp_server, data, asked, answer, memVars, warm, running, flight>>

\* c_read_connection_data when the client has gone (nread < 0).
c_read_connection_data_close(c) ==
    /\ running
    /\ conn[c] = "idle" \/ (conn[c] = "waiting" /\ ~ClientsWait)
    /\ conn' = [conn EXCEPT ![c] = "closing"]
    /\ global_conn_remain_count' = global_conn_remain_count - 1
    /\ UNCHANGED <<lbVars, serverVars, linkVars, tcp_server, data, asked, answer, memVars, warm, running, flight>>

\* close_cb, free_http_req: the block is freed; http_req_dict still points to it.
close_cb(c) ==
    /\ running
    /\ conn[c] = "closing"
    /\ conn' = [conn EXCEPT ![c] = "absent"]
    /\ heap' = [heap EXCEPT ![data[c]] = NULL]
    /\ UNCHANGED <<lbVars, serverVars, linkVars, tcp_server, data, asked, answer, heapOK, procVars, flight>>
------------------------------------------------------------------------------
(* The answers *)

\* The table slot is empty: only the balancer's counter is put right.
NobodyToAnswer(e) ==
    /\ remain' = [remain EXCEPT ![e] = @ - 1]
    /\ UNCHANGED <<diff_time_history, diff_time_sum, head, tail, conn, answer, heapOK, running>>

\* The slot points to the block of connection c: the response is written to it,
\* unless c is closing (uv_write fails with EBADF).
WriteAnswer(c, id) ==
    /\ IF conn[c] = "closing" THEN UNCHANGED <<conn, answer>>
       ELSE /\ conn' = [conn EXCEPT ![c] = "idle"]
            /\ answer' = [answer EXCEPT ![c] = id]
    /\ UNCHANGED <<heapOK, running>>

\* The slot points to a block that has been freed: the process reads and writes
\* freed memory, and goes on or crashes.
WriteToFreed ==
    /\ heapOK' = FALSE
    /\ running' \in BOOLEAN
    /\ UNCHANGED <<conn, answer>>

\* Mutant: request id 0 is taken for no request, and its answer passed over.
AnswerBlock_ZeroIsNone(e, r, a) ==
    IF r.id = 0 THEN UNCHANGED <<lbVars, conn, answer, heapOK, running>>
    ELSE IF a = NULL THEN NobodyToAnswer(e)
    ELSE /\ \E d \in DiffTimes : finish_endpoint_task_time_based(e, d)
         /\ IF heap[a] = NULL THEN WriteToFreed ELSE WriteAnswer(heap[a], r.id)

AnswerBlock(e, r, a) ==
    IF a = NULL THEN NobodyToAnswer(e)
    ELSE /\ \E d \in DiffTimes : finish_endpoint_task_time_based(e, d)
         /\ IF heap[a] = NULL THEN WriteToFreed ELSE WriteAnswer(heap[a], r.id)

\* Mutant: only the answer to the request sent last is taken off the link.
c_read_from_provide_agents_Newest(e, r) ==
    /\ running
    /\ r \in flight[e]
    /\ link[r.loop][e] = "up"
    /\ r.id = req_id[r.loop] - EVENT_LOOP_NUM
    /\ AnswerBlock(e, r, http_req_dict[r.loop][r.id % HASH_SLOT_NUM])
    /\ flight' = [flight EXCEPT ![e] = @ \ {r}]
    /\ UNCHANGED <<serverVars, linkVars, tcp_server, data, asked, heap, global_conn_remain_count, warm>>

\* c_read_from_provide_agents for one response frame: provider e answers r.
c_read_from_provide_agents(e, r) ==
    /\ running
    /\ r \in flight[e]
    /\ link[r.loop][e] = "up"
    /\ AnswerBlock(e, r, http_req_dict[r.loop][r.id % HASH_SLOT_NUM])
    /\ flight' = [flight EXCEPT ![e] = @ \ {r}]
    /\ UNCHANGED <<serverVars, linkVars, tcp_server, data, asked, heap, global_conn_remain_count, warm>>
------------------------------------------------------------------------------
LinkStep(l, e) ==
    \/ c_after_connect_to_a_agent(l, e)
    \/ c_after_connect_to_a_agent_fail(l, e)
    \/ c_read_from_provide_agents_eof(l, e)
    \/ reconnection_to_agent(l, e)
    \/ c_read_from_provide_agents_error(l, e)

ConnStep(c) ==
    \/ \E l \in Loops : on_new_connection(l, c) \/ on_new_connection_refused(l, c)
    \/ c_dummy_read_connection_data(c)
    \/ c_read_connection_data(c)
    \/ c_read_connection_data_close(c)
    \/ close_cb(c)

Next ==
    \/ \E l \in Loops, e \in Ends : LinkStep(l, e)
    \/ \E c \in Conns : ConnStep(c)
    \/ \E e \in Ends : \E r \in flight[e] : c_read_from_provide_agents(e, r) \/ provider_drops(e, r)
    \/ WallClock

Spec == Init /\ [][Next]_vars

\* The loops keep running their callbacks; a provider that is up accepts
\* connections and answers what it was sent; clients may do as they like.
Fairness ==
    /\ \A l \in Loops, e \in Ends :
         WF_vars(c_after_connect_to_a_agent(l, e)) /\ WF_vars(reconnection_to_agent(l, e))
    /\ \A c \in Conns : WF_vars(close_cb(c))
    /\ \A e \in Ends : \A r \in Requests : WF_vars(c_read_from_provide_agents(e, r))

FairSpec == Spec /\ Fairness
------------------------------------------------------------------------------
(* Properties *)

\* The agent's variables have their types.
TypeOK ==
    /\ LBTypeOK
    /\ req_id \in [Loops -> Nat]
    /\ http_req_dict \in [Loops -> [DictSlots -> Blocks \cup {NULL}]]
    /\ endpoint_connection_count \in [Loops -> Nat]
    /\ listening \in [Loops -> BOOLEAN]
    /\ link \in [Loops -> [Ends -> {"connecting", "up", "closing"}]]
    /\ conn \in [Conns -> {"absent", "refused", "idle", "waiting", "closing"}]
    /\ tcp_server \in [Conns -> Loops]
    /\ data \in [Conns -> Blocks \cup {NULL}]
    /\ asked \in [Conns -> Ids \cup {NULL}]
    /\ answer \in [Conns -> Ids \cup {NULL}]
    /\ heap \in [Blocks -> Conns \cup {NULL}]
    /\ heapOK \in BOOLEAN
    /\ global_conn_remain_count \in Int
    /\ warm \in BOOLEAN
    /\ running \in BOOLEAN
    /\ flight \in [Ends -> SUBSET Requests]

\* A client only ever receives the answer to the request it sent last on that
\* connection (the lookup by req_id % HASH_SLOT_NUM in c_read_from_provide_agents).
AnswerIsOwn == \A c \in Conns : answer[c] \in {NULL, asked[c]}

\* remain is what the balancer takes it for: the number of requests an endpoint
\* still has to answer, whether or not their clients are still there.
RemainIsInFlight == \A e \in Ends : remain[e] = Cardinality(flight[e])

\* An endpoint is never taken to be idler than it is: however clients leave, links
\* break and requests get lost, its counter covers what it still has to answer (the
\* counter is shared by all loops; what is lost stays counted).
RemainCovers == \A e \in Ends : remain[e] >= Cardinality(flight[e])

\* The shared counter is the number of admitted connections over all loops, and
\* they are never more than MAXIMUM_CONN_COUNT, wherever the wall clock goes
\* (on_new_connection; below that, the limit in force is not kept when the clock is
\* set back).
AdmissionControlled ==
    /\ global_conn_remain_count = Cardinality(Admitted)
    /\ Cardinality(Admitted) <= MAXIMUM_CONN_COUNT

\* A client that waits can be answered for as long as its loop has not drawn
\* HASH_SLOT_NUM further ids: the table slot of its request still leads to its block
\* and the block is its own, whichever clients have hung up meanwhile, whatever
\* blocks were freed and given to others, and whoever got which late answer.
WaitersFound ==
    \A c \in Conns :
        LET l == tcp_server[c] IN
        conn[c] = "waiting" /\ req_id[l] - EVENT_LOOP_NUM - asked[c] < HASH_SLOT_NUM =>
            http_req_dict[l][asked[c] % HASH_SLOT_NUM] = data[c] /\ heap[data[c]] = c

\* A block in use leads back to the connection it was allocated for.
HeapLive ==
    \A a \in Blocks : heap[a] # NULL =>
        /\ conn[heap[a]] \in {"idle", "waiting", "closing"}
        /\ data[heap[a]] = a

\* A link that broke is connected again, unless the process has died.
LinksComeBack ==
    \A l \in Loops, e \in Ends : (link[l][e] = "closing") ~> (link[l][e] = "up" \/ ~running)
------------------------------------------------------------------------------
(* Why answers find their way: the inductive invariant of AnswerIsOwn *)

\* A connection's block is its own until close_cb has freed it.
BlocksOwned ==
    \A c \in Conns : conn[c] \in {"idle", "waiting", "closing"} =>
        data[c] \in Blocks /\ heap[data[c]] = c

\* Ids are drawn from one residue class per loop and never reused.
IdsOfLoop ==
    /\ \A l \in Loops : req_id[l] % EVENT_LOOP_NUM = l
    /\ \A c \in Conns : asked[c] # NULL =>
         /\ asked[c] < req_id[tcp_server[c]]
         /\ asked[c] % EVENT_LOOP_NUM = tcp_server[c]

\* A request in flight is younger than HASH_SLOT_NUM ids, a connection is waiting
\* for it, and the table slot of its id leads to that connection.
RequestsOwned ==
    \A e \in Ends : \A r \in flight[e] :
        /\ r.id < req_id[r.loop]
        /\ req_id[r.loop] - EVENT_LOOP_NUM - r.id < HASH_SLOT_NUM
        /\ \E c \in Conns :
             /\ conn[c] = "waiting"
             /\ tcp_server[c] = r.loop
             /\ asked[c] = r.id
             /\ http_req_dict[r.loop][r.id % HASH_SLOT_NUM] = data[c]

\* No request is in flight to two endpoints.
SentOnce == \A e, f \in Ends : e # f => flight[e] \cap flight[f] = {}

\* With clients that wait and timely answers, every response frame finds the
\* connection that asked, through memory that is still its own, and a waiting
\* connection has not been written to.
DeliveryInv ==
    /\ heapOK
    /\ BlocksOwned
    /\ IdsOfLoop
    /\ RequestsOwned
    /\ SentOnce
    /\ \A c \in Conns : conn[c] = "waiting" => answer[c] = NULL
    /\ AnswerIsOwn
------------------------------------------------------------------------------
Phase(c) == IF conn[c] \in {"idle", "waiting"} THEN conn[c] ELSE "closed"

Clients == INSTANCE RequestReply WITH
    Connections <- Conns, Questions <- Ids, None <- NULL,
    phase <- [c \in Conns |-> Phase(c)], question <- asked, answer <- answer

\* With clients that wait and timely answers, the agent is the request-reply
\* service of RequestReply: every answer goes to the connection that asked.
RequestReplyRefined == Clients!Spec

\* ... and without faults every request is answered.
RequestReplyFair == Clients!FairSpec
==============================================================================
