------------------------- MODULE ConsumerAgentProofs -------------------------
(***************************************************************************)
(* The consumer agent for any number of loops, endpoints, connections and  *)
(* table slots: its types, that an answer reaches the connection that      *)
(* asked when clients wait and answers are timely, its counters, and the   *)
(* agent composed with the relays of the provider agents.                  *)
(***************************************************************************)
EXTENDS Mesh, LoadBalancerProofs, FiniteSetTheorems

(* Remainders: ids are stored modulo HASH_SLOT_NUM and drawn modulo EVENT_LOOP_NUM. *)

\* Division with remainder.
LEMMA DivMod ==
    ASSUME NEW n \in Nat, n > 0, NEW i \in Nat
    PROVE  \E q \in Nat : i = n * q + (i % n)
  OBVIOUS

\* Multiplying by a natural number keeps an order.
LEMMA TimesMonotone ==
    ASSUME NEW n \in Nat, NEW p \in Int, NEW q \in Int, p <= q
    PROVE n * p <= n * q
  OBVIOUS

\* Two numbers with the same remainder modulo n are at least n apart: ids that share
\* a slot of http_req_dict are a whole table apart.
LEMMA SameResidue ==
    ASSUME NEW n \in Nat, n > 0, NEW i \in Nat, NEW j \in Nat, i % n = j % n, i < j
    PROVE j - i >= n
  <1>1. PICK p \in Nat : i = n * p + (i % n)
    BY DivMod
  <1>2. PICK q \in Nat : j = n * q + (j % n)
    BY DivMod
  <1>7. i % n \in Nat
    OBVIOUS
  <1>8. n * p \in Nat /\ n * q \in Nat
    OBVIOUS
  <1>3. n * p < n * q
    BY <1>1, <1>2, <1>7, <1>8
  <1>4. p < q
    <2> SUFFICES ASSUME q <= p PROVE FALSE
      OBVIOUS
    <2>1. n * q <= n * p
      BY TimesMonotone
    <2> QED BY <2>1, <1>3, <1>8
  <1>5. n * (p + 1) <= n * q
    <2>1. p + 1 \in Int /\ q \in Int /\ p + 1 <= q
      BY <1>4
    <2> QED BY <2>1, TimesMonotone
  <1>6. n * (p + 1) = n * p + n
    OBVIOUS
  <1> QED BY <1>1, <1>2, <1>5, <1>6, <1>7, <1>8

\* A remainder is known by its quotient.
LEMMA UniqueResidue ==
    ASSUME NEW n \in Nat, n > 0, NEW i \in Nat, NEW q \in Nat, NEW r \in 0 .. n - 1, i = n * q + r
    PROVE i % n = r
  OBVIOUS

\* Adding n changes no remainder modulo n.
LEMMA ShiftResidue ==
    ASSUME NEW n \in Nat, n > 0, NEW i \in Nat
    PROVE  (i + n) % n = i % n
  <1>1. PICK q \in Nat : i = n * q + (i % n)
    BY DivMod
  <1>2. i % n \in 0 .. n - 1
    OBVIOUS
  <1>3. n * (q + 1) = n * q + n
    OBVIOUS
  <1>4. i + n = n * (q + 1) + (i % n)
    BY <1>1, <1>3, <1>2
  <1>5. q + 1 \in Nat /\ i + n \in Nat
    OBVIOUS
  <1> QED BY <1>2, <1>4, <1>5, UniqueResidue
------------------------------------------------------------------------------
\* The table index of an id is a slot of http_req_dict.
LEMMA SlotOfId == ASSUME NEW i \in Nat PROVE i % HASH_SLOT_NUM \in DictSlots
  BY HashAssumption DEF DictSlots

LEMMA LoopIsNat == \A l \in Loops : l \in Nat /\ l < EVENT_LOOP_NUM
  BY LoopsAssumption DEF Loops

LEMMA IdIsNat == \A i \in Ids : i \in Nat
  BY BoundAssumption DEF Ids
------------------------------------------------------------------------------
(* Types *)

TypeInv == TypeOK /\ RingFull

LEMMA TypeInvInit == Init => TypeInv
  <1> SUFFICES ASSUME Init PROVE TypeInv
    OBVIOUS
  <1>1. LBTypeOK /\ RingFull
    BY RingInvInit DEF Init, init_tcp_server_t, start_work_event_loop, RingInv
  <1>2. 0 \in Loops
    BY LoopsAssumption DEF Loops
  <1>3. /\ req_id \in [Loops -> Nat]
        /\ endpoint_connection_count \in [Loops -> Nat]
        /\ global_conn_remain_count \in Int
    BY LoopIsNat DEF Init, init_tcp_server_t, start_work_event_loop
  <1>4. /\ http_req_dict \in [Loops -> [DictSlots -> Blocks \cup {NULL}]]
        /\ listening \in [Loops -> BOOLEAN]
        /\ link \in [Loops -> [Ends -> {"connecting", "up", "closing"}]]
        /\ heap \in [Blocks -> Conns \cup {NULL}]
        /\ heapOK \in BOOLEAN /\ warm \in BOOLEAN /\ running \in BOOLEAN
        /\ flight \in [Ends -> SUBSET Requests]
    BY DEF Init, init_tcp_server_t, start_work_event_loop
  <1>5. /\ conn \in [Conns -> {"absent", "refused", "idle", "waiting", "closing"}]
        /\ tcp_server \in [Conns -> Loops]
        /\ data \in [Conns -> Blocks \cup {NULL}]
        /\ asked \in [Conns -> Ids \cup {NULL}]
        /\ answer \in [Conns -> Ids \cup {NULL}]
    BY <1>2 DEF Init, init_tcp_server_t, start_work_event_loop
  <1> QED BY <1>1, <1>3, <1>4, <1>5 DEF TypeInv, TypeOK

\* The balancer's part of TypeInv is untouched when its variables are.
LEMMA RingStutter ==
    ASSUME LBTypeOK, RingFull, UNCHANGED lbVars PROVE LBTypeOK' /\ RingFull'
  BY DEF LBTypeOK, RingFull, lbVars

LEMMA LinkTypes ==
    ASSUME TypeInv, NEW l \in Loops, NEW e \in Ends, LinkStep(l, e) PROVE TypeInv'
  <1> USE DEF serverVars, connVars, memVars, procVars, linkVars
  <1>1. UNCHANGED lbVars => LBTypeOK' /\ RingFull'
    BY RingStutter DEF TypeInv, TypeOK
  <1>2. CASE c_after_connect_to_a_agent(l, e)
    BY <1>1, <1>2 DEF c_after_connect_to_a_agent, TypeInv, TypeOK
  <1>3. CASE c_after_connect_to_a_agent_fail(l, e)
    BY <1>1, <1>3 DEF c_after_connect_to_a_agent_fail, TypeInv, TypeOK, OnLink
  <1>4. CASE c_read_from_provide_agents_eof(l, e)
    BY <1>1, <1>4 DEF c_read_from_provide_agents_eof, TypeInv, TypeOK, OnLink
  <1>5. CASE reconnection_to_agent(l, e)
    BY <1>1, <1>5 DEF reconnection_to_agent, TypeInv, TypeOK
  <1>6. CASE c_read_from_provide_agents_error(l, e)
    BY <1>1, <1>6 DEF c_read_from_provide_agents_error, TypeInv, TypeOK
  <1> QED BY <1>2, <1>3, <1>4, <1>5, <1>6 DEF LinkStep

\* What a dispatched request changes.
LEMMA RequestTypes ==
    ASSUME TypeInv, NEW c \in Conns, c_read_connection_data(c) PROVE TypeInv'
  <1> DEFINE l == tcp_server[c]
  <1>1. /\ l \in Loops
        /\ req_id[l] \in Ids
        /\ req_id[l] \in Nat
        /\ NextReqId(l) \in Nat
    BY BoundAssumption, LoopsAssumption DEF TypeInv, TypeOK, c_read_connection_data, Ids, NextReqId
  <1> PICK e \in Ends : /\ select_endpoint_time_based(e)
                        /\ send_to_provider_agent(e, l, data[c], req_id[l])
    BY DEF c_read_connection_data
  <1>2. LBTypeOK' /\ RingFull'
    BY SelectKeepsRing DEF TypeInv, TypeOK, RingInv
  <1>3. [loop |-> l, id |-> req_id[l]] \in Requests
    BY <1>1 DEF Requests
  <1>4. http_req_dict' \in [Loops -> [DictSlots -> Blocks \cup {NULL}]]
    BY <1>1, SlotOfId DEF TypeInv, TypeOK, send_to_provider_agent
  <1>5. flight' \in [Ends -> SUBSET Requests]
    BY <1>1, <1>3 DEF TypeInv, TypeOK, send_to_provider_agent
  <1>6. req_id' \in [Loops -> Nat]
    BY <1>1 DEF TypeInv, TypeOK, c_read_connection_data
  <1>7. /\ asked' \in [Conns -> Ids \cup {NULL}]
        /\ answer' \in [Conns -> Ids \cup {NULL}]
        /\ conn' \in [Conns -> {"absent", "refused", "idle", "waiting", "closing"}]
    BY <1>1 DEF TypeInv, TypeOK, c_read_connection_data
  <1> QED BY <1>2, <1>4, <1>5, <1>6, <1>7
          DEF TypeInv, TypeOK, c_read_connection_data, linkVars, memVars, procVars

LEMMA ConnTypes == ASSUME TypeInv, NEW c \in Conns, ConnStep(c) PROVE TypeInv'
  <1> USE DEF serverVars, connVars, memVars, procVars, linkVars
  <1>1. UNCHANGED lbVars => LBTypeOK' /\ RingFull'
    BY RingStutter DEF TypeInv, TypeOK
  <1>2. ASSUME NEW l \in Loops, on_new_connection(l, c) PROVE TypeInv'
    BY <1>1, <1>2 DEF on_new_connection, init_http_req_t, TypeInv, TypeOK
  <1>3. ASSUME NEW l \in Loops, on_new_connection_refused(l, c) PROVE TypeInv'
    BY <1>1, <1>3 DEF on_new_connection_refused, TypeInv, TypeOK
  <1>4. CASE c_dummy_read_connection_data(c)
    BY <1>1, <1>4 DEF c_dummy_read_connection_data, TypeInv, TypeOK
  <1>5. CASE c_read_connection_data(c)
    BY <1>5, RequestTypes
  <1>6. CASE c_read_connection_data_close(c)
    BY <1>1, <1>6 DEF c_read_connection_data_close, TypeInv, TypeOK
  <1>7. CASE close_cb(c)
    BY <1>1, <1>7 DEF close_cb, TypeInv, TypeOK
  <1> QED BY <1>2, <1>3, <1>4, <1>5, <1>6, <1>7 DEF ConnStep

\* What a response frame changes in the balancer, whoever it is for.
LEMMA AnswerRing ==
    ASSUME TypeInv, NEW e \in Ends, NEW r, NEW a, AnswerBlock(e, r, a)
    PROVE  LBTypeOK' /\ RingFull' /\ remain' = [remain EXCEPT ![e] = @ - 1]
  <1>1. CASE a = NULL
    BY <1>1 DEF AnswerBlock, NobodyToAnswer, TypeInv, TypeOK, LBTypeOK, RingFull
  <1>2. CASE a # NULL
    <2> PICK d \in DiffTimes : finish_endpoint_task_time_based(e, d)
      BY <1>2 DEF AnswerBlock
    <2>1. RingInv'
      BY FinishKeepsRing DEF TypeInv, TypeOK, RingInv
    <2> QED BY <2>1 DEF RingInv, finish_endpoint_task_time_based
  <1> QED BY <1>1, <1>2

LEMMA AnswerTypes ==
    ASSUME TypeInv, NEW e \in Ends, NEW r \in flight[e], c_read_from_provide_agents(e, r)
    PROVE  TypeInv'
  <1> DEFINE a == http_req_dict[r.loop][r.id % HASH_SLOT_NUM]
  <1>1. r \in Requests /\ r.loop \in Loops /\ r.id \in Ids
    BY DEF TypeInv, TypeOK, Requests
  <1>2. a \in Blocks \cup {NULL}
    BY <1>1, SlotOfId, IdIsNat DEF TypeInv, TypeOK
  <1>3. AnswerBlock(e, r, a)
    BY DEF c_read_from_provide_agents
  <1>4. LBTypeOK' /\ RingFull'
    BY <1>3, AnswerRing
  <1> HIDE DEF a
  <1>5. /\ conn' \in [Conns -> {"absent", "refused", "idle", "waiting", "closing"}]
        /\ answer' \in [Conns -> Ids \cup {NULL}]
        /\ heapOK' \in BOOLEAN
        /\ running' \in BOOLEAN
    <2>1. CASE a = NULL
      BY <1>3, <2>1 DEF AnswerBlock, NobodyToAnswer, TypeInv, TypeOK
    <2>2. CASE a # NULL /\ heap[a] = NULL
      BY <1>3, <2>2 DEF AnswerBlock, WriteToFreed, TypeInv, TypeOK
    <2>3. CASE a # NULL /\ heap[a] # NULL
      BY <1>1, <1>2, <1>3, <2>3 DEF AnswerBlock, WriteAnswer, TypeInv, TypeOK
    <2> QED BY <2>1, <2>2, <2>3
  <1>6. flight' \in [Ends -> SUBSET Requests]
    BY DEF c_read_from_provide_agents, TypeInv, TypeOK
  <1> QED BY <1>4, <1>5, <1>6 DEF c_read_from_provide_agents, TypeInv, TypeOK, serverVars, linkVars

LEMMA OtherTypes ==
    ASSUME TypeInv,
           \/ WallClock
           \/ \E e \in Ends : \E r \in flight[e] : provider_drops(e, r)
           \/ UNCHANGED vars
    PROVE  TypeInv'
  <1> USE DEF serverVars, connVars, memVars, procVars, linkVars
  <1>1. UNCHANGED lbVars => LBTypeOK' /\ RingFull'
    BY RingStutter DEF TypeInv, TypeOK
  <1>2. CASE WallClock
    BY <1>1, <1>2 DEF WallClock, TypeInv, TypeOK
  <1>3. ASSUME NEW e \in Ends, NEW r \in flight[e], provider_drops(e, r) PROVE TypeInv'
    BY <1>1, <1>3 DEF provider_drops, TypeInv, TypeOK
  <1>4. CASE UNCHANGED vars
    BY <1>1, <1>4 DEF vars, TypeInv, TypeOK
  <1> QED BY <1>2, <1>3, <1>4

LEMMA TypeInvStep == TypeInv /\ [Next]_vars => TypeInv'
  BY LinkTypes, ConnTypes, AnswerTypes, OtherTypes DEF Next

\* The agent's variables keep their types: in particular every table index is in
\* http_req_dict and every ring index in the history, in every environment.
THEOREM AgentTypeCorrect == Spec => []TypeOK
  <1>1. TypeInv => TypeOK
    BY DEF TypeInv
  <1> QED BY <1>1, TypeInvInit, TypeInvStep, PTL DEF Spec
------------------------------------------------------------------------------
(* Answers find their way *)

\* Two ids fewer than HASH_SLOT_NUM apart do not share a table slot.
LEMMA SlotsDistinct ==
    ASSUME NEW i \in Nat, NEW j \in Nat, i < j, j - i < HASH_SLOT_NUM
    PROVE  i % HASH_SLOT_NUM # j % HASH_SLOT_NUM
  <1>1. HASH_SLOT_NUM \in Nat /\ HASH_SLOT_NUM > 0
    BY HashAssumption
  <1> SUFFICES ASSUME i % HASH_SLOT_NUM = j % HASH_SLOT_NUM PROVE j - i >= HASH_SLOT_NUM
    BY <1>1
  <1> QED BY <1>1, SameResidue

\* Adding the number of loops keeps an id in its residue class.
LEMMA SameClass ==
    ASSUME NEW i \in Nat PROVE (i + EVENT_LOOP_NUM) % EVENT_LOOP_NUM = i % EVENT_LOOP_NUM
  <1>1. EVENT_LOOP_NUM \in Nat /\ EVENT_LOOP_NUM > 0
    BY LoopsAssumption
  <1> QED BY <1>1, ShiftResidue

DInv == TypeInv /\ DeliveryInv

LEMMA DeliveryInit == Init => DeliveryInv
  <1> SUFFICES ASSUME Init PROVE DeliveryInv
    OBVIOUS
  <1>1. \A l \in Loops : l % EVENT_LOOP_NUM = l
    BY LoopsAssumption DEF Loops
  <1>2. IdsOfLoop
    BY <1>1 DEF Init, init_tcp_server_t, start_work_event_loop, IdsOfLoop
  <1>3. BlocksOwned /\ RequestsOwned /\ SentOnce /\ AnswerIsOwn
    BY DEF Init, init_tcp_server_t, start_work_event_loop, BlocksOwned, RequestsOwned, SentOnce, AnswerIsOwn
  <1> QED BY <1>2, <1>3 DEF Init, init_tcp_server_t, start_work_event_loop, DeliveryInv

\* Losing requests and moving links cannot send an answer astray.
LEMMA DeliveryFrame ==
    ASSUME DInv, UNCHANGED <<serverVars, connVars, memVars>>,
           \A e \in Ends : flight'[e] \subseteq flight[e]
    PROVE  DeliveryInv'
  <1> USE DEF serverVars, connVars, memVars
  <1>1. BlocksOwned' /\ IdsOfLoop' /\ AnswerIsOwn'
    BY DEF DInv, DeliveryInv, BlocksOwned, IdsOfLoop, AnswerIsOwn
  <1>2. RequestsOwned'
    BY DEF DInv, DeliveryInv, RequestsOwned
  <1>3. SentOnce'
    BY DEF DInv, DeliveryInv, SentOnce
  <1> QED BY <1>1, <1>2, <1>3 DEF DInv, DeliveryInv

LEMMA LinkDelivery ==
    ASSUME DInv, NEW l \in Loops, NEW e \in Ends, LinkStep(l, e) PROVE DeliveryInv'
  <1>1. UNCHANGED <<serverVars, connVars, memVars>>
    BY DEF LinkStep, c_after_connect_to_a_agent, c_after_connect_to_a_agent_fail,
           c_read_from_provide_agents_eof, reconnection_to_agent, c_read_from_provide_agents_error
  <1>2. \A f \in Ends : flight'[f] \subseteq flight[f]
    BY DEF LinkStep, c_after_connect_to_a_agent, c_after_connect_to_a_agent_fail, OnLink,
           c_read_from_provide_agents_eof, reconnection_to_agent, c_read_from_provide_agents_error,
           DInv, TypeInv, TypeOK
  <1> QED BY <1>1, <1>2, DeliveryFrame

\* A new connection gets a block that is nobody else's.
LEMMA AcceptDelivery ==
    ASSUME DInv, NEW l \in Loops, NEW c \in Conns, on_new_connection(l, c) PROVE DeliveryInv'
  <1> USE DEF serverVars, connVars, memVars
  <1> PICK a \in Blocks : /\ heap[a] = NULL
                          /\ heap' = [heap EXCEPT ![a] = c]
                          /\ data' = [data EXCEPT ![c] = a]
    BY DEF on_new_connection, init_http_req_t
  <1>1. BlocksOwned'
    BY NullAssumption DEF on_new_connection, init_http_req_t, DInv, TypeInv, TypeOK, DeliveryInv, BlocksOwned
  <1>2. IdsOfLoop'
    BY DEF on_new_connection, init_http_req_t, DInv, TypeInv, TypeOK, DeliveryInv, IdsOfLoop
  <1>3. RequestsOwned'
    BY DEF on_new_connection, init_http_req_t, DInv, TypeInv, TypeOK, DeliveryInv, RequestsOwned
  <1>4. SentOnce' /\ AnswerIsOwn'
    BY DEF on_new_connection, init_http_req_t, DInv, TypeInv, TypeOK, DeliveryInv, SentOnce, AnswerIsOwn
  <1> QED BY <1>1, <1>2, <1>3, <1>4 DEF on_new_connection, init_http_req_t, DInv, TypeInv, TypeOK, DeliveryInv

\* Connections that come and go without having asked: no answer is on its way.
LEMMA QuietDelivery ==
    ASSUME DInv, ClientsWait, NEW c \in Conns,
           \/ \E l \in Loops : on_new_connection_refused(l, c)
           \/ c_dummy_read_connection_data(c)
           \/ c_read_connection_data_close(c)
           \/ close_cb(c)
    PROVE  DeliveryInv'
  <1> USE DEF serverVars, connVars, memVars
  <1>1. /\ UNCHANGED <<serverVars, tcp_server, data, asked, answer, heapOK, flight>>
        /\ conn[c] # "waiting"
        /\ \E x \in {"refused", "absent", "closing"} : conn' = [conn EXCEPT ![c] = x]
    BY DEF on_new_connection_refused, c_dummy_read_connection_data, c_read_connection_data_close, close_cb
  <1>2. BlocksOwned'
    <2>1. CASE close_cb(c)
      BY <2>1, NullAssumption DEF close_cb, DInv, TypeInv, TypeOK, DeliveryInv, BlocksOwned
    <2>2. CASE ~close_cb(c)
      BY <2>2 DEF on_new_connection_refused, c_dummy_read_connection_data, c_read_connection_data_close,
                  DInv, TypeInv, TypeOK, DeliveryInv, BlocksOwned
    <2> QED BY <2>1, <2>2
  <1>3. IdsOfLoop' /\ SentOnce' /\ AnswerIsOwn'
    BY <1>1 DEF DInv, DeliveryInv, IdsOfLoop, SentOnce, AnswerIsOwn
  <1>4. RequestsOwned'
    <2>1. ASSUME NEW d \in Conns, conn[d] = "waiting" PROVE conn'[d] = "waiting"
      BY <1>1, <2>1 DEF DInv, TypeInv, TypeOK
    <2> QED BY <1>1, <2>1 DEF DInv, DeliveryInv, RequestsOwned
  <1> QED BY <1>1, <1>2, <1>3, <1>4 DEF DInv, TypeInv, TypeOK, DeliveryInv

\* A request takes a slot that no request in flight on its loop uses, because all
\* of them are younger than HASH_SLOT_NUM ids.
LEMMA RequestDelivery ==
    ASSUME DInv, Timely, NEW c \in Conns, c_read_connection_data(c) PROVE DeliveryInv'
  <1> DEFINE l == tcp_server[c]
             new == [loop |-> l, id |-> req_id[l]]
  <1>1. l \in Loops /\ req_id[l] \in Nat /\ EVENT_LOOP_NUM \in Nat /\ EVENT_LOOP_NUM > 0
    BY LoopsAssumption DEF DInv, TypeInv, TypeOK
  <1>2. /\ conn[c] = "idle" /\ InWindow(l)
        /\ req_id' = [req_id EXCEPT ![l] = req_id[l] + EVENT_LOOP_NUM]
        /\ asked' = [asked EXCEPT ![c] = req_id[l]]
        /\ answer' = [answer EXCEPT ![c] = NULL]
        /\ conn' = [conn EXCEPT ![c] = "waiting"]
        /\ UNCHANGED <<tcp_server, data, memVars>>
    BY DEF c_read_connection_data, NextReqId
  <1> PICK e \in Ends : send_to_provider_agent(e, l, data[c], req_id[l])
    BY DEF c_read_connection_data
  <1>3. http_req_dict' = [http_req_dict EXCEPT ![l][req_id[l] % HASH_SLOT_NUM] = data[c]]
    BY DEF send_to_provider_agent
  <1>4. \A f \in Ends : flight'[f] \subseteq flight[f] \cup {new} /\ (f # e => flight'[f] = flight[f])
    BY DEF send_to_provider_agent, DInv, TypeInv, TypeOK
  <1> HIDE DEF new
  <1>5. BlocksOwned' /\ AnswerIsOwn'
    BY <1>1, <1>2 DEF DInv, TypeInv, TypeOK, DeliveryInv, BlocksOwned, AnswerIsOwn, memVars
  <1>6. IdsOfLoop'
    <2>1. \A k \in Loops : req_id'[k] % EVENT_LOOP_NUM = k
      BY <1>1, <1>2, SameClass DEF DInv, TypeInv, TypeOK, DeliveryInv, IdsOfLoop
    <2>2. ASSUME NEW d \in Conns, asked'[d] # NULL
          PROVE  asked'[d] < req_id'[tcp_server'[d]] /\ asked'[d] % EVENT_LOOP_NUM = tcp_server'[d]
      <3>1. CASE d = c
        BY <1>1, <1>2, <3>1 DEF DInv, TypeInv, TypeOK, DeliveryInv, IdsOfLoop
      <3>2. CASE d # c
        <4>1. /\ asked'[d] = asked[d] /\ asked[d] \in Nat
              /\ tcp_server'[d] = tcp_server[d] /\ tcp_server[d] \in Loops
              /\ asked[d] < req_id[tcp_server[d]]
              /\ asked[d] % EVENT_LOOP_NUM = tcp_server[d]
          BY <1>2, <2>2, <3>2, IdIsNat DEF DInv, TypeInv, TypeOK, DeliveryInv, IdsOfLoop
        <4>2. req_id[tcp_server[d]] \in Nat /\ req_id'[tcp_server[d]] >= req_id[tcp_server[d]]
          BY <1>1, <1>2, <4>1 DEF DInv, TypeInv, TypeOK
        <4>3. req_id'[tcp_server[d]] \in Nat
          BY <1>1, <1>2, <4>1 DEF DInv, TypeInv, TypeOK
        <4> QED BY <4>1, <4>2, <4>3
      <3> QED BY <3>1, <3>2
    <2> QED BY <2>1, <2>2 DEF IdsOfLoop
  <1>7. RequestsOwned'
    <2> SUFFICES ASSUME NEW f \in Ends, NEW r \in flight'[f]
                 PROVE  /\ r.id < req_id'[r.loop]
                        /\ req_id'[r.loop] - EVENT_LOOP_NUM - r.id < HASH_SLOT_NUM
                        /\ \E d \in Conns :
                             /\ conn'[d] = "waiting" /\ tcp_server'[d] = r.loop /\ asked'[d] = r.id
                             /\ http_req_dict'[r.loop][r.id % HASH_SLOT_NUM] = data'[d]
      BY DEF RequestsOwned
    <2>1. CASE r = new
      <3>1. r.loop = l /\ r.id = req_id[l]
        BY <2>1 DEF new
      <3>2. req_id'[l] = req_id[l] + EVENT_LOOP_NUM
        BY <1>1, <1>2 DEF DInv, TypeInv, TypeOK
      <3>3. http_req_dict'[l][req_id[l] % HASH_SLOT_NUM] = data[c]
        BY <1>1, <1>3, SlotOfId DEF DInv, TypeInv, TypeOK
      <3>4. conn'[c] = "waiting" /\ tcp_server'[c] = l /\ asked'[c] = req_id[l] /\ data'[c] = data[c]
        BY <1>2 DEF DInv, TypeInv, TypeOK
      <3> QED BY <1>1, <3>1, <3>2, <3>3, <3>4, HashAssumption
    <2>2. CASE r # new
      <3>1. r \in flight[f] /\ r \in Requests
        BY <1>4, <2>2 DEF DInv, TypeInv, TypeOK
      <3>2. r.loop \in Loops /\ r.id \in Nat /\ req_id[r.loop] \in Nat
        BY <3>1, IdIsNat DEF Requests, DInv, TypeInv, TypeOK
      <3>3. /\ r.id < req_id[r.loop]
            /\ req_id[r.loop] - EVENT_LOOP_NUM - r.id < HASH_SLOT_NUM
        BY <3>1 DEF DInv, DeliveryInv, RequestsOwned
      <3> PICK d \in Conns :
            /\ conn[d] = "waiting" /\ tcp_server[d] = r.loop /\ asked[d] = r.id
            /\ http_req_dict[r.loop][r.id % HASH_SLOT_NUM] = data[d]
        BY <3>1 DEF DInv, DeliveryInv, RequestsOwned
      <3>4. conn'[d] = "waiting" /\ tcp_server'[d] = r.loop /\ asked'[d] = r.id /\ data'[d] = data[d]
        BY <1>2 DEF DInv, TypeInv, TypeOK
      <3>5. CASE r.loop = l
        <4>1. req_id[l] - r.id < HASH_SLOT_NUM
          BY <1>2, <3>1, <3>5 DEF InWindow, OnLink
        <4>2. r.id % HASH_SLOT_NUM # req_id[l] % HASH_SLOT_NUM
          BY <1>1, <3>2, <3>3, <3>5, <4>1, SlotsDistinct
        <4>3. http_req_dict'[r.loop][r.id % HASH_SLOT_NUM] = data[d]
          BY <1>1, <1>3, <3>2, <3>5, <4>2, SlotOfId DEF DInv, TypeInv, TypeOK
        <4>4. req_id'[r.loop] = req_id[l] + EVENT_LOOP_NUM
          BY <1>1, <1>2, <3>5 DEF DInv, TypeInv, TypeOK
        <4> QED BY <1>1, <3>2, <3>3, <3>4, <3>5, <4>1, <4>3, <4>4
      <3>6. CASE r.loop # l
        <4>1. req_id'[r.loop] = req_id[r.loop] /\ http_req_dict'[r.loop] = http_req_dict[r.loop]
          BY <1>1, <1>2, <1>3, <3>2, <3>6 DEF DInv, TypeInv, TypeOK
        <4> QED BY <3>3, <3>4, <4>1
      <3> QED BY <3>5, <3>6
    <2> QED BY <2>1, <2>2
  <1>8. SentOnce'
    <2>1. ASSUME NEW f \in Ends, new \in flight[f] PROVE FALSE
      BY <1>1, <2>1 DEF DInv, DeliveryInv, RequestsOwned, new
    <2> QED BY <1>4, <2>1 DEF DInv, DeliveryInv, SentOnce
  <1> QED BY <1>2, <1>5, <1>6, <1>7, <1>8 DEF DInv, TypeInv, TypeOK, DeliveryInv, memVars

\* A response frame is written to the connection that waits for it.
LEMMA AnswerDelivery ==
    ASSUME DInv, NEW e \in Ends, NEW r \in flight[e], c_read_from_provide_agents(e, r)
    PROVE  /\ DeliveryInv'
           /\ \E c \in Conns : /\ conn[c] = "waiting"
                               /\ conn' = [conn EXCEPT ![c] = "idle"]
                               /\ answer' = [answer EXCEPT ![c] = asked[c]]
  <1> DEFINE a == http_req_dict[r.loop][r.id % HASH_SLOT_NUM]
  <1>1. PICK c \in Conns : conn[c] = "waiting" /\ tcp_server[c] = r.loop /\ asked[c] = r.id /\ a = data[c]
    BY DEF DInv, DeliveryInv, RequestsOwned
  <1>2. a \in Blocks /\ heap[a] = c /\ a # NULL /\ c # NULL
    BY <1>1, NullAssumption DEF DInv, DeliveryInv, BlocksOwned
  <1>3. AnswerBlock(e, r, a)
    BY DEF c_read_from_provide_agents
  <1> HIDE DEF a
  <1>4. WriteAnswer(c, r.id)
    BY <1>2, <1>3 DEF AnswerBlock
  <1>5. /\ conn' = [conn EXCEPT ![c] = "idle"]
        /\ answer' = [answer EXCEPT ![c] = asked[c]]
        /\ heapOK' = heapOK
    BY <1>1, <1>4 DEF WriteAnswer
  <1>6. /\ UNCHANGED <<req_id, http_req_dict, tcp_server, data, asked, heap>>
        /\ flight' = [flight EXCEPT ![e] = @ \ {r}]
    BY DEF c_read_from_provide_agents, serverVars
  <1>7. \A f \in Ends : flight'[f] \subseteq flight[f]
    BY <1>6 DEF DInv, TypeInv, TypeOK
  <1>8. BlocksOwned' /\ IdsOfLoop'
    BY <1>1, <1>5, <1>6 DEF DInv, TypeInv, TypeOK, DeliveryInv, BlocksOwned, IdsOfLoop
  <1>9. SentOnce' /\ AnswerIsOwn'
    BY <1>5, <1>6, <1>7 DEF DInv, TypeInv, TypeOK, DeliveryInv, SentOnce, AnswerIsOwn
  <1>10. RequestsOwned'
    <2> SUFFICES ASSUME NEW f \in Ends, NEW x \in flight'[f]
                 PROVE  /\ x.id < req_id[x.loop]
                        /\ req_id[x.loop] - EVENT_LOOP_NUM - x.id < HASH_SLOT_NUM
                        /\ \E d \in Conns :
                             /\ conn'[d] = "waiting" /\ tcp_server[d] = x.loop /\ asked[d] = x.id
                             /\ http_req_dict[x.loop][x.id % HASH_SLOT_NUM] = data[d]
      BY <1>6 DEF RequestsOwned
    <2>1. x \in flight[f] /\ x \in Requests /\ r \in Requests
      BY <1>7 DEF DInv, TypeInv, TypeOK
    <2>2. x # r
      <3>1. CASE f = e
        BY <1>6, <3>1 DEF DInv, TypeInv, TypeOK
      <3>2. CASE f # e
        BY <2>1, <3>2 DEF DInv, DeliveryInv, SentOnce
      <3> QED BY <3>1, <3>2
    <2>3. PICK d \in Conns : /\ conn[d] = "waiting" /\ tcp_server[d] = x.loop /\ asked[d] = x.id
                             /\ http_req_dict[x.loop][x.id % HASH_SLOT_NUM] = data[d]
      BY <2>1 DEF DInv, DeliveryInv, RequestsOwned
    <2>4. d # c
      BY <1>1, <2>1, <2>2, <2>3 DEF Requests
    <2>5. conn'[d] = "waiting"
      BY <1>5, <2>3, <2>4 DEF DInv, TypeInv, TypeOK
    <2>6. x.id < req_id[x.loop] /\ req_id[x.loop] - EVENT_LOOP_NUM - x.id < HASH_SLOT_NUM
      BY <2>1 DEF DInv, DeliveryInv, RequestsOwned
    <2> QED BY <2>3, <2>5, <2>6
  <1>11. \A d \in Conns : conn'[d] = "waiting" => answer'[d] = NULL
    BY <1>5 DEF DInv, TypeInv, TypeOK, DeliveryInv
  <1> QED BY <1>1, <1>5, <1>8, <1>9, <1>10, <1>11 DEF DInv, DeliveryInv

LEMMA DInvStep == ASSUME ClientsWait, Timely PROVE DInv /\ [Next]_vars => DInv'
  <1> SUFFICES ASSUME DInv, [Next]_vars PROVE DeliveryInv'
    BY TypeInvStep DEF DInv
  <1>1. ASSUME NEW l \in Loops, NEW e \in Ends, LinkStep(l, e) PROVE DeliveryInv'
    BY <1>1, LinkDelivery
  <1>2. ASSUME NEW c \in Conns, ConnStep(c) PROVE DeliveryInv'
    BY <1>2, AcceptDelivery, QuietDelivery, RequestDelivery DEF ConnStep
  <1>3. ASSUME NEW e \in Ends, NEW r \in flight[e], c_read_from_provide_agents(e, r) PROVE DeliveryInv'
    BY <1>3, AnswerDelivery
  <1>4. ASSUME NEW e \in Ends, NEW r \in flight[e], provider_drops(e, r) PROVE DeliveryInv'
    <2>1. UNCHANGED <<serverVars, connVars, memVars>> /\ \A f \in Ends : flight'[f] \subseteq flight[f]
      BY <1>4 DEF provider_drops, DInv, TypeInv, TypeOK
    <2> QED BY <2>1, DeliveryFrame
  <1>5. CASE WallClock
    BY <1>5, DeliveryFrame DEF WallClock
  <1>6. CASE UNCHANGED vars
    BY <1>6, DeliveryFrame DEF vars
  <1> QED BY <1>1, <1>2, <1>3, <1>4, <1>5, <1>6 DEF Next

\* For any number of loops, connections, endpoints and table slots: if clients do
\* not give up and no answer is HASH_SLOT_NUM ids late, every response frame finds
\* the connection that asked, even while links break and requests get lost.
THEOREM DeliveryHolds == ASSUME ClientsWait, Timely PROVE Spec => []DeliveryInv
  <1>1. DInv => DeliveryInv
    BY DEF DInv
  <1>2. Init => DInv
    BY TypeInvInit, DeliveryInit DEF DInv
  <1> QED BY <1>1, <1>2, DInvStep, PTL DEF Spec

\* ... so a client only receives the answer to its own last request.
THEOREM AnswersAreOwn == ASSUME ClientsWait, Timely PROVE Spec => []AnswerIsOwn
  <1>1. DeliveryInv => AnswerIsOwn
    BY DEF DeliveryInv
  <1> QED BY <1>1, DeliveryHolds, PTL
------------------------------------------------------------------------------
(* The agent implements the request-reply service *)

\* A new request is none that any connection asked last: ids of other loops are in
\* other residue classes, ids of this loop are older.
LEMMA FreshQuestion ==
    ASSUME DInv, NEW l \in Loops, NEW d \in Conns, req_id[l] \in Ids PROVE asked[d] # req_id[l]
  <1> SUFFICES ASSUME asked[d] = req_id[l] PROVE FALSE
    OBVIOUS
  <1>1. asked[d] # NULL
    BY NullAssumption
  <1>2. asked[d] < req_id[tcp_server[d]] /\ tcp_server[d] = l
    BY <1>1 DEF DInv, DeliveryInv, IdsOfLoop
  <1> QED BY <1>2, IdIsNat

LEMMA PhaseFrame == ASSUME UNCHANGED connVars PROVE UNCHANGED Clients!vars
  BY DEF connVars, Clients!vars, Phase

LEMMA ConnRefines ==
    ASSUME DInv, ClientsWait, NEW c \in Conns, ConnStep(c) PROVE [Clients!Next]_(Clients!vars)
  <1> USE DEF connVars
  <1>1. ASSUME NEW l \in Loops, on_new_connection(l, c) PROVE Clients!Open(c)
    BY <1>1 DEF on_new_connection, init_http_req_t, Clients!Open, Phase, DInv, TypeInv, TypeOK
  <1>2. ASSUME NEW l \in Loops, on_new_connection_refused(l, c) PROVE UNCHANGED Clients!vars
    BY <1>2 DEF on_new_connection_refused, Clients!vars, Phase, DInv, TypeInv, TypeOK
  <1>3. CASE c_dummy_read_connection_data(c)
    BY <1>3 DEF c_dummy_read_connection_data, Clients!vars, Phase, DInv, TypeInv, TypeOK
  <1>4. ASSUME c_read_connection_data(c) PROVE \E q \in Ids : Clients!Ask(c, q)
    <2> DEFINE l == tcp_server[c]
    <2>1. l \in Loops /\ req_id[l] \in Ids
      BY <1>4 DEF DInv, TypeInv, TypeOK, c_read_connection_data, Ids
    <2>2. \A d \in Conns : asked[d] # req_id[l]
      BY <2>1, FreshQuestion
    <2>3. Clients!Ask(c, req_id[l])
      BY <1>4, <2>2 DEF c_read_connection_data, Clients!Ask, Phase, DInv, TypeInv, TypeOK
    <2> QED BY <2>1, <2>3
  <1>5. ASSUME c_read_connection_data_close(c) PROVE Clients!Close(c)
    BY <1>5 DEF c_read_connection_data_close, Clients!Close, Phase, DInv, TypeInv, TypeOK
  <1>6. CASE close_cb(c)
    BY <1>6 DEF close_cb, Clients!vars, Phase, DInv, TypeInv, TypeOK
  <1> QED BY <1>1, <1>2, <1>3, <1>4, <1>5, <1>6 DEF ConnStep, Clients!Next

LEMMA AnswerRefines ==
    ASSUME DInv, NEW e \in Ends, NEW r \in flight[e], c_read_from_provide_agents(e, r)
    PROVE  Clients!Next
  <1>1. PICK c \in Conns : /\ conn[c] = "waiting"
                          /\ conn' = [conn EXCEPT ![c] = "idle"]
                          /\ answer' = [answer EXCEPT ![c] = asked[c]]
    BY AnswerDelivery
  <1>2. Clients!Reply(c)
    BY <1>1 DEF c_read_from_provide_agents, Clients!Reply, Phase, DInv, TypeInv, TypeOK
  <1> QED BY <1>2 DEF Clients!Next

LEMMA StepRefines ==
    ASSUME ClientsWait, DInv, [Next]_vars PROVE [Clients!Next]_(Clients!vars)
  <1>1. ASSUME NEW l \in Loops, NEW e \in Ends, LinkStep(l, e) PROVE UNCHANGED connVars
    BY <1>1 DEF LinkStep, c_after_connect_to_a_agent, c_after_connect_to_a_agent_fail,
                c_read_from_provide_agents_eof, reconnection_to_agent, c_read_from_provide_agents_error
  <1>2. ASSUME NEW e \in Ends, NEW r \in flight[e], provider_drops(e, r) PROVE UNCHANGED connVars
    BY <1>2 DEF provider_drops
  <1>3. WallClock \/ UNCHANGED vars => UNCHANGED connVars
    BY DEF WallClock, vars
  <1> QED BY <1>1, <1>2, <1>3, PhaseFrame, ConnRefines, AnswerRefines DEF Next

\* Under the same two assumptions the agent is the request-reply service: every
\* step opens or closes a connection, asks a fresh question, answers a waiting
\* connection with its own answer, or is invisible to the clients.
THEOREM ImplementsRequestReply == ASSUME ClientsWait, Timely PROVE Spec => RequestReplyRefined
  <1>1. Init => Clients!Init
    BY DEF Init, init_tcp_server_t, start_work_event_loop, Clients!Init, Phase
  <1>2. Init => DInv
    BY TypeInvInit, DeliveryInit DEF DInv
  <1>3. DInv /\ [Next]_vars => [Clients!Next]_(Clients!vars)
    BY StepRefines
  <1> QED BY <1>1, <1>2, <1>3, DInvStep, PTL DEF Spec, RequestReplyRefined, Clients!Spec
------------------------------------------------------------------------------
(* Admission *)

AInv == TypeInv /\ HeapLive /\ AdmissionControlled

LEMMA AdmittedFinite == IsFiniteSet(Admitted) /\ Cardinality(Admitted) \in Nat
  BY ConnsAssumption, FS_Subset, FS_CardinalityType DEF Admitted

\* Steps that leave memory and counter alone and keep who is admitted.
LEMMA AdmissionFrame ==
    ASSUME AInv, UNCHANGED <<heap, data, global_conn_remain_count>>, Admitted' = Admitted,
           \A c \in Conns : conn[c] \in {"idle", "waiting", "closing"} =>
                            conn'[c] \in {"idle", "waiting", "closing"}
    PROVE  HeapLive' /\ AdmissionControlled'
  BY DEF AInv, TypeInv, TypeOK, HeapLive, AdmissionControlled

\* Admitting one more connection, below the limit.
LEMMA AcceptAdmission ==
    ASSUME AInv, NEW l \in Loops, NEW c \in Conns, on_new_connection(l, c)
    PROVE  HeapLive' /\ AdmissionControlled'
  <1>1. Admitted' = Admitted \cup {c} /\ c \notin Admitted
    BY DEF on_new_connection, init_http_req_t, Admitted, AInv, TypeInv, TypeOK
  <1>2. Cardinality(Admitted') = Cardinality(Admitted) + 1
    BY <1>1, AdmittedFinite, FS_AddElement
  <1>3. HeapLive'
    BY NullAssumption DEF on_new_connection, init_http_req_t, AInv, TypeInv, TypeOK, HeapLive
  <1>4. AdmissionControlled'
    BY <1>2, AdmittedFinite, ConnLimitAssumption
       DEF on_new_connection, init_http_req_t, AInv, AdmissionControlled, conn_limit
  <1> QED BY <1>3, <1>4

\* A connection that closes gives its place back at once, its block later.
LEMMA CloseAdmission ==
    ASSUME AInv, NEW c \in Conns, c_read_connection_data_close(c)
    PROVE  HeapLive' /\ AdmissionControlled'
  <1>1. Admitted' = Admitted \ {c} /\ c \in Admitted
    BY DEF c_read_connection_data_close, Admitted, AInv, TypeInv, TypeOK
  <1>2. Cardinality(Admitted') = Cardinality(Admitted) - 1
    BY <1>1, AdmittedFinite, FS_RemoveElement
  <1>3. HeapLive'
    BY DEF c_read_connection_data_close, AInv, TypeInv, TypeOK, HeapLive, memVars
  <1>4. AdmissionControlled'
    BY <1>2, AdmittedFinite, ConnLimitAssumption DEF c_read_connection_data_close, AInv, AdmissionControlled
  <1> QED BY <1>3, <1>4

LEMMA ConnAdmission ==
    ASSUME AInv, NEW c \in Conns, ConnStep(c) PROVE HeapLive' /\ AdmissionControlled'
  <1> USE DEF connVars, memVars, procVars
  <1>1. ASSUME NEW l \in Loops, on_new_connection_refused(l, c) PROVE HeapLive' /\ AdmissionControlled'
    BY <1>1, AdmissionFrame DEF on_new_connection_refused, Admitted, AInv, TypeInv, TypeOK
  <1>2. CASE c_dummy_read_connection_data(c)
    BY <1>2, AdmissionFrame DEF c_dummy_read_connection_data, Admitted, AInv, TypeInv, TypeOK
  <1>3. CASE c_read_connection_data(c)
    BY <1>3, AdmissionFrame DEF c_read_connection_data, Admitted, AInv, TypeInv, TypeOK
  <1>4. CASE close_cb(c)
    <2>1. Admitted' = Admitted
      BY <1>4 DEF close_cb, Admitted, AInv, TypeInv, TypeOK
    <2>2. HeapLive'
      BY <1>4 DEF close_cb, AInv, TypeInv, TypeOK, HeapLive
    <2> QED BY <1>4, <2>1, <2>2 DEF close_cb, AInv, AdmissionControlled
  <1> QED BY <1>1, <1>2, <1>3, <1>4, AcceptAdmission, CloseAdmission DEF ConnStep

\* An answer, even one that goes astray, admits nobody and sends nobody away.
LEMMA AnswerAdmission ==
    ASSUME AInv, NEW e \in Ends, NEW r \in flight[e], c_read_from_provide_agents(e, r)
    PROVE  HeapLive' /\ AdmissionControlled'
  <1> DEFINE a == http_req_dict[r.loop][r.id % HASH_SLOT_NUM]
  <1>1. a \in Blocks \cup {NULL}
    BY SlotOfId, IdIsNat DEF AInv, TypeInv, TypeOK, Requests
  <1>2. AnswerBlock(e, r, a) /\ UNCHANGED <<heap, data, global_conn_remain_count>>
    BY DEF c_read_from_provide_agents
  <1> HIDE DEF a
  <1>3. \/ conn' = conn
        \/ \E c \in Conns : conn[c] \in {"idle", "waiting"} /\ conn' = [conn EXCEPT ![c] = "idle"]
    <2>1. CASE a = NULL \/ heap[a] = NULL
      BY <1>2, <2>1 DEF AnswerBlock, NobodyToAnswer, WriteToFreed
    <2>2. CASE a # NULL /\ heap[a] # NULL
      <3>1. heap[a] \in Conns /\ conn[heap[a]] \in {"idle", "waiting", "closing"}
        BY <1>1, <2>2 DEF AInv, TypeInv, TypeOK, HeapLive
      <3> QED BY <1>2, <2>2, <3>1 DEF AnswerBlock, WriteAnswer
    <2> QED BY <2>1, <2>2
  <1>4. Admitted' = Admitted
    BY <1>3 DEF Admitted, AInv, TypeInv, TypeOK
  <1>5. \A c \in Conns : conn[c] \in {"idle", "waiting", "closing"} =>
                         conn'[c] \in {"idle", "waiting", "closing"}
    BY <1>3 DEF AInv, TypeInv, TypeOK
  <1> QED BY <1>2, <1>4, <1>5, AdmissionFrame

LEMMA AInvStep == AInv /\ [Next]_vars => AInv'
  <1> SUFFICES ASSUME AInv, [Next]_vars PROVE HeapLive' /\ AdmissionControlled'
    BY TypeInvStep DEF AInv
  <1> USE DEF connVars, memVars, procVars
  <1>1. ASSUME NEW l \in Loops, NEW e \in Ends, LinkStep(l, e) PROVE HeapLive' /\ AdmissionControlled'
    <2>1. UNCHANGED <<conn, heap, data, global_conn_remain_count>>
      BY <1>1 DEF LinkStep, c_after_connect_to_a_agent, c_after_connect_to_a_agent_fail,
                  c_read_from_provide_agents_eof, reconnection_to_agent, c_read_from_provide_agents_error
    <2> QED BY <2>1, AdmissionFrame DEF Admitted
  <1>2. ASSUME NEW e \in Ends, NEW r \in flight[e], provider_drops(e, r) PROVE HeapLive' /\ AdmissionControlled'
    BY <1>2, AdmissionFrame DEF provider_drops, Admitted
  <1>3. CASE WallClock
    BY <1>3, AdmissionFrame DEF WallClock, Admitted
  <1>4. CASE UNCHANGED vars
    BY <1>4, AdmissionFrame DEF vars, Admitted
  <1> QED BY <1>1, <1>2, <1>3, <1>4, ConnAdmission, AnswerAdmission DEF Next

LEMMA AInvInit == Init => AInv
  <1> SUFFICES ASSUME Init PROVE HeapLive /\ AdmissionControlled
    BY TypeInvInit DEF AInv
  <1>1. Admitted = {}
    BY DEF Init, Admitted
  <1> QED BY <1>1, FS_EmptySet, ConnLimitAssumption DEF Init, HeapLive, AdmissionControlled

\* In every environment, with any number of loops racing for the last place and a
\* wall clock that is set back, the shared counter is exact and no more than
\* MAXIMUM_CONN_COUNT connections are admitted.
THEOREM AdmissionHolds == Spec => []AdmissionControlled
  <1>1. AInv => AdmissionControlled
    BY DEF AInv
  <1> QED BY <1>1, AInvInit, AInvStep, PTL DEF Spec
------------------------------------------------------------------------------
(* Clients that wait can be answered *)

\* The request a client waits for has been drawn.
WaitersAsked ==
    \A c \in Conns : conn[c] = "waiting" => asked[c] \in Ids /\ asked[c] < req_id[tcp_server[c]]

WInv == AInv /\ BlocksOwned /\ WaitersAsked /\ WaitersFound

\* Steps that send no request: whoever waits after them waited before.
LEMMA WaitersKept ==
    ASSUME WInv, BlocksOwned', UNCHANGED serverVars,
           \A d \in Conns : conn'[d] = "waiting" =>
               /\ conn[d] = "waiting" /\ asked'[d] = asked[d]
               /\ tcp_server'[d] = tcp_server[d] /\ data'[d] = data[d]
    PROVE  WaitersAsked' /\ WaitersFound'
  <1> USE DEF serverVars
  <1>1. WaitersAsked'
    BY DEF WInv, WaitersAsked
  <1>2. WaitersFound'
    <2> SUFFICES ASSUME NEW d \in Conns, conn'[d] = "waiting",
                        req_id'[tcp_server'[d]] - EVENT_LOOP_NUM - asked'[d] < HASH_SLOT_NUM
                 PROVE  http_req_dict'[tcp_server'[d]][asked'[d] % HASH_SLOT_NUM] = data'[d] /\ heap'[data'[d]] = d
      BY DEF WaitersFound
    <2>1. heap'[data'[d]] = d
      BY DEF BlocksOwned
    <2>2. http_req_dict[tcp_server[d]][asked[d] % HASH_SLOT_NUM] = data[d]
      BY DEF WInv, WaitersFound
    <2> QED BY <2>1, <2>2
  <1> QED BY <1>1, <1>2

\* A request takes the slot of the request HASH_SLOT_NUM ids back and of no younger
\* one: who waits for a younger one is still found.
LEMMA RequestFound ==
    ASSUME WInv, NEW c \in Conns, c_read_connection_data(c)
    PROVE  BlocksOwned' /\ WaitersAsked' /\ WaitersFound'
  <1> DEFINE l == tcp_server[c]
  <1>1. l \in Loops /\ req_id[l] \in Nat /\ req_id[l] \in Ids /\ EVENT_LOOP_NUM \in Nat /\ EVENT_LOOP_NUM > 0
    BY LoopsAssumption, BoundAssumption DEF WInv, AInv, TypeInv, TypeOK, c_read_connection_data, Ids
  <1>2. /\ conn[c] = "idle"
        /\ req_id' = [req_id EXCEPT ![l] = req_id[l] + EVENT_LOOP_NUM]
        /\ asked' = [asked EXCEPT ![c] = req_id[l]]
        /\ conn' = [conn EXCEPT ![c] = "waiting"]
        /\ UNCHANGED <<tcp_server, data, heap>>
    BY DEF c_read_connection_data, NextReqId, memVars
  <1>3. http_req_dict' = [http_req_dict EXCEPT ![l][req_id[l] % HASH_SLOT_NUM] = data[c]]
    BY DEF c_read_connection_data, send_to_provider_agent
  <1>4. BlocksOwned'
    BY <1>2 DEF WInv, AInv, TypeInv, TypeOK, BlocksOwned
  <1>5. /\ asked'[c] = req_id[l] /\ req_id'[l] = req_id[l] + EVENT_LOOP_NUM
        /\ http_req_dict'[l][req_id[l] % HASH_SLOT_NUM] = data[c]
    BY <1>1, <1>2, <1>3, SlotOfId DEF WInv, AInv, TypeInv, TypeOK
  <1>6. ASSUME NEW d \in Conns, d # c, conn'[d] = "waiting"
        PROVE  /\ conn[d] = "waiting" /\ asked'[d] = asked[d]
               /\ tcp_server[d] \in Loops /\ asked[d] \in Ids /\ asked[d] \in Nat
               /\ req_id[tcp_server[d]] \in Nat /\ asked[d] < req_id[tcp_server[d]]
    BY <1>2, <1>6, IdIsNat DEF WInv, AInv, TypeInv, TypeOK, WaitersAsked
  <1>7. WaitersAsked'
    <2> SUFFICES ASSUME NEW d \in Conns, conn'[d] = "waiting"
                 PROVE  asked'[d] \in Ids /\ asked'[d] < req_id'[tcp_server'[d]]
      BY DEF WaitersAsked
    <2>1. CASE d = c
      BY <1>1, <1>2, <1>5, <2>1
    <2>2. CASE d # c
      <3>1. req_id'[tcp_server[d]] \in {req_id[tcp_server[d]], req_id[tcp_server[d]] + EVENT_LOOP_NUM}
        BY <1>1, <1>2, <1>6, <2>2 DEF WInv, AInv, TypeInv, TypeOK
      <3> QED BY <1>1, <1>2, <1>6, <2>2, <3>1
    <2> QED BY <2>1, <2>2
  <1>8. WaitersFound'
    <2> SUFFICES ASSUME NEW d \in Conns, conn'[d] = "waiting",
                        req_id'[tcp_server'[d]] - EVENT_LOOP_NUM - asked'[d] < HASH_SLOT_NUM
                 PROVE  http_req_dict'[tcp_server'[d]][asked'[d] % HASH_SLOT_NUM] = data'[d] /\ heap'[data'[d]] = d
      BY DEF WaitersFound
    <2>1. heap'[data'[d]] = d
      BY <1>4 DEF BlocksOwned
    <2>2. CASE d = c
      BY <1>2, <1>5, <2>1, <2>2
    <2>3. CASE d # c /\ tcp_server[d] = l
      <3>1. req_id[l] - asked[d] < HASH_SLOT_NUM
        BY <1>1, <1>2, <1>5, <1>6, <2>3
      <3>2. http_req_dict[l][asked[d] % HASH_SLOT_NUM] = data[d]
        BY <1>1, <1>6, <2>3, <3>1, HashAssumption DEF WInv, WaitersFound
      <3>3. asked[d] % HASH_SLOT_NUM # req_id[l] % HASH_SLOT_NUM
        BY <1>1, <1>6, <2>3, <3>1, SlotsDistinct
      <3>4. http_req_dict'[l][asked[d] % HASH_SLOT_NUM] = data[d]
        BY <1>1, <1>3, <1>6, <2>3, <3>2, <3>3, SlotOfId DEF WInv, AInv, TypeInv, TypeOK
      <3> QED BY <1>2, <1>6, <2>1, <2>3, <3>4
    <2>4. CASE d # c /\ tcp_server[d] # l
      <3>1. req_id'[tcp_server[d]] = req_id[tcp_server[d]] /\ http_req_dict'[tcp_server[d]] = http_req_dict[tcp_server[d]]
        BY <1>1, <1>2, <1>3, <1>6, <2>4 DEF WInv, AInv, TypeInv, TypeOK
      <3>2. http_req_dict[tcp_server[d]][asked[d] % HASH_SLOT_NUM] = data[d]
        BY <1>2, <1>6, <2>4, <3>1 DEF WInv, WaitersFound
      <3> QED BY <1>2, <1>6, <2>1, <2>4, <3>1, <3>2
    <2> QED BY <2>2, <2>3, <2>4
  <1> QED BY <1>4, <1>7, <1>8

\* Connections come and go, and nobody starts to wait.
LEMMA ConnFound ==
    ASSUME WInv, NEW c \in Conns, ConnStep(c), ~c_read_connection_data(c)
    PROVE  BlocksOwned' /\ WaitersAsked' /\ WaitersFound'
  <1> USE DEF connVars, memVars, serverVars, WInv, AInv, TypeInv, TypeOK
  <1>1. ASSUME NEW l \in Loops, on_new_connection(l, c)
        PROVE  BlocksOwned' /\ WaitersAsked' /\ WaitersFound'
    <2>1. PICK a \in Blocks : /\ heap[a] = NULL
                              /\ heap' = [heap EXCEPT ![a] = c]
                              /\ data' = [data EXCEPT ![c] = a]
      BY <1>1 DEF on_new_connection, init_http_req_t
    <2>2. BlocksOwned'
      BY <1>1, <2>1, NullAssumption DEF on_new_connection, init_http_req_t, BlocksOwned
    <2>3. /\ conn' = [conn EXCEPT ![c] = "idle"] /\ asked' = [asked EXCEPT ![c] = NULL]
          /\ tcp_server' = [tcp_server EXCEPT ![c] = l] /\ UNCHANGED serverVars
      BY <1>1 DEF on_new_connection, init_http_req_t
    <2> QED BY <2>1, <2>2, <2>3, WaitersKept
  <1>2. CASE ~\E l \in Loops : on_new_connection(l, c)
    <2>1. /\ UNCHANGED <<serverVars, tcp_server, data, asked>>
          /\ \E x \in {"refused", "absent", "closing"} : conn' = [conn EXCEPT ![c] = x]
      BY <1>2 DEF ConnStep, on_new_connection_refused, c_dummy_read_connection_data, c_read_connection_data_close, close_cb
    <2>2. BlocksOwned'
      <3>1. CASE close_cb(c)
        BY <3>1, NullAssumption DEF close_cb, BlocksOwned
      <3>2. CASE ~close_cb(c)
        BY <1>2, <3>2 DEF ConnStep, on_new_connection_refused, c_dummy_read_connection_data,
                          c_read_connection_data_close, BlocksOwned
      <3> QED BY <3>1, <3>2
    <2> QED BY <2>1, <2>2, WaitersKept
  <1> QED BY <1>1, <1>2

\* An answer, even one that goes astray, ends somebody's waiting and starts nobody's.
LEMMA AnswerFound ==
    ASSUME WInv, NEW e \in Ends, NEW r \in flight[e], c_read_from_provide_agents(e, r)
    PROVE  BlocksOwned' /\ WaitersAsked' /\ WaitersFound'
  <1>1. /\ UNCHANGED <<serverVars, tcp_server, data, asked, heap>>
        /\ AnswerBlock(e, r, http_req_dict[r.loop][r.id % HASH_SLOT_NUM])
    BY DEF c_read_from_provide_agents
  <1>2. http_req_dict[r.loop][r.id % HASH_SLOT_NUM] \in Blocks \cup {NULL}
    BY SlotOfId, IdIsNat DEF WInv, AInv, TypeInv, TypeOK, Requests
  <1>3. \/ conn' = conn
        \/ \E c \in Conns : conn[c] \in {"idle", "waiting"} /\ conn' = [conn EXCEPT ![c] = "idle"]
    BY <1>1, <1>2 DEF AnswerBlock, NobodyToAnswer, WriteToFreed, WriteAnswer, WInv, AInv, TypeInv, TypeOK, HeapLive
  <1>4. BlocksOwned'
    BY <1>1, <1>3 DEF WInv, AInv, TypeInv, TypeOK, BlocksOwned
  <1>5. \A d \in Conns : conn'[d] = "waiting" => conn[d] = "waiting"
    BY <1>3 DEF WInv, AInv, TypeInv, TypeOK
  <1> QED BY <1>1, <1>4, <1>5, WaitersKept

LEMMA WInvStep == WInv /\ [Next]_vars => WInv'
  <1> SUFFICES ASSUME WInv, [Next]_vars PROVE BlocksOwned' /\ WaitersAsked' /\ WaitersFound'
    BY AInvStep DEF WInv
  <1>0. UNCHANGED <<serverVars, connVars, memVars>> => BlocksOwned' /\ WaitersAsked' /\ WaitersFound'
    <2> SUFFICES ASSUME UNCHANGED <<serverVars, connVars, memVars>> PROVE BlocksOwned' /\ WaitersAsked' /\ WaitersFound'
      OBVIOUS
    <2>1. BlocksOwned'
      BY DEF WInv, BlocksOwned, connVars, memVars
    <2> QED BY <2>1, WaitersKept DEF connVars
  <1>1. ASSUME NEW l \in Loops, NEW e \in Ends, LinkStep(l, e) PROVE UNCHANGED <<serverVars, connVars, memVars>>
    BY <1>1 DEF LinkStep, c_after_connect_to_a_agent, c_after_connect_to_a_agent_fail,
                c_read_from_provide_agents_eof, reconnection_to_agent, c_read_from_provide_agents_error
  <1>2. ASSUME NEW e \in Ends, NEW r \in flight[e], provider_drops(e, r) PROVE UNCHANGED <<serverVars, connVars, memVars>>
    BY <1>2 DEF provider_drops
  <1>3. WallClock \/ UNCHANGED vars => UNCHANGED <<serverVars, connVars, memVars>>
    BY DEF WallClock, vars
  <1> QED BY <1>0, <1>1, <1>2, <1>3, RequestFound, ConnFound, AnswerFound DEF Next

\* In every environment, clients that hang up with their request out included: who
\* waits is found through the table until HASH_SLOT_NUM further ids have been drawn,
\* and found in memory that is its own.  The dangling pointers of those who left are
\* overwritten or lead to blocks of others; they never displace anybody.
THEOREM WaitersAlwaysFound == Spec => []WaitersFound
  <1>1. WInv => WaitersFound
    BY DEF WInv
  <1>2. Init => WInv
    <2> SUFFICES ASSUME Init PROVE BlocksOwned /\ WaitersAsked /\ WaitersFound
      BY AInvInit DEF WInv
    <2> QED BY DEF Init, BlocksOwned, WaitersAsked, WaitersFound
  <1> QED BY <1>1, <1>2, WInvStep, PTL DEF Spec
------------------------------------------------------------------------------
(* The balancer's counters *)

\* Without faults no link is ever closing, and ids in flight have been handed out.
RInv ==
    /\ TypeInv
    /\ \A l \in Loops, e \in Ends : link[l][e] # "closing"
    /\ \A e \in Ends : IsFiniteSet(flight[e]) /\ \A r \in flight[e] : r.id < req_id[r.loop]
    /\ RemainIsInFlight

\* A request raises the counter of the endpoint it is sent to by one.
LEMMA RequestCounts ==
    ASSUME RInv, NEW c \in Conns, c_read_connection_data(c) PROVE RInv'
  <1> DEFINE l == tcp_server[c]
             new == [loop |-> l, id |-> req_id[l]]
  <1>1. l \in Loops /\ req_id[l] \in Nat /\ EVENT_LOOP_NUM \in Nat
    BY LoopsAssumption DEF RInv, TypeInv, TypeOK
  <1>2. PICK e \in Ends : /\ remain' = [remain EXCEPT ![e] = @ + 1]
                          /\ send_to_provider_agent(e, l, data[c], req_id[l])
    BY DEF c_read_connection_data, select_endpoint_time_based
  <1>3. flight' = [flight EXCEPT ![e] = @ \cup {new}]
    BY <1>1, <1>2 DEF send_to_provider_agent, RInv
  <1>4. new \notin flight[e]
    BY <1>1 DEF RInv
  <1>5. IsFiniteSet(flight[e] \cup {new}) /\ Cardinality(flight[e] \cup {new}) = Cardinality(flight[e]) + 1
    BY <1>4, FS_AddElement DEF RInv
  <1>6. req_id' = [req_id EXCEPT ![l] = @ + EVENT_LOOP_NUM] /\ UNCHANGED link
    BY DEF c_read_connection_data, NextReqId, linkVars
  <1>7. \A k \in Loops : req_id[k] \in Nat /\ req_id'[k] \in Nat /\ req_id[k] <= req_id'[k]
    BY <1>1, <1>6 DEF RInv, TypeInv, TypeOK
  <1>8. ASSUME NEW f \in Ends, NEW r \in flight'[f] PROVE r.id < req_id'[r.loop]
    <2>1. CASE r = new
      BY <1>1, <1>6, <2>1, LoopsAssumption DEF RInv, TypeInv, TypeOK
    <2>2. CASE r # new
      <3>1. r \in flight[f] /\ r \in Requests
        BY <1>3, <2>2 DEF RInv, TypeInv, TypeOK
      <3>2. r.loop \in Loops /\ r.id \in Nat /\ r.id < req_id[r.loop]
        BY <3>1, IdIsNat DEF RInv, Requests
      <3> QED BY <1>7, <3>2
    <2> QED BY <2>1, <2>2
  <1>9. \A f \in Ends : IsFiniteSet(flight'[f])
    BY <1>3, <1>5 DEF RInv, TypeInv, TypeOK
  <1>10. RemainIsInFlight'
    BY <1>2, <1>3, <1>5 DEF RInv, TypeInv, TypeOK, LBTypeOK, RemainIsInFlight
  <1>11. TypeInv'
    BY RequestTypes DEF RInv
  <1> QED BY <1>6, <1>8, <1>9, <1>10, <1>11 DEF RInv

\* A response frame lowers it by one, whoever the frame is for.
LEMMA AnswerCounts ==
    ASSUME RInv, NEW e \in Ends, NEW r \in flight[e], c_read_from_provide_agents(e, r) PROVE RInv'
  <1>1. remain' = [remain EXCEPT ![e] = @ - 1]
    BY AnswerRing DEF c_read_from_provide_agents, RInv
  <1>2. flight' = [flight EXCEPT ![e] = @ \ {r}] /\ UNCHANGED <<req_id, link>>
    BY DEF c_read_from_provide_agents, serverVars, linkVars
  <1>3. IsFiniteSet(flight[e] \ {r}) /\ Cardinality(flight[e] \ {r}) = Cardinality(flight[e]) - 1
    BY FS_RemoveElement DEF RInv
  <1>4. \A f \in Ends : IsFiniteSet(flight'[f]) /\ flight'[f] \subseteq flight[f]
    BY <1>2, <1>3 DEF RInv, TypeInv, TypeOK
  <1>5. RemainIsInFlight'
    BY <1>1, <1>2, <1>3 DEF RInv, TypeInv, TypeOK, LBTypeOK, RemainIsInFlight
  <1>6. TypeInv'
    BY AnswerTypes DEF RInv
  <1> QED BY <1>2, <1>4, <1>5, <1>6 DEF RInv

LEMMA RInvStep == ASSUME ~Faults PROVE RInv /\ [Next]_vars => RInv'
  <1> SUFFICES ASSUME RInv, [Next]_vars PROVE RInv'
    OBVIOUS
  <1> USE DEF serverVars, linkVars, lbVars
  <1>1. TypeInv'
    BY TypeInvStep DEF RInv
  <1>2. UNCHANGED <<remain, req_id, flight, link>> => RInv'
    BY <1>1 DEF RInv, RemainIsInFlight
  <1>3. ASSUME NEW l \in Loops, NEW e \in Ends, LinkStep(l, e) PROVE RInv'
    <2>1. c_after_connect_to_a_agent(l, e)
      BY <1>3 DEF LinkStep, c_after_connect_to_a_agent_fail, c_read_from_provide_agents_eof,
                  c_read_from_provide_agents_error, reconnection_to_agent, RInv
    <2>2. UNCHANGED <<remain, req_id, flight>> /\ link' = [link EXCEPT ![l][e] = "up"]
      BY <2>1 DEF c_after_connect_to_a_agent
    <2>3. \A k \in Loops, f \in Ends : link'[k][f] # "closing"
      BY <2>2 DEF RInv, TypeInv, TypeOK
    <2> QED BY <1>1, <2>2, <2>3 DEF RInv, RemainIsInFlight
  <1>4. ASSUME NEW c \in Conns, ConnStep(c) PROVE RInv'
    <2>1. CASE c_read_connection_data(c)
      BY <2>1, RequestCounts
    <2>2. CASE ~c_read_connection_data(c)
      BY <1>2, <1>4, <2>2 DEF ConnStep, on_new_connection, init_http_req_t, on_new_connection_refused,
         c_dummy_read_connection_data, c_read_connection_data_close, close_cb
    <2> QED BY <2>1, <2>2
  <1>5. ASSUME NEW e \in Ends, NEW r \in flight[e], provider_drops(e, r) PROVE FALSE
    BY <1>5 DEF provider_drops
  <1>6. WallClock \/ UNCHANGED vars => RInv'
    BY <1>2 DEF WallClock, vars
  <1> QED BY <1>3, <1>4, <1>5, <1>6, AnswerCounts DEF Next

\* As long as links hold and providers answer, the balancer's counters are exact:
\* neither clients that give up nor table slots that are overwritten make them
\* drift.
THEOREM RemainHolds == ASSUME ~Faults PROVE Spec => []RemainIsInFlight
  <1>1. RInv => RemainIsInFlight
    BY DEF RInv
  <1>2. Init => RInv
    <2> SUFFICES ASSUME Init PROVE RInv
      OBVIOUS
    <2>1. \A e \in Ends : flight[e] = {} /\ remain[e] = 0
      BY DEF Init, init_tcp_server_t, start_work_event_loop, LBInit
    <2> QED BY <2>1, TypeInvInit, FS_EmptySet DEF Init, init_tcp_server_t, start_work_event_loop, RInv, RemainIsInFlight
  <1> QED BY <1>1, <1>2, RInvStep, PTL DEF Spec
------------------------------------------------------------------------------
\* With faults the counters only ever err on the side of caution.
CInv ==
    /\ TypeInv
    /\ \A e \in Ends : IsFiniteSet(flight[e])
    /\ RemainCovers

\* What is lost leaves flight and stays counted.
LEMMA LossCovered ==
    ASSUME CInv, TypeInv', UNCHANGED remain, \A e \in Ends : flight'[e] \subseteq flight[e] PROVE CInv'
  <1>1. \A e \in Ends : IsFiniteSet(flight'[e]) /\ Cardinality(flight'[e]) <= Cardinality(flight[e])
    BY FS_Subset DEF CInv
  <1>2. \A e \in Ends : Cardinality(flight[e]) \in Int /\ Cardinality(flight'[e]) \in Int
    BY <1>1, FS_CardinalityType DEF CInv
  <1>3. RemainCovers'
    BY <1>1, <1>2 DEF CInv, RemainCovers, TypeInv, TypeOK, LBTypeOK
  <1> QED BY <1>1, <1>3 DEF CInv

LEMMA RequestCovered ==
    ASSUME CInv, TypeInv', NEW c \in Conns, c_read_connection_data(c) PROVE CInv'
  <1> DEFINE l == tcp_server[c]
             new == [loop |-> l, id |-> req_id[l]]
  <1>0. PICK e \in Ends : /\ remain' = [remain EXCEPT ![e] = @ + 1]
                          /\ send_to_provider_agent(e, l, data[c], req_id[l])
    BY DEF c_read_connection_data, select_endpoint_time_based
  <1>1. flight' = flight \/ flight' = [flight EXCEPT ![e] = @ \cup {new}]
    BY <1>0 DEF send_to_provider_agent
  <1> HIDE DEF new
  <1>2. \A f \in Ends : Cardinality(flight[f]) \in Int
    BY FS_CardinalityType DEF CInv
  <1>3. /\ IsFiniteSet(flight[e] \cup {new})
        /\ Cardinality(flight[e] \cup {new}) <= Cardinality(flight[e]) + 1
        /\ Cardinality(flight[e] \cup {new}) \in Int
    <2>1. IsFiniteSet(flight[e])
      BY DEF CInv
    <2>2. /\ IsFiniteSet(flight[e] \cup {new})
          /\ \/ Cardinality(flight[e] \cup {new}) = Cardinality(flight[e])
             \/ Cardinality(flight[e] \cup {new}) = Cardinality(flight[e]) + 1
      BY <2>1, FS_AddElement
    <2> QED BY <1>2, <2>2
  <1>4. \A f \in Ends : IsFiniteSet(flight'[f])
    BY <1>1, <1>3 DEF CInv, TypeInv, TypeOK
  <1>5. ASSUME NEW f \in Ends PROVE remain'[f] >= Cardinality(flight'[f])
    <2>1. remain[f] \in Int /\ remain[f] >= Cardinality(flight[f])
      BY DEF CInv, RemainCovers, TypeInv, TypeOK, LBTypeOK
    <2>2. CASE f = e
      <3>1. remain'[f] = remain[f] + 1
        BY <1>0, <2>2 DEF CInv, TypeInv, TypeOK, LBTypeOK
      <3>2. flight'[f] \in {flight[f], flight[f] \cup {new}}
        BY <1>1, <2>2 DEF CInv, TypeInv, TypeOK
      <3> QED BY <1>2, <1>3, <2>1, <2>2, <3>1, <3>2
    <2>3. CASE f # e
      BY <1>0, <1>1, <2>1, <2>3 DEF CInv, TypeInv, TypeOK, LBTypeOK
    <2> QED BY <2>2, <2>3
  <1> QED BY <1>4, <1>5 DEF CInv, RemainCovers

LEMMA AnswerCovered ==
    ASSUME CInv, TypeInv', NEW e \in Ends, NEW r \in flight[e], c_read_from_provide_agents(e, r) PROVE CInv'
  <1>1. remain' = [remain EXCEPT ![e] = @ - 1]
    BY AnswerRing DEF c_read_from_provide_agents, CInv
  <1>2. flight' = [flight EXCEPT ![e] = @ \ {r}]
    BY DEF c_read_from_provide_agents
  <1>3. IsFiniteSet(flight[e] \ {r}) /\ Cardinality(flight[e] \ {r}) = Cardinality(flight[e]) - 1
    BY FS_RemoveElement DEF CInv
  <1>4. \A f \in Ends : Cardinality(flight[f]) \in Int
    BY FS_CardinalityType DEF CInv
  <1>5. \A f \in Ends : IsFiniteSet(flight'[f])
    BY <1>2, <1>3 DEF CInv, TypeInv, TypeOK
  <1>6. RemainCovers'
    BY <1>1, <1>2, <1>3, <1>4 DEF CInv, TypeInv, TypeOK, LBTypeOK, RemainCovers
  <1> QED BY <1>5, <1>6 DEF CInv

\* A step of a link loses the link's own requests, if any.
LEMMA LinkFlight ==
    ASSUME NEW l \in Loops, NEW e \in Ends, LinkStep(l, e)
    PROVE  flight' \in {flight, [flight EXCEPT ![e] = @ \ OnLink(l, e)]}
  BY DEF LinkStep, c_after_connect_to_a_agent, c_after_connect_to_a_agent_fail,
         c_read_from_provide_agents_eof, c_read_from_provide_agents_error, reconnection_to_agent

LEMMA CInvStep == CInv /\ [Next]_vars => CInv'
  <1> SUFFICES ASSUME CInv, [Next]_vars PROVE CInv'
    OBVIOUS
  <1> USE DEF lbVars
  <1>1. TypeInv'
    BY TypeInvStep DEF CInv
  <1>2. UNCHANGED <<remain, flight>> => CInv'
    BY <1>1, LossCovered
  <1>3. ASSUME NEW l \in Loops, NEW e \in Ends, LinkStep(l, e) PROVE CInv'
    <2>1. UNCHANGED remain
      BY <1>3 DEF LinkStep, c_after_connect_to_a_agent, c_after_connect_to_a_agent_fail,
                  c_read_from_provide_agents_eof, c_read_from_provide_agents_error, reconnection_to_agent
    <2>2. flight' \in {flight, [flight EXCEPT ![e] = @ \ OnLink(l, e)]}
      BY <1>3, LinkFlight
    <2>3. \A f \in Ends : flight'[f] \subseteq flight[f]
      BY <2>2 DEF CInv, TypeInv, TypeOK
    <2> QED BY <1>1, <2>1, <2>3, LossCovered
  <1>4. ASSUME NEW c \in Conns, ConnStep(c) PROVE CInv'
    <2>1. CASE c_read_connection_data(c)
      BY <1>1, <2>1, RequestCovered
    <2>2. CASE ~c_read_connection_data(c)
      BY <1>2, <1>4, <2>2 DEF ConnStep, on_new_connection, init_http_req_t, on_new_connection_refused,
         c_dummy_read_connection_data, c_read_connection_data_close, close_cb
    <2> QED BY <2>1, <2>2
  <1>5. ASSUME NEW e \in Ends, NEW r \in flight[e], provider_drops(e, r) PROVE CInv'
    <2>1. UNCHANGED remain /\ \A f \in Ends : flight'[f] \subseteq flight[f]
      BY <1>5 DEF provider_drops, CInv, TypeInv, TypeOK
    <2> QED BY <1>1, <2>1, LossCovered
  <1>6. WallClock \/ UNCHANGED vars => CInv'
    BY <1>2 DEF WallClock, vars
  <1> QED BY <1>1, <1>3, <1>4, <1>5, <1>6, AnswerCovered DEF Next

\* In every environment the balancer counts at least what an endpoint has still to
\* answer: requests that got lost make it look busier, never idler.
THEOREM RemainCoversHolds == Spec => []RemainCovers
  <1>1. CInv => RemainCovers
    BY DEF CInv
  <1>2. Init => CInv
    <2> SUFFICES ASSUME Init PROVE CInv
      OBVIOUS
    <2>1. \A e \in Ends : flight[e] = {} /\ remain[e] = 0
      BY DEF Init, init_tcp_server_t, start_work_event_loop, LBInit
    <2> QED BY <2>1, TypeInvInit, FS_EmptySet DEF CInv, RemainCovers
  <1> QED BY <1>1, <1>2, CInvStep, PTL DEF Spec
------------------------------------------------------------------------------
(* Where requests are *)

\* Ids in flight have been handed out, and a request is on its way to one endpoint.
FlightInv ==
    /\ TypeInv
    /\ \A e \in Ends : \A r \in flight[e] : r.id < req_id[r.loop]
    /\ \A e, f \in Ends : e # f => flight[e] \cap flight[f] = {}

LEMMA FlightShrinks ==
    ASSUME FlightInv, TypeInv', UNCHANGED req_id, \A e \in Ends : flight'[e] \subseteq flight[e] PROVE FlightInv'
  BY DEF FlightInv

LEMMA RequestFlight ==
    ASSUME FlightInv, TypeInv', NEW c \in Conns, c_read_connection_data(c) PROVE FlightInv'
  <1> DEFINE l == tcp_server[c]
             new == [loop |-> l, id |-> req_id[l]]
  <1>1. l \in Loops /\ req_id[l] \in Nat /\ EVENT_LOOP_NUM \in Nat /\ EVENT_LOOP_NUM > 0
    BY LoopsAssumption DEF FlightInv, TypeInv, TypeOK
  <1>2. PICK e \in Ends : send_to_provider_agent(e, l, data[c], req_id[l])
    BY DEF c_read_connection_data
  <1>3. flight' = flight \/ flight' = [flight EXCEPT ![e] = @ \cup {new}]
    BY <1>2 DEF send_to_provider_agent
  <1>4. \A f \in Ends : new \notin flight[f]
    BY <1>1 DEF FlightInv
  <1>9. \A f \in Ends : flight'[f] = flight[f] \/ (f = e /\ flight'[f] = flight[f] \cup {new})
    <2> HIDE DEF new
    <2> QED BY <1>3 DEF FlightInv, TypeInv, TypeOK
  <1>5. req_id' = [req_id EXCEPT ![l] = @ + EVENT_LOOP_NUM]
    BY DEF c_read_connection_data, NextReqId
  <1>6. \A k \in Loops : req_id[k] \in Nat /\ req_id'[k] \in Nat /\ req_id[k] <= req_id'[k]
    BY <1>1, <1>5 DEF FlightInv, TypeInv, TypeOK
  <1>7. ASSUME NEW f \in Ends, NEW r \in flight'[f] PROVE r.id < req_id'[r.loop]
    <2>1. CASE r = new
      BY <1>1, <1>5, <2>1 DEF FlightInv, TypeInv, TypeOK
    <2>2. CASE r # new
      <3>0. r \in flight[f]
        BY <1>9, <2>2
      <3>1. r \in flight[f] /\ r \in Requests
        BY <3>0 DEF FlightInv, TypeInv, TypeOK
      <3>2. r.loop \in Loops /\ r.id \in Nat /\ r.id < req_id[r.loop]
        BY <3>1, IdIsNat DEF FlightInv, Requests
      <3> QED BY <1>6, <3>2
    <2> QED BY <2>1, <2>2
  <1> HIDE DEF new
  <1>8. \A f, g \in Ends : f # g => flight'[f] \cap flight'[g] = {}
    BY <1>4, <1>9 DEF FlightInv
  <1> QED BY <1>7, <1>8 DEF FlightInv

LEMMA FlightStep == FlightInv /\ [Next]_vars => FlightInv'
  <1> SUFFICES ASSUME FlightInv, [Next]_vars PROVE FlightInv'
    OBVIOUS
  <1> USE DEF serverVars
  <1>1. TypeInv'
    BY TypeInvStep DEF FlightInv
  <1>0. flight \in [Ends -> SUBSET Requests]
    BY DEF FlightInv, TypeInv, TypeOK
  <1>2. UNCHANGED <<req_id, flight>> => FlightInv'
    BY <1>1, FlightShrinks
  <1>3. ASSUME NEW l \in Loops, NEW e \in Ends, LinkStep(l, e) PROVE FlightInv'
    <2>1. UNCHANGED req_id
      BY <1>3 DEF LinkStep, c_after_connect_to_a_agent, c_after_connect_to_a_agent_fail,
                  c_read_from_provide_agents_eof, c_read_from_provide_agents_error, reconnection_to_agent
    <2>2. flight' \in {flight, [flight EXCEPT ![e] = @ \ OnLink(l, e)]}
      BY <1>3, LinkFlight
    <2>3. \A f \in Ends : flight'[f] \subseteq flight[f]
      BY <1>0, <2>2
    <2> QED BY <1>1, <2>1, <2>3, FlightShrinks
  <1>4. ASSUME NEW c \in Conns, ConnStep(c) PROVE FlightInv'
    <2>1. CASE c_read_connection_data(c)
      BY <1>1, <2>1, RequestFlight
    <2>2. CASE ~c_read_connection_data(c)
      BY <1>2, <1>4, <2>2 DEF ConnStep, on_new_connection, init_http_req_t, on_new_connection_refused,
         c_dummy_read_connection_data, c_read_connection_data_close, close_cb
    <2> QED BY <2>1, <2>2
  <1>5. ASSUME NEW e \in Ends, NEW r \in flight[e], c_read_from_provide_agents(e, r) \/ provider_drops(e, r)
        PROVE  FlightInv'
    <2>1. UNCHANGED req_id /\ flight' = [flight EXCEPT ![e] = @ \ {r}]
      BY <1>5 DEF c_read_from_provide_agents, provider_drops
    <2>2. \A f \in Ends : flight'[f] \subseteq flight[f]
      BY <1>0, <2>1
    <2> QED BY <1>1, <2>1, <2>2, FlightShrinks
  <1>6. WallClock \/ UNCHANGED vars => FlightInv'
    BY <1>2 DEF WallClock, vars
  <1> QED BY <1>3, <1>4, <1>5, <1>6 DEF Next

LEMMA FlightInit == Init => FlightInv
  BY TypeInvInit DEF Init, init_tcp_server_t, start_work_event_loop, FlightInv
------------------------------------------------------------------------------
(***************************************************************************)
(* The agents together: each, seen alone, behaves as its own module says,  *)
(* so that what is proved of the consumer agent and of the relays holds of *)
(* the mesh, and the two ends of a link agree on what is on it.            *)
(***************************************************************************)

USE DEF P!vars, P!connVars, P!dataVars, relayVars

\* Every step of the mesh is a step of the consumer agent or leaves it alone.
LEMMA ConsumerSees == MNext => [Next]_vars
  <1> SUFFICES ASSUME MNext PROVE Next \/ UNCHANGED vars
    OBVIOUS
  <1>1. CASE ConsumerAlone
    BY <1>1 DEF ConsumerAlone, Next, LinkStep
  <1>2. ASSUME NEW l \in Loops, NEW e \in Ends,
               link_made(l, e) \/ link_refused(l, e) \/ link_lost(l, e) \/ link_renewed(l, e)
        PROVE  Next
    BY <1>2 DEF link_made, link_refused, link_lost, link_renewed, Next, LinkStep
  <1>3. ASSUME NEW l \in Loops, NEW e \in Ends, connection_made(l, e) PROVE UNCHANGED vars
    BY <1>3 DEF connection_made
  <1>4. ASSUME NEW l \in Loops, NEW e \in Ends, NEW r \in OnLink(l, e), link_delivers(l, e, r)
        PROVE  UNCHANGED vars
    BY <1>4 DEF link_delivers
  <1>5. ASSUME NEW k \in Connections, relay_made(k) \/ Alone(RelayStep(k) \/ PeerStep(k)) PROVE UNCHANGED vars
    BY <1>5 DEF relay_made, Alone
  <1>6. ASSUME NEW k \in Connections, NEW m, response_dropped(k, m) PROVE Next
    BY <1>6 DEF response_dropped, provider_drops, Next, Connections
  <1>7. ASSUME NEW e \in Ends, NEW r \in flight[e], response_read(e, r) PROVE Next
    BY <1>7 DEF response_read, Next
  <1> QED BY <1>1, <1>2, <1>3, <1>4, <1>5, <1>6, <1>7 DEF MNext

\* The consumer agent in the mesh is the consumer agent of ConsumerAgent.tla: its
\* provider agents do nothing its environment could not do.
THEOREM MeshImplementsConsumer == MSpec => Spec
  <1>1. MInit => Init
    BY DEF MInit
  <1>2. [MNext]_mvars => [Next]_vars
    BY ConsumerSees DEF mvars
  <1> QED BY <1>1, <1>2, PTL DEF MSpec, Spec
------------------------------------------------------------------------------
\* The connection of a link is one of Connections.
SocketsOK == socket \in [Loops -> [Ends -> 0 .. MaxConnects - 1]]

LEMMA CurrentType == SocketsOK => \A l \in Loops, e \in Ends : Current(l, e) \in Connections
  BY DEF SocketsOK, Current, Connections

LEMMA SocketsInit == MInit => SocketsOK
  BY BoundAssumption DEF MInit, SocketsOK

LEMMA SocketsStep == SocketsOK /\ [MNext]_mvars => SocketsOK'
  <1> SUFFICES ASSUME SocketsOK, [MNext]_mvars PROVE SocketsOK'
    OBVIOUS
  <1>1. ASSUME NEW l \in Loops, NEW e \in Ends, link_renewed(l, e) PROVE SocketsOK'
    BY <1>1, BoundAssumption DEF link_renewed, SocketsOK
  <1>2. CASE ~\E l \in Loops, e \in Ends : link_renewed(l, e)
    <2>1. UNCHANGED socket
      BY <1>2 DEF MNext, mvars, netVars, ConsumerAlone, connection_made, link_made, link_refused, link_lost,
                  link_delivers, relay_made, Alone, response_dropped, response_read
    <2> QED BY <2>1 DEF SocketsOK
  <1> QED BY <1>1, <1>2

\* Every step of the mesh is a step of a relay or leaves the relays alone.
LEMMA RelaysSee == TypeOK /\ SocketsOK /\ MNext => [P!Next]_(P!vars)
  <1> SUFFICES ASSUME TypeOK, SocketsOK, MNext PROVE P!Next \/ UNCHANGED P!vars
    OBVIOUS
  <1>1. CASE ConsumerAlone
    BY <1>1 DEF ConsumerAlone
  <1>2. ASSUME NEW l \in Loops, NEW e \in Ends,
               \/ connection_made(l, e) \/ link_made(l, e) \/ link_refused(l, e)
               \/ link_lost(l, e) \/ link_renewed(l, e)
        PROVE  UNCHANGED P!vars
    BY <1>2 DEF connection_made, link_made, link_refused, link_lost, link_renewed
  <1>3. ASSUME NEW l \in Loops, NEW e \in Ends, NEW r \in OnLink(l, e), link_delivers(l, e, r) PROVE P!Next
    <2>1. PICK k \in Connections : P!consumer_sends(k, r)
      BY <1>3, CurrentType DEF link_delivers
    <2>2. r \in Requests
      BY <2>1 DEF P!consumer_sends
    <2> QED BY <2>1, <2>2 DEF P!Next, P!PeerStep
  <1>4. ASSUME NEW k \in Connections, relay_made(k) PROVE P!Next
    BY <1>4 DEF relay_made, P!Next, P!RelayStep
  <1>5. ASSUME NEW k \in Connections, NEW m \in results[k], P!p_on_read_results(k, m) PROVE P!Next
    BY <1>5 DEF P!Next, P!RelayStep
  <1>6. ASSUME NEW k \in Connections, RelayStep(k) PROVE P!Next
    BY <1>5, <1>6 DEF RelayStep, response_passed, P!Next, P!RelayStep
  <1>7. ASSUME NEW k \in Connections, PeerStep(k) PROVE P!Next
    <2>1. Statuses \subseteq P!Status
      BY DEF Statuses, P!Status
    <2> QED BY <1>7, <2>1 DEF PeerStep, P!Next, P!PeerStep
  <1>8. ASSUME NEW e \in Ends, NEW r \in flight[e], response_read(e, r) PROVE P!Next
    <2>1. r.loop \in Loops
      BY <1>8 DEF TypeOK, Requests
    <2>2. PICK k \in Connections : P!consumer_reads(k, r)
      BY <1>8, <2>1, CurrentType DEF response_read
    <2>3. r \in down[k]
      BY <2>2 DEF P!consumer_reads
    <2> QED BY <2>2, <2>3 DEF P!Next, P!PeerStep
  <1>9. ASSUME NEW k \in Connections, Alone(RelayStep(k) \/ PeerStep(k)) PROVE P!Next
    BY <1>6, <1>7, <1>9 DEF Alone
  <1>10. ASSUME NEW k \in Connections, NEW m \in results[k], response_dropped(k, m) PROVE P!Next
    BY <1>5, <1>10 DEF response_dropped
  <1> QED BY <1>1, <1>2, <1>3, <1>4, <1>8, <1>9, <1>10 DEF MNext

\* The relays in the mesh are the relays of ProviderRelay.tla: the consumer agent
\* does nothing their environment could not do.
THEOREM MeshImplementsRelays == MSpec => P!Spec
  <1>1. MInit => P!Init
    BY DEF MInit
  <1>2. TypeOK /\ SocketsOK /\ [MNext]_mvars => [P!Next]_(P!vars)
    BY RelaysSee DEF mvars
  <1> QED BY <1>1, <1>2, SocketsInit, SocketsStep, MeshImplementsConsumer, AgentTypeCorrect, PTL DEF MSpec, P!Spec
------------------------------------------------------------------------------
\* Through real provider agents, with links that break, relays that close on frames
\* longer than their buffers, clients that wait and timely answers: the clients have
\* the request-reply service of RequestReply.
THEOREM MeshAnswers ==
  ASSUME ClientsWait, Timely
  PROVE  MSpec => RequestReplyRefined
  BY MeshImplementsConsumer, ImplementsRequestReply, PTL
------------------------------------------------------------------------------
(* The two sides of a link agree *)

\* The theorems of ProviderRelayProofs about the relays of the mesh.
PP == INSTANCE ProviderRelayProofs WITH Relays <- Connections, RequestIds <- Requests

\* The assumption of ProviderRelay holds of the instance here.
LEMMA RelayAssumption == Faults \in BOOLEAN /\ Long \subseteq Requests
  BY EnvironmentAssumption, LongAssumption

\* They are about the relays Mesh.tla speaks of.
LEMMA SameRelays ==
    /\ P!Init <=> PP!Init
    /\ [P!Next]_(P!vars) <=> [PP!Next]_(PP!vars)
  <1>1. P!Init <=> PP!Init
    BY DEF P!Init, PP!Init
  <1>2. [P!Next]_(P!vars) <=> [PP!Next]_(PP!vars)
    BY DEF P!p_on_new_connection, PP!p_on_new_connection, P!p_on_duboo_connect,
         PP!p_on_duboo_connect, P!p_on_duboo_connect_fail, PP!p_on_duboo_connect_fail,
         P!p_alloc_buffer1, PP!p_alloc_buffer1, P!p_alloc_buffer2, PP!p_alloc_buffer2,
         P!p_read_connection_data_close, PP!p_read_connection_data_close,
         P!p_on_read_results_close, PP!p_on_read_results_close, P!p_close_tcp_relay_connection1,
         PP!p_close_tcp_relay_connection1, P!p_close_tcp_relay_connection2,
         PP!p_close_tcp_relay_connection2, P!p_read_connection_data_http_req,
         PP!p_read_connection_data_http_req, P!p_on_read_results, PP!p_on_read_results,
         P!consumer_closes, PP!consumer_closes, P!dubbo_closes, PP!dubbo_closes,
         P!consumer_sends, PP!consumer_sends, P!dubbo_answers, PP!dubbo_answers,
         P!consumer_reads, PP!consumer_reads, P!CloseConnection1, PP!CloseConnection1,
         P!running, PP!running, P!Status, PP!Status, P!connVars, PP!connVars, P!dataVars,
         PP!dataVars, P!vars, PP!vars, P!RelayStep, PP!RelayStep, P!PeerStep, PP!PeerStep,
         P!Next, PP!Next
  <1> QED BY <1>1, <1>2

\* The two instances of ProviderRelay mean the same requests.
LEMMA SameInFlight == ASSUME NEW k PROVE P!InFlight(k) = PP!InFlight(k)
  BY DEF P!InFlight, PP!InFlight, P!Resulted, PP!Resulted

\* What is proved of the relays holds in the mesh.
THEOREM MeshRelayInvariant == MSpec => []PP!RelayInv
  <1>1. P!Spec => PP!Spec
    BY SameRelays, PTL DEF P!Spec, PP!Spec
  <1>2. PP!Spec => []PP!RelayInv
    BY RelayAssumption, PP!RelayInvariant
  <1> QED BY <1>1, <1>2, MeshImplementsRelays, PTL

\* The connection numbers of a link.
Numbers == 0 .. MaxConnects - 1

\* The two ends of connection k, the n-th of the link of loop l to endpoint e: what
\* LinkAgreement says of it, and why.  A connection not made yet has no relay, one
\* not accepted yet has had nothing delivered, and a link gets its new connection
\* with nothing of what it waits for delivered.
Agrees(l, e, n, k) ==
    /\ n > socket[l][e] \/ (n = socket[l][e] /\ ~established[l][e]) =>
         tcp_conn_1[k] = "absent" /\ k \notin backlog
    /\ n > socket[l][e] \/ (n = socket[l][e] /\ link[l][e] = "connecting") => PP!InFlight(k) = {}
    /\ k \in backlog => tcp_conn_1[k] = "absent"
    /\ ~gone1[k]
    /\ n = socket[l][e] /\ link[l][e] = "up" =>
         /\ PP!InFlight(k) \subseteq OnLink(l, e)
         /\ k \in backlog => OnLink(l, e) \cap sent = {}
         /\ Standing(k) => OnLink(l, e) \cap sent \subseteq PP!InFlight(k)
    /\ n # socket[l][e] => PP!InFlight(k) \cap OnLink(l, e) = {}
    /\ link[l][e] # "up" => OnLink(l, e) \cap sent = {}

\* A relay has only been sent requests whose ids have been drawn.
SentInv == \A r \in sent : r.id < req_id[r.loop]

\* The two ends agree on every connection while the consumer agent runs.
AllAgree == running => \A l \in Loops, e \in Ends, n \in Numbers : Agrees(l, e, n, <<l, e, n>>)

\* A step that makes and ends no connection of the link, delivers nothing to the
\* relay, and takes off both ends what it takes off either while the relay stands.
Follows(l, e, n, k) ==
    /\ link'[l][e] = link[l][e] /\ socket'[l][e] = socket[l][e]
    /\ established'[l][e] = established[l][e] /\ (k \in backlog' <=> k \in backlog)
    /\ gone1'[k] = gone1[k]
    /\ tcp_conn_1[k] = "absent" => tcp_conn_1'[k] = "absent"
    /\ PP!InFlight(k)' \subseteq PP!InFlight(k)
    /\ PP!InFlight(k)' \cap OnLink(l, e) \subseteq OnLink(l, e)'
    /\ OnLink(l, e)' \cap sent' \subseteq OnLink(l, e) \cap sent
    /\ sent \subseteq sent'
    /\ Standing(k)' => Standing(k) /\ PP!InFlight(k) \cap OnLink(l, e)' \subseteq PP!InFlight(k)'

\* Such a step leaves the two ends in agreement.
LEMMA FollowsAgrees ==
    ASSUME PP!RelayInv, NEW l, NEW e, NEW n, NEW k \in Connections, Agrees(l, e, n, k), Follows(l, e, n, k)
    PROVE  Agrees(l, e, n, k)'
  <1>1. PP!InFlight(k) \subseteq sent
    BY DEF PP!RelayInv, PP!OnePlace
  <1>2. OnLink(l, e)' \cap PP!InFlight(k)' \subseteq OnLink(l, e)
    BY <1>1 DEF Follows
  <1> QED BY <1>1, <1>2 DEF Agrees, Follows

\* The relays' side is left alone.
LEMMA RelaysKept ==
    ASSUME UNCHANGED relayVars, NEW k PROVE PP!InFlight(k)' = PP!InFlight(k) /\ Standing(k)' = Standing(k)
  BY DEF PP!InFlight, PP!Resulted, Standing, P!Broken

\* A step of the consumer agent alone: what it sends is on its way, not at a relay.
LEMMA ConsumerFollows ==
    ASSUME FlightInv, SentInv, PP!RelayInv, ConsumerAlone, running',
           NEW l \in Loops, NEW e \in Ends, NEW n, NEW k \in Connections
    PROVE  Follows(l, e, n, k)
  <1>1. UNCHANGED <<netVars, relayVars>> /\ PP!InFlight(k)' = PP!InFlight(k) /\ Standing(k)' = Standing(k)
    BY RelaysKept DEF ConsumerAlone
  <1>2. link' = link /\ OnLink(l, e) \subseteq OnLink(l, e)' /\ OnLink(l, e)' \cap sent \subseteq OnLink(l, e)
        => Follows(l, e, n, k)
    BY <1>1 DEF Follows, netVars
  <1>3. ASSUME UNCHANGED <<link, flight>> PROVE Follows(l, e, n, k)
    BY <1>2, <1>3 DEF OnLink
  <1>4. ASSUME NEW l0 \in Loops, NEW e0 \in Ends, c_read_from_provide_agents_error(l0, e0) PROVE FALSE
    BY <1>4 DEF c_read_from_provide_agents_error
  <1>5. ASSUME NEW c \in Conns, c_read_connection_data(c) PROVE Follows(l, e, n, k)
    <2> DEFINE h == tcp_server[c]
               new == [loop |-> h, id |-> req_id[h]]
    <2>1. PICK e0 \in Ends : send_to_provider_agent(e0, h, data[c], req_id[h])
      BY <1>5 DEF c_read_connection_data
    <2>2. link' = link
      BY <1>5 DEF c_read_connection_data, linkVars
    <2>3. h \in Loops /\ req_id[h] \in Nat /\ flight \in [Ends -> SUBSET Requests]
      BY DEF FlightInv, TypeInv, TypeOK
    <2>4. new \notin sent
      BY <2>3 DEF SentInv
    <2>5. flight' = flight \/ flight' = [flight EXCEPT ![e0] = @ \cup {new}]
      BY <2>1 DEF send_to_provider_agent
    <2>6. OnLink(l, e) \subseteq OnLink(l, e)' /\ OnLink(l, e)' \subseteq OnLink(l, e) \cup {new}
      <3> HIDE DEF new
      <3> QED BY <2>3, <2>5 DEF OnLink
    <2> QED BY <1>2, <2>2, <2>4, <2>6
  <1>6. ASSUME NEW c \in Conns, ConnStep(c), ~c_read_connection_data(c) PROVE UNCHANGED <<link, flight>>
    BY <1>6 DEF ConnStep, on_new_connection, init_http_req_t, on_new_connection_refused,
         c_dummy_read_connection_data, c_read_connection_data_close, close_cb, linkVars
  <1>7. WallClock => UNCHANGED <<link, flight>>
    BY DEF WallClock, linkVars
  <1> QED BY <1>3, <1>4, <1>5, <1>6, <1>7 DEF ConsumerAlone

\* What a step of relay k0 alone does to the relays, seen from connection k.
RelayMoves(k0, k) ==
    /\ sent' = sent /\ gone1'[k] = gone1[k]
    /\ tcp_conn_1[k] = "absent" => tcp_conn_1'[k] = "absent"
    /\ PP!InFlight(k)' \subseteq PP!InFlight(k)
    /\ k # k0 => PP!InFlight(k)' = PP!InFlight(k)
    /\ Standing(k)' => Standing(k)

\* Callbacks that open or close, and Dubbo going away: while the relay stands it
\* keeps what it has.
LEMMA LifeMoves ==
    ASSUME PP!RelayInv, NEW k0 \in Connections, NEW k \in Connections,
           \/ P!p_on_duboo_connect(k0) \/ P!p_on_duboo_connect_fail(k0) \/ P!p_alloc_buffer1(k0)
           \/ P!p_read_connection_data_close(k0) \/ P!p_on_read_results_close(k0)
           \/ P!p_close_tcp_relay_connection1(k0) \/ P!p_close_tcp_relay_connection2(k0)
           \/ P!dubbo_closes(k0)
    PROVE  RelayMoves(k0, k) /\ (Standing(k)' => PP!InFlight(k)' = PP!InFlight(k))
  <1> USE DEF PP!TypeOK
  <1>0. PP!TypeOK /\ PP!OnePlace /\ PP!Coupled /\ PP!GoneCause
    BY DEF PP!RelayInv
  <1>1. PP!LifeStep(k0)
    BY DEF PP!LifeStep, P!p_on_duboo_connect, PP!p_on_duboo_connect, P!p_on_duboo_connect_fail,
           PP!p_on_duboo_connect_fail, P!p_alloc_buffer1, PP!p_alloc_buffer1,
           P!p_read_connection_data_close, PP!p_read_connection_data_close,
           P!p_on_read_results_close, PP!p_on_read_results_close, P!p_close_tcp_relay_connection1,
           PP!p_close_tcp_relay_connection1, P!p_close_tcp_relay_connection2,
           PP!p_close_tcp_relay_connection2, P!dubbo_closes, PP!dubbo_closes,
           P!CloseConnection1, PP!CloseConnection1, P!running, PP!running, PP!connVars, PP!dataVars
  <1>2. PP!Others(k0) /\ PP!Shrinks(k0)
    BY <1>0, <1>1, RelayAssumption, PP!LifeEffect
  <1>3. sent' = sent /\ PP!InFlight(k0)' \subseteq PP!InFlight(k0)
    BY <1>2 DEF PP!Shrinks
  <1>4. k # k0 => PP!InFlight(k)' = PP!InFlight(k)
    BY <1>2, RelayAssumption, PP!OthersKept
  <1>5. gone1' = gone1 /\ (tcp_conn_1[k] = "absent" => tcp_conn_1'[k] = "absent")
    <2>1. CASE P!p_on_duboo_connect(k0)
      BY <1>0, <2>1 DEF P!p_on_duboo_connect, PP!Coupled
    <2>2. CASE P!p_read_connection_data_close(k0) \/ P!p_on_read_results_close(k0)
      BY <1>0, <2>2 DEF P!p_read_connection_data_close, P!p_on_read_results_close, P!CloseConnection1, PP!Coupled
    <2>3. CASE P!p_close_tcp_relay_connection1(k0) \/ P!p_close_tcp_relay_connection2(k0)
      BY <1>0, <2>3 DEF P!p_close_tcp_relay_connection1, P!p_close_tcp_relay_connection2
    <2>4. CASE P!p_on_duboo_connect_fail(k0) \/ P!p_alloc_buffer1(k0) \/ P!dubbo_closes(k0)
      BY <2>4 DEF P!p_on_duboo_connect_fail, P!p_alloc_buffer1, P!dubbo_closes
    <2> QED BY <2>1, <2>2, <2>3, <2>4
  <1>6. Standing(k)' => Standing(k)
    <2> USE DEF Standing, P!Broken
    <2>1. CASE P!p_on_duboo_connect(k0)
      BY <1>0, <2>1 DEF P!p_on_duboo_connect, PP!Coupled
    <2>2. CASE P!p_read_connection_data_close(k0) \/ P!p_on_read_results_close(k0)
      BY <1>0, <2>2 DEF P!p_read_connection_data_close, P!p_on_read_results_close, P!CloseConnection1
    <2>3. CASE P!p_close_tcp_relay_connection1(k0) \/ P!p_close_tcp_relay_connection2(k0)
      BY <1>0, <2>3 DEF P!p_close_tcp_relay_connection1, P!p_close_tcp_relay_connection2
    <2>4. CASE P!p_on_duboo_connect_fail(k0) \/ P!p_alloc_buffer1(k0) \/ P!dubbo_closes(k0)
      BY <1>0, <2>4 DEF P!p_on_duboo_connect_fail, P!p_alloc_buffer1, P!dubbo_closes
    <2> QED BY <2>1, <2>2, <2>3, <2>4
  <1>7. Standing(k)' => PP!InFlight(k)' = PP!InFlight(k)
    <2> SUFFICES ASSUME Standing(k)', k = k0 PROVE PP!InFlight(k)' = PP!InFlight(k)
      BY <1>4
    <2>1. CASE P!p_on_duboo_connect(k0) \/ P!p_on_duboo_connect_fail(k0) \/ P!p_alloc_buffer1(k0)
      <3>1. UNCHANGED <<up, atDubbo, results, down>>
        BY <2>1 DEF P!p_on_duboo_connect, P!p_on_duboo_connect_fail, P!p_alloc_buffer1
      <3> QED BY <3>1 DEF PP!InFlight, PP!Resulted
    <2>2. CASE P!p_read_connection_data_close(k0) \/ P!p_on_read_results_close(k0)
      BY <1>0, <2>2 DEF P!p_read_connection_data_close, P!p_on_read_results_close, Standing, P!Broken
    <2>3. CASE P!p_close_tcp_relay_connection1(k0) \/ P!p_close_tcp_relay_connection2(k0)
      BY <1>0, <2>3 DEF P!p_close_tcp_relay_connection1, P!p_close_tcp_relay_connection2, Standing
    <2>4. CASE P!dubbo_closes(k0)
      BY <1>0, <2>4 DEF P!dubbo_closes, Standing, P!Broken
    <2> QED BY <2>1, <2>2, <2>3, <2>4
  <1> QED BY <1>3, <1>4, <1>5, <1>6, <1>7 DEF RelayMoves

\* Requests and responses that move within the relay and Dubbo: what leaves a relay
\* that stands is not waited for.
LEMMA DataMoves ==
    ASSUME PP!RelayInv, running, NEW k0 \in Connections, NEW k \in Connections, ~gone1[k0],
           \/ \E i \in up[k0] : P!p_read_connection_data_http_req(k0, i)
           \/ \E i \in atDubbo[k0], s \in Statuses : P!dubbo_answers(k0, i, s)
           \/ \E m \in results[k0] : response_passed(k0, m)
    PROVE  RelayMoves(k0, k) /\ (Standing(k)' => PP!InFlight(k) \cap flight[k0[2]] \subseteq PP!InFlight(k)')
  <1> USE DEF PP!TypeOK
  <1>0. PP!TypeOK /\ PP!OnePlace /\ PP!Coupled /\ PP!GoneCause
    BY DEF PP!RelayInv
  <1>1. UNCHANGED <<tcp_conn_1, gone1, gone2, full1, full2>>
    BY DEF P!p_read_connection_data_http_req, P!dubbo_answers, response_passed, P!p_on_read_results
  <1>2. Standing(k)' = Standing(k)
    BY <1>1 DEF Standing, P!Broken
  <1>3. ASSUME PP!Others(k0), PP!Shrinks(k0),
               Standing(k0) => PP!InFlight(k0) \cap flight[k0[2]] \subseteq PP!InFlight(k0)'
        PROVE  RelayMoves(k0, k) /\ (Standing(k)' => PP!InFlight(k) \cap flight[k0[2]] \subseteq PP!InFlight(k)')
    <2>1. k # k0 => PP!InFlight(k)' = PP!InFlight(k)
      BY <1>3, RelayAssumption, PP!OthersKept
    <2> QED BY <1>1, <1>2, <1>3, <2>1 DEF RelayMoves, PP!Shrinks
  <1>4. CASE \E i \in up[k0] : P!p_read_connection_data_http_req(k0, i)
    <2>1. PICK i \in up[k0] : P!p_read_connection_data_http_req(k0, i)
      BY <1>4
    <2>2. PP!p_read_connection_data_http_req(k0, i)
      BY <2>1 DEF P!p_read_connection_data_http_req, PP!p_read_connection_data_http_req, P!running, PP!running, PP!connVars
    <2>3. PP!Others(k0) /\ PP!Shrinks(k0)
      BY <2>2, <1>0, RelayAssumption, PP!ForwardEffect
    <2>4. Standing(k0) => PP!InFlight(k0) \subseteq PP!InFlight(k0)'
      <3>1. Standing(k0) => up'[k0] = up[k0] \ {i} /\ atDubbo'[k0] = atDubbo[k0] \cup {i} /\ UNCHANGED <<results, down>>
        BY <1>0, <2>1 DEF P!p_read_connection_data_http_req, Standing, P!Broken
      <3> QED BY <3>1 DEF PP!InFlight, PP!Resulted
    <2> QED BY <1>3, <2>3, <2>4
  <1>5. CASE \E i \in atDubbo[k0], s \in Statuses : P!dubbo_answers(k0, i, s)
    <2>1. PICK i \in atDubbo[k0], s \in Statuses : P!dubbo_answers(k0, i, s)
      BY <1>5
    <2>2. s \in PP!Status /\ PP!dubbo_answers(k0, i, s)
      BY <2>1 DEF Statuses, PP!Status, P!dubbo_answers, PP!dubbo_answers, P!running, PP!running, PP!connVars
    <2>3. PP!Others(k0) /\ PP!Shrinks(k0) /\ PP!InFlight(k0)' = PP!InFlight(k0)
      BY <2>2, <1>0, RelayAssumption, PP!DubboEffect
    <2> QED BY <1>3, <2>3
  <1>6. CASE \E m \in results[k0] : response_passed(k0, m)
    <2>1. PICK m \in results[k0] : response_passed(k0, m)
      BY <1>6
    <2>2. PP!p_on_read_results(k0, m) /\ (m.status = "ok" \/ m.id \notin flight[k0[2]])
      BY <2>1 DEF response_passed, P!p_on_read_results, PP!p_on_read_results, P!running, PP!running, PP!connVars
    <2>3. PP!Others(k0) /\ PP!Shrinks(k0)
      BY <2>2, <1>0, RelayAssumption, PP!ResultEffect
    <2>4. Standing(k0) => tcp_conn_1[k0] = "reading"
      BY <1>0, <2>2 DEF Standing, PP!p_on_read_results, PP!Coupled
    <2>5. PP!InFlight(k0)' = IF m.status = "ok" /\ tcp_conn_1[k0] = "reading" /\ ~gone1[k0]
                             THEN PP!InFlight(k0) ELSE PP!InFlight(k0) \ {m.id}
      BY <2>2, <1>0, RelayAssumption, PP!ResultExact
    <2> QED BY <1>3, <2>2, <2>3, <2>4, <2>5
  <1> QED BY <1>4, <1>5, <1>6

\* A step of a relay or of Dubbo that the consumer agent does not see.
LEMMA AloneFollows ==
    ASSUME PP!RelayInv, running, NEW k0 \in Connections, ~gone1[k0], Alone(RelayStep(k0) \/ PeerStep(k0)),
           NEW l \in Loops, NEW e \in Ends, NEW n, NEW k \in Connections, k[2] = e
    PROVE  Follows(l, e, n, k)
  <1>1. UNCHANGED <<vars, netVars>> /\ (RelayStep(k0) \/ PeerStep(k0))
    BY DEF Alone
  <1>2. UNCHANGED <<link, flight>> /\ OnLink(l, e)' = OnLink(l, e) /\ OnLink(l, e) \subseteq flight[e]
    BY <1>1 DEF vars, linkVars, OnLink
  <1>3. RelayMoves(k0, k) /\ (Standing(k)' => PP!InFlight(k) \cap flight[e] \subseteq PP!InFlight(k)')
    <2>1. CASE \/ \E i \in up[k0] : P!p_read_connection_data_http_req(k0, i)
               \/ \E i \in atDubbo[k0], s \in Statuses : P!dubbo_answers(k0, i, s)
               \/ \E m \in results[k0] : response_passed(k0, m)
      <3>1. RelayMoves(k0, k) /\ (Standing(k)' => PP!InFlight(k) \cap flight[k0[2]] \subseteq PP!InFlight(k)')
        BY <2>1, DataMoves
      <3> QED BY <3>1 DEF RelayMoves
    <2>2. CASE \/ P!p_on_duboo_connect(k0) \/ P!p_on_duboo_connect_fail(k0) \/ P!p_alloc_buffer1(k0)
               \/ P!p_read_connection_data_close(k0) \/ P!p_on_read_results_close(k0)
               \/ P!p_close_tcp_relay_connection1(k0) \/ P!p_close_tcp_relay_connection2(k0)
               \/ P!dubbo_closes(k0)
      BY <2>2, LifeMoves
    <2> QED BY <1>1, <2>1, <2>2 DEF RelayStep, PeerStep
  <1> QED BY <1>1, <1>2, <1>3 DEF Follows, RelayMoves, netVars

\* A request that leaves its relay and the consumer agent's books at once.
LEMMA LeavesFollows ==
    ASSUME FlightInv, PP!RelayInv, NEW k0 \in Connections, NEW e0 \in Ends, NEW i \in PP!InFlight(k0),
           PP!Others(k0), PP!InFlight(k0)' = PP!InFlight(k0) \ {i},
           flight' = [flight EXCEPT ![e0] = @ \ {i}],
           UNCHANGED <<link, netVars, tcp_conn_1, gone1, gone2, full1, full2, sent>>,
           NEW l \in Loops, NEW e \in Ends, NEW n, NEW k \in Connections, k[2] = e, k = k0 => e = e0
    PROVE  Follows(l, e, n, k)
  <1>1. Standing(k)' = Standing(k)
    BY DEF Standing, P!Broken
  <1>2. flight \in [Ends -> SUBSET Requests]
    BY DEF FlightInv, TypeInv, TypeOK
  <1>3. OnLink(l, e)' \subseteq OnLink(l, e) /\ (e = e0 => OnLink(l, e)' = OnLink(l, e) \ {i})
        /\ (e # e0 => OnLink(l, e)' = OnLink(l, e))
    BY <1>2 DEF OnLink
  <1>4. CASE k = k0
    BY <1>1, <1>3, <1>4 DEF Follows, netVars
  <1>5. CASE k # k0
    <2>1. PP!InFlight(k)' = PP!InFlight(k)
      BY <1>5, RelayAssumption, PP!OthersKept
    <2>2. i \notin PP!InFlight(k)
      BY <1>5 DEF PP!RelayInv, PP!OnePlace
    <2> QED BY <1>1, <1>3, <2>1, <2>2 DEF Follows, netVars
  <1> QED BY <1>4, <1>5

\* A response that is dropped, or read.
LEMMA AnswerFollows ==
    ASSUME FlightInv, SocketsOK, PP!RelayInv,
           \/ \E k0 \in Connections : \E m \in results[k0] : response_dropped(k0, m)
           \/ \E e0 \in Ends : \E i \in flight[e0] : response_read(e0, i),
           NEW l \in Loops, NEW e \in Ends, NEW n, NEW k \in Connections, k[2] = e
    PROVE  Follows(l, e, n, k)
  <1>0. PP!TypeOK /\ PP!OnePlace
    BY DEF PP!RelayInv
  <1>1. ASSUME NEW k0 \in Connections, NEW m \in results[k0], response_dropped(k0, m) PROVE Follows(l, e, n, k)
    <2>1. /\ PP!p_on_read_results(k0, m) /\ m.status = "error"
          /\ UNCHANGED <<link, netVars, tcp_conn_1, gone1, gone2, full1, full2, sent>>
          /\ flight' = [flight EXCEPT ![k0[2]] = @ \ {m.id}]
      BY <1>1 DEF response_dropped, provider_drops, linkVars, P!p_on_read_results, PP!p_on_read_results,
                  P!running, PP!running, PP!connVars
    <2>2. PP!Others(k0)
      BY <2>1, <1>0, RelayAssumption, PP!ResultEffect
    <2>3. m.id \in PP!InFlight(k0) /\ PP!InFlight(k0)' = PP!InFlight(k0) \ {m.id}
      BY <2>1, <1>0, RelayAssumption, PP!ResultExact
    <2>4. k0[2] \in Ends
      BY DEF Connections
    <2> QED BY <2>1, <2>2, <2>3, <2>4, LeavesFollows
  <1>2. ASSUME NEW e0 \in Ends, NEW i \in flight[e0], response_read(e0, i) PROVE Follows(l, e, n, k)
    <2>1. i.loop \in Loops
      BY <1>2 DEF FlightInv, TypeInv, TypeOK, Requests
    <2>2. PICK k0 \in Connections : k0 = Current(i.loop, e0)
      BY <2>1, CurrentType
    <2>3. k0[2] = e0
      BY <2>2 DEF Current
    <2>4. /\ P!consumer_reads(k0, i) /\ c_read_from_provide_agents(e0, i) /\ UNCHANGED netVars
      BY <1>2, <2>2 DEF response_read
    <2>5. /\ i \in down[k0] /\ PP!consumer_reads(k0, i)
          /\ UNCHANGED <<link, tcp_conn_1, gone1, gone2, full1, full2, sent>>
          /\ flight' = [flight EXCEPT ![e0] = @ \ {i}]
      BY <2>4 DEF P!consumer_reads, PP!consumer_reads, P!running, PP!running, PP!connVars, c_read_from_provide_agents, linkVars
    <2>6. PP!Others(k0) /\ PP!Answers(k0, i)
      BY <2>5, <1>0, RelayAssumption, PP!AnswersEffect
    <2>7. i \in PP!InFlight(k0) /\ PP!InFlight(k0)' = PP!InFlight(k0) \ {i}
      BY <2>6 DEF PP!Answers
    <2> QED BY <2>3, <2>4, <2>5, <2>6, <2>7, LeavesFollows
  <1> QED BY <1>1, <1>2

\* A step on the link of loop l0 to endpoint e0 that leaves the relays alone is not
\* seen on other links.
LEMMA OtherLink ==
    ASSUME FlightInv, SocketsOK, UNCHANGED relayVars, NEW l0 \in Loops, NEW e0 \in Ends,
           \E x : link' = [link EXCEPT ![l0][e0] = x],
           \E x : socket' = [socket EXCEPT ![l0][e0] = x],
           \E x : established' = [established EXCEPT ![l0][e0] = x],
           established \in [Loops -> [Ends -> BOOLEAN]],
           backlog' \in {backlog, backlog \cup {Current(l0, e0)}},
           flight' \in {flight, [flight EXCEPT ![e0] = @ \ OnLink(l0, e0)]},
           NEW l \in Loops, NEW e \in Ends, NEW n \in Numbers, NEW k \in Connections, k = <<l, e, n>>,
           ~(l = l0 /\ e = e0)
    PROVE  Follows(l, e, n, k)
  <1>1. k # Current(l0, e0)
    BY DEF Current
  <1>2. link'[l][e] = link[l][e] /\ socket'[l][e] = socket[l][e] /\ established'[l][e] = established[l][e]
    BY DEF FlightInv, TypeInv, TypeOK, SocketsOK
  <1>3. OnLink(l, e)' = OnLink(l, e)
    BY DEF OnLink, FlightInv, TypeInv, TypeOK
  <1> HIDE DEF Current
  <1> QED BY <1>1, <1>2, <1>3, RelaysKept DEF Follows

\* A link's connection is made, the link comes up or does not, it is lost and
\* renewed.
LEMMA LinkAgrees ==
    ASSUME FlightInv, SocketsOK, PP!RelayInv, established \in [Loops -> [Ends -> BOOLEAN]],
           NEW l0 \in Loops, NEW e0 \in Ends,
           \/ connection_made(l0, e0) \/ link_made(l0, e0) \/ link_refused(l0, e0)
           \/ link_lost(l0, e0) \/ link_renewed(l0, e0),
           NEW l \in Loops, NEW e \in Ends, NEW n \in Numbers, NEW k \in Connections, k = <<l, e, n>>,
           Agrees(l, e, n, k)
    PROVE  Agrees(l, e, n, k)'
  <1>0. /\ UNCHANGED relayVars
        /\ PP!InFlight(k)' = PP!InFlight(k) /\ Standing(k)' = Standing(k) /\ PP!InFlight(k) \subseteq sent
        /\ link \in [Loops -> [Ends -> {"connecting", "up", "closing"}]] /\ flight \in [Ends -> SUBSET Requests]
        /\ socket[l0][e0] \in Nat /\ n \in Nat
    <2>1. UNCHANGED relayVars
      BY DEF connection_made, link_made, link_refused, link_lost, link_renewed
    <2>2. PP!InFlight(k)' = PP!InFlight(k) /\ Standing(k)' = Standing(k)
      BY <2>1, RelaysKept
    <2>3. PP!InFlight(k) \subseteq sent
      BY DEF PP!RelayInv, PP!OnePlace
    <2>4. socket[l0][e0] \in Nat /\ n \in Nat
      BY BoundAssumption DEF SocketsOK, Numbers
    <2> QED BY <2>1, <2>2, <2>3, <2>4 DEF FlightInv, TypeInv, TypeOK
  <1>1. CASE ~(l = l0 /\ e = e0)
    <2>1. /\ \E x : link' = [link EXCEPT ![l0][e0] = x]
          /\ \E x : socket' = [socket EXCEPT ![l0][e0] = x]
          /\ \E x : established' = [established EXCEPT ![l0][e0] = x]
      <3>1. link = [link EXCEPT ![l0][e0] = link[l0][e0]]
        BY <1>0
      <3>2. socket = [socket EXCEPT ![l0][e0] = socket[l0][e0]]
        BY DEF SocketsOK
      <3>3. established = [established EXCEPT ![l0][e0] = established[l0][e0]]
        OBVIOUS
      <3> QED BY <3>1, <3>2, <3>3
              DEF connection_made, link_made, c_after_connect_to_a_agent, link_refused, c_after_connect_to_a_agent_fail,
                  link_lost, c_read_from_provide_agents_eof, link_renewed, reconnection_to_agent, netVars, vars, linkVars
    <2>2. /\ backlog' \in {backlog, backlog \cup {Current(l0, e0)}}
          /\ flight' \in {flight, [flight EXCEPT ![e0] = @ \ OnLink(l0, e0)]}
      BY DEF connection_made, link_made, c_after_connect_to_a_agent, link_refused, c_after_connect_to_a_agent_fail,
             link_lost, c_read_from_provide_agents_eof, link_renewed, reconnection_to_agent, netVars, vars
    <2> QED BY <1>0, <1>1, <2>1, <2>2, OtherLink, FollowsAgrees
  <1>2. CASE l = l0 /\ e = e0
    <2>1. k = Current(l, e) <=> n = socket[l][e]
      BY DEF Current
    <2> HIDE DEF Current
    <2>2. CASE connection_made(l0, e0)
      <3>1. /\ link[l][e] = "connecting" /\ ~established[l][e] /\ established'[l][e]
            /\ backlog' = backlog \cup {Current(l, e)} /\ UNCHANGED <<link, socket, flight>>
        BY <1>2, <2>2 DEF connection_made, vars, linkVars
      <3>2. OnLink(l, e)' = OnLink(l, e)
        BY <3>1 DEF OnLink
      <3>3. CASE n = socket[l][e]
        <4>1. tcp_conn_1[k] = "absent" /\ tcp_conn_1' = tcp_conn_1 /\ gone1' = gone1 /\ sent' = sent
          BY <1>0, <3>1, <3>3 DEF Agrees
        <4>2. ~(n > socket'[l][e]) /\ link'[l][e] = "connecting" /\ established'[l][e]
          BY <1>0, <1>2, <3>1, <3>3
        <4>3. PP!InFlight(k) = {} /\ OnLink(l, e) \cap sent = {} /\ ~gone1[k]
          BY <3>1, <3>3 DEF Agrees
        <4> QED BY <1>0, <3>1, <3>2, <3>3, <4>1, <4>2, <4>3 DEF Agrees
      <3>4. CASE n # socket[l][e]
        <4>1. (k \in backlog' <=> k \in backlog) /\ tcp_conn_1' = tcp_conn_1 /\ gone1' = gone1 /\ sent' = sent
          BY <1>0, <2>1, <3>1, <3>4
        <4> QED BY <1>0, <1>2, <3>1, <3>2, <3>4, <4>1 DEF Agrees
      <3> QED BY <3>3, <3>4
    <2>3. CASE link_made(l0, e0)
      <3>1. /\ link[l][e] = "connecting" /\ established[l][e] /\ link'[l][e] = "up"
            /\ UNCHANGED <<socket, established, backlog, flight>>
        BY <1>0, <1>2, <2>3 DEF link_made, c_after_connect_to_a_agent, netVars
      <3>2. OnLink(l, e)' = OnLink(l, e)
        BY <3>1 DEF OnLink
      <3> QED BY <1>0, <1>2, <3>1, <3>2 DEF Agrees
    <2>4. CASE link_refused(l0, e0)
      <3>1. /\ link[l][e] = "connecting" /\ flight' = [flight EXCEPT ![e] = @ \ OnLink(l, e)]
            /\ UNCHANGED <<link, socket, established, backlog>>
        BY <1>2, <2>4 DEF link_refused, c_after_connect_to_a_agent_fail, netVars, linkVars
      <3>2. OnLink(l, e)' = {}
        BY <1>0, <3>1 DEF OnLink
      <3> QED BY <1>0, <1>2, <3>1, <3>2 DEF Agrees
    <2>5. CASE link_lost(l0, e0)
      <3>1. /\ link'[l][e] = "closing" /\ flight' = [flight EXCEPT ![e] = @ \ OnLink(l, e)]
            /\ UNCHANGED <<socket, established, backlog>>
        BY <1>0, <1>2, <2>5 DEF link_lost, c_read_from_provide_agents_eof, netVars
      <3>2. OnLink(l, e)' = {}
        BY <1>0, <3>1 DEF OnLink
      <3> QED BY <1>0, <1>2, <3>1, <3>2 DEF Agrees
    <2>6. CASE link_renewed(l0, e0)
      <3>1. /\ link[l][e] = "closing" /\ link'[l][e] = "connecting"
            /\ socket'[l][e] = socket[l][e] + 1 /\ ~established'[l][e] /\ UNCHANGED <<flight, backlog>>
        BY <1>0, <1>2, <2>6 DEF link_renewed, reconnection_to_agent, SocketsOK
      <3>2. OnLink(l, e)' = OnLink(l, e)
        BY <3>1 DEF OnLink
      <3>3. OnLink(l, e) \cap sent = {}
        BY <3>1 DEF Agrees
      <3>4. n > socket'[l][e] \/ n = socket'[l][e] => n > socket[l][e]
        BY <1>0, <1>2, <3>1
      <3>5. PP!InFlight(k) \cap OnLink(l, e) = {}
        BY <1>0, <3>3
      <3> QED BY <1>0, <3>1, <3>2, <3>3, <3>4, <3>5 DEF Agrees
    <2> QED BY <2>2, <2>3, <2>4, <2>5, <2>6
  <1> QED BY <1>1, <1>2

\* The provider agent accepts: nothing has been delivered on the connection.
LEMMA RelayAgrees ==
    ASSUME PP!RelayInv, NEW k0 \in Connections, relay_made(k0),
           NEW l \in Loops, NEW e \in Ends, NEW n, NEW k \in Connections, Agrees(l, e, n, k)
    PROVE  Agrees(l, e, n, k)'
  <1>1. /\ k0 \in backlog /\ backlog' = backlog \ {k0} /\ UNCHANGED <<link, flight, socket, established, sent>>
        /\ UNCHANGED <<up, atDubbo, results, down>>
        /\ tcp_conn_1' = [tcp_conn_1 EXCEPT ![k0] = "accepted"]
        /\ gone1' = [gone1 EXCEPT ![k0] = FALSE] /\ gone2' = [gone2 EXCEPT ![k0] = FALSE]
        /\ full1' = [full1 EXCEPT ![k0] = FALSE] /\ full2' = [full2 EXCEPT ![k0] = FALSE]
    BY DEF relay_made, P!p_on_new_connection, vars, linkVars
  <1>2. PP!TypeOK
    BY DEF PP!RelayInv
  <1>3. OnLink(l, e)' = OnLink(l, e) /\ PP!InFlight(k)' = PP!InFlight(k)
    BY <1>1 DEF OnLink, PP!InFlight, PP!Resulted
  <1>4. CASE k = k0
    <2>1. ~gone1'[k]
      BY <1>1, <1>2, <1>4 DEF PP!TypeOK
    <2> QED BY <1>1, <1>3, <1>4, <2>1 DEF Agrees
  <1>5. CASE k # k0
    <2>1. /\ tcp_conn_1'[k] = tcp_conn_1[k] /\ gone1'[k] = gone1[k] /\ gone2'[k] = gone2[k]
          /\ full1'[k] = full1[k] /\ full2'[k] = full2[k]
      BY <1>1, <1>2, <1>5 DEF PP!TypeOK
    <2>2. Standing(k)' = Standing(k)
      BY <2>1 DEF Standing, P!Broken
    <2>3. Follows(l, e, n, k)
      BY <1>1, <1>3, <1>5, <2>1, <2>2 DEF Follows
    <2> QED BY <2>3, FollowsAgrees
  <1> QED BY <1>4, <1>5

\* A request that arrives at its relay was on its way to it.
LEMMA DeliversAgrees ==
    ASSUME FlightInv, SocketsOK, PP!RelayInv,
           NEW l0 \in Loops, NEW e0 \in Ends, NEW i \in OnLink(l0, e0), link_delivers(l0, e0, i),
           NEW l \in Loops, NEW e \in Ends, NEW n \in Numbers, NEW k \in Connections, k = <<l, e, n>>,
           Agrees(l, e, n, k)
    PROVE  Agrees(l, e, n, k)'
  <1>1. PICK k0 \in Connections : k0 = Current(l0, e0)
    BY CurrentType
  <1>2. k = k0 <=> l = l0 /\ e = e0 /\ n = socket[l0][e0]
    BY <1>1 DEF Current
  <1>3. /\ link[l0][e0] = "up" /\ P!consumer_sends(k0, i)
        /\ UNCHANGED <<link, flight, socket, established, backlog>>
    BY <1>1 DEF link_delivers, vars, linkVars, netVars
  <1>4. /\ tcp_conn_1[k0] \in {"accepted", "reading"} /\ sent' = sent \cup {i}
        /\ UNCHANGED <<tcp_conn_1, gone1, gone2, full1, full2>>
    BY <1>3 DEF P!consumer_sends
  <1>5. i \in flight[e0] /\ i.loop = l0 /\ i \in Requests
    BY DEF OnLink, FlightInv, TypeInv, TypeOK
  <1>6. PP!Others(k0) /\ PP!InFlight(k0)' = PP!InFlight(k0) \cup {i}
    <2>1. PP!consumer_sends(k0, i)
      BY <1>3 DEF P!consumer_sends, PP!consumer_sends, P!running, PP!running, PP!connVars
    <2>2. PP!Others(k0) /\ PP!Sends(k0, i)
      BY <1>5, <2>1, RelayAssumption, PP!SendsEffect DEF PP!RelayInv
    <2> QED BY <2>2 DEF PP!Sends
  <1>7. OnLink(l, e)' = OnLink(l, e) /\ Standing(k)' = Standing(k)
    BY <1>3, <1>4 DEF OnLink, Standing, P!Broken
  <1>8. n \in Nat /\ socket[l0][e0] \in Nat
    BY BoundAssumption DEF Numbers, SocketsOK
  <1>9. CASE k = k0
    BY <1>2, <1>3, <1>4, <1>6, <1>7, <1>8, <1>9 DEF Agrees
  <1>10. CASE k # k0
    <2>1. PP!InFlight(k)' = PP!InFlight(k)
      BY <1>6, <1>10, RelayAssumption, PP!OthersKept
    <2>2. CASE l = l0 /\ e = e0
      BY <1>2, <1>3, <1>4, <1>7, <1>10, <2>1, <2>2 DEF Agrees
    <2>3. CASE ~(l = l0 /\ e = e0)
      <3>1. i \notin OnLink(l, e)
        BY <1>5, <2>3 DEF OnLink, FlightInv
      <3>2. Follows(l, e, n, k)
        BY <1>3, <1>4, <1>7, <2>1, <3>1 DEF Follows
      <3> QED BY <3>2, FollowsAgrees
    <2> QED BY <2>2, <2>3
  <1> QED BY <1>9, <1>10

\* A loop's next id never goes back.
LEMMA IdsGrow ==
    ASSUME TypeInv, [Next]_vars, NEW l \in Loops PROVE req_id[l] \in Nat /\ req_id'[l] \in Nat /\ req_id[l] <= req_id'[l]
  <1> USE DEF serverVars
  <1>0. req_id \in [Loops -> Nat] /\ EVENT_LOOP_NUM \in Nat
    BY LoopsAssumption DEF TypeInv, TypeOK
  <1>1. ASSUME NEW c \in Conns, c_read_connection_data(c) PROVE req_id'[l] \in Nat /\ req_id[l] <= req_id'[l]
    <2>1. req_id' = [req_id EXCEPT ![tcp_server[c]] = req_id[tcp_server[c]] + EVENT_LOOP_NUM]
      BY <1>1 DEF c_read_connection_data, NextReqId
    <2>2. tcp_server[c] \in Loops
      BY DEF TypeInv, TypeOK
    <2> QED BY <1>0, <2>1, <2>2
  <1>2. ASSUME NEW c \in Conns, ConnStep(c), ~c_read_connection_data(c) PROVE UNCHANGED req_id
    BY <1>2 DEF ConnStep, on_new_connection, init_http_req_t, on_new_connection_refused,
         c_dummy_read_connection_data, c_read_connection_data_close, close_cb
  <1>3. ASSUME NEW k \in Loops, NEW e \in Ends, LinkStep(k, e) PROVE UNCHANGED req_id
    BY <1>3 DEF LinkStep, c_after_connect_to_a_agent, c_after_connect_to_a_agent_fail,
                c_read_from_provide_agents_eof, c_read_from_provide_agents_error, reconnection_to_agent
  <1>4. ASSUME NEW e \in Ends, NEW r \in flight[e], c_read_from_provide_agents(e, r) \/ provider_drops(e, r)
        PROVE  UNCHANGED req_id
    BY <1>4 DEF c_read_from_provide_agents, provider_drops
  <1>5. WallClock \/ UNCHANGED vars => UNCHANGED req_id
    BY DEF WallClock, vars
  <1>6. UNCHANGED req_id => req_id'[l] \in Nat /\ req_id[l] <= req_id'[l]
    BY <1>0
  <1> QED BY <1>0, <1>1, <1>2, <1>3, <1>4, <1>5, <1>6 DEF Next

\* Only what the consumer agent has written is delivered.
LEMMA SentGrows == MNext => sent' = sent \/ \E e \in Ends : \E i \in flight[e] : sent' = sent \cup {i}
  <1> SUFFICES ASSUME MNext PROVE sent' = sent \/ \E e \in Ends : \E i \in flight[e] : sent' = sent \cup {i}
    OBVIOUS
  <1>1. CASE ConsumerAlone
    BY <1>1 DEF ConsumerAlone
  <1>2. ASSUME NEW l \in Loops, NEW e \in Ends,
               \/ connection_made(l, e) \/ link_made(l, e) \/ link_refused(l, e)
               \/ link_lost(l, e) \/ link_renewed(l, e)
        PROVE  sent' = sent
    BY <1>2 DEF connection_made, link_made, link_refused, link_lost, link_renewed
  <1>3. ASSUME NEW l \in Loops, NEW e \in Ends, NEW i \in OnLink(l, e), link_delivers(l, e, i)
        PROVE  i \in flight[e] /\ sent' = sent \cup {i}
    BY <1>3 DEF link_delivers, P!consumer_sends, OnLink
  <1>4. ASSUME NEW k \in Connections, relay_made(k) \/ Alone(RelayStep(k) \/ PeerStep(k)) PROVE sent' = sent
    BY <1>4 DEF relay_made, P!p_on_new_connection, Alone, RelayStep, PeerStep, response_passed,
         P!p_on_duboo_connect, P!p_on_duboo_connect_fail, P!p_alloc_buffer1,
         P!p_read_connection_data_close, P!p_on_read_results_close, P!p_close_tcp_relay_connection1,
         P!p_close_tcp_relay_connection2, P!consumer_closes, P!dubbo_closes, P!p_read_connection_data_http_req,
         P!dubbo_answers, P!p_on_read_results
  <1>5. ASSUME NEW k \in Connections, NEW m, response_dropped(k, m) PROVE sent' = sent
    BY <1>5 DEF response_dropped, P!p_on_read_results
  <1>6. ASSUME NEW e \in Ends, NEW r \in flight[e], response_read(e, r) PROVE sent' = sent
    BY <1>6 DEF response_read, P!consumer_reads
  <1> QED BY <1>1, <1>2, <1>3, <1>4, <1>5, <1>6 DEF MNext

\* Every step of the mesh keeps SentInv.
LEMMA SentStep == ASSUME SentInv, FlightInv, PP!RelayInv, [MNext]_mvars PROVE SentInv'
  <1>1. sent' = sent \/ \E e \in Ends : \E i \in flight[e] : sent' = sent \cup {i}
    BY SentGrows DEF mvars
  <1>2. [Next]_vars
    BY ConsumerSees DEF mvars
  <1>3. ASSUME NEW r \in sent' PROVE r.id < req_id'[r.loop]
    <2>1. r \in Requests /\ r.id < req_id[r.loop]
      BY <1>1 DEF SentInv, FlightInv, TypeInv, TypeOK, PP!RelayInv, PP!TypeOK
    <2>2. r.loop \in Loops /\ r.id \in Nat
      BY <2>1, IdIsNat DEF Requests
    <2>3. req_id[r.loop] \in Nat /\ req_id'[r.loop] \in Nat /\ req_id[r.loop] <= req_id'[r.loop]
      BY <2>2, <1>2, IdsGrow DEF FlightInv
    <2> QED BY <2>1, <2>2, <2>3
  <1> QED BY <1>3 DEF SentInv

\* A consumer agent that runs has been running.
LEMMA RunningBefore == ASSUME [MNext]_mvars, running' PROVE running
  <1>1. CASE UNCHANGED vars
    BY <1>1 DEF vars, procVars
  <1>2. CASE Next
    BY <1>2 DEF Next, LinkStep, c_after_connect_to_a_agent, c_after_connect_to_a_agent_fail,
         c_read_from_provide_agents_eof, reconnection_to_agent, c_read_from_provide_agents_error,
         ConnStep, on_new_connection, on_new_connection_refused, c_dummy_read_connection_data,
         c_read_connection_data, c_read_connection_data_close, close_cb, c_read_from_provide_agents,
         provider_drops, WallClock
  <1> QED BY <1>1, <1>2, ConsumerSees DEF mvars

Established == established \in [Loops -> [Ends -> BOOLEAN]]

\* Every step of the mesh keeps the two ends in agreement.
LEMMA AgreeStep ==
    ASSUME FlightInv, SentInv, SocketsOK, Established, PP!RelayInv, AllAgree, [MNext]_mvars PROVE AllAgree'
  <1> SUFFICES ASSUME running', NEW l \in Loops, NEW e \in Ends, NEW n \in Numbers
               PROVE  Agrees(l, e, n, <<l, e, n>>)'
    BY DEF AllAgree
  <1>0. running
    BY RunningBefore
  <1>1. PICK k \in Connections : k = <<l, e, n>> /\ k[2] = e
    <2>1. <<l, e, n>> \in Connections
      BY DEF Connections, Numbers
    <2>2. <<l, e, n>>[2] = e
      OBVIOUS
    <2> QED BY <2>1, <2>2
  <1>2. Agrees(l, e, n, k)
    BY <1>0, <1>1 DEF AllAgree
  <1>3. ASSUME NEW k0 \in Connections PROVE ~gone1[k0]
    <2>1. PICK l0 \in Loops, e0 \in Ends, n0 \in Numbers : k0 = <<l0, e0, n0>>
      BY DEF Connections, Numbers
    <2> QED BY <1>0, <2>1 DEF AllAgree, Agrees
  <1>4. ASSUME Follows(l, e, n, k) PROVE Agrees(l, e, n, k)'
    BY <1>2, <1>4, FollowsAgrees
  <1>5. CASE UNCHANGED mvars
    <2>1. UNCHANGED <<relayVars, netVars, link, flight>>
      BY <1>5 DEF mvars, vars, linkVars
    <2>2. OnLink(l, e)' = OnLink(l, e) /\ PP!InFlight(k)' = PP!InFlight(k) /\ Standing(k)' = Standing(k)
      BY <2>1, RelaysKept DEF OnLink
    <2>3. Follows(l, e, n, k)
      BY <2>1, <2>2 DEF Follows, netVars
    <2> QED BY <1>1, <1>4, <2>3
  <1>6. CASE MNext
    <2>1. ConsumerAlone => Agrees(l, e, n, k)'
      BY <1>4, ConsumerFollows
    <2>2. ASSUME NEW l0 \in Loops, NEW e0 \in Ends,
                 \/ connection_made(l0, e0) \/ link_made(l0, e0) \/ link_refused(l0, e0)
                 \/ link_lost(l0, e0) \/ link_renewed(l0, e0)
          PROVE  Agrees(l, e, n, k)'
      BY <1>1, <1>2, <2>2, LinkAgrees DEF Established
    <2>3. ASSUME NEW l0 \in Loops, NEW e0 \in Ends, NEW i \in OnLink(l0, e0), link_delivers(l0, e0, i)
          PROVE  Agrees(l, e, n, k)'
      BY <1>1, <1>2, <2>3, DeliversAgrees
    <2>4. ASSUME NEW k0 \in Connections, relay_made(k0) PROVE Agrees(l, e, n, k)'
      BY <1>2, <2>4, RelayAgrees
    <2>5. ASSUME NEW k0 \in Connections, Alone(RelayStep(k0) \/ PeerStep(k0)) PROVE Agrees(l, e, n, k)'
      BY <1>0, <1>1, <1>3, <1>4, <2>5, AloneFollows
    <2>6. ASSUME NEW k0 \in Connections, NEW m \in results[k0], response_dropped(k0, m) PROVE Agrees(l, e, n, k)'
      BY <1>1, <1>4, <2>6, AnswerFollows
    <2>7. ASSUME NEW e0 \in Ends, NEW i \in flight[e0], response_read(e0, i) PROVE Agrees(l, e, n, k)'
      BY <1>1, <1>4, <2>7, AnswerFollows
    <2>8. Agrees(l, e, n, k)'
      BY <1>6, <2>1, <2>2, <2>3, <2>4, <2>5, <2>6, <2>7 DEF MNext
    <2> QED BY <1>1, <2>8
  <1> QED BY <1>5, <1>6

LEMMA EstablishedStep == Established /\ [MNext]_mvars => Established'
  <1> SUFFICES ASSUME Established, [MNext]_mvars PROVE Established'
    OBVIOUS
  <1>1. ASSUME NEW l \in Loops, NEW e \in Ends, connection_made(l, e) \/ link_renewed(l, e) PROVE Established'
    <2>1. PICK b \in BOOLEAN : established' = [established EXCEPT ![l][e] = b]
      BY <1>1 DEF connection_made, link_renewed
    <2> QED BY <2>1 DEF Established
  <1>2. CASE ~\E l \in Loops, e \in Ends : connection_made(l, e) \/ link_renewed(l, e)
    <2>1. UNCHANGED established
      BY <1>2 DEF MNext, mvars, netVars, ConsumerAlone, link_made, link_refused, link_lost,
                  link_delivers, relay_made, Alone, response_dropped, response_read
    <2> QED BY <2>1 DEF Established
  <1> QED BY <1>1, <1>2

\* As long as the consumer agent runs, the two ends of a link that is up agree on
\* what is on it, although they learn of connections and their ends at different
\* moments and the relay of an earlier connection may still be closing: nothing is at
\* the relay that the consumer agent does not wait for on that link, nothing
\* delivered has got lost while the relay stands, and no earlier relay holds any of
\* it.
THEOREM LinksAgree == MSpec => []LinkAgreement
  <1> DEFINE Inv == FlightInv /\ SentInv /\ SocketsOK /\ Established /\ AllAgree
  <1>1. MInit => Inv
    <2> SUFFICES ASSUME MInit PROVE Inv
      OBVIOUS
    <2>1. FlightInv /\ SocketsOK
      BY FlightInit, SocketsInit DEF MInit
    <2>2. SentInv /\ Established
      BY DEF MInit, P!Init, SentInv, Established
    <2>3. ASSUME NEW l \in Loops, NEW e \in Ends, NEW n \in Numbers PROVE Agrees(l, e, n, <<l, e, n>>)
      <3>1. PICK k \in Connections : k = <<l, e, n>>
        BY DEF Connections, Numbers
      <3>2. link[l][e] = "connecting" /\ OnLink(l, e) = {} /\ backlog = {}
        BY DEF MInit, Init, start_work_event_loop, OnLink
      <3>3. tcp_conn_1[k] = "absent" /\ ~gone1[k]
        BY DEF MInit, P!Init
      <3>4. PP!InFlight(k) = {}
        BY DEF MInit, P!Init, PP!InFlight, PP!Resulted
      <3>5. Agrees(l, e, n, k)
        BY <3>2, <3>3, <3>4 DEF Agrees
      <3> QED BY <3>1, <3>5
    <2> QED BY <2>1, <2>2, <2>3 DEF AllAgree
  <1>2. Inv /\ PP!RelayInv /\ [MNext]_mvars => Inv'
    <2> SUFFICES ASSUME Inv, PP!RelayInv, [MNext]_mvars PROVE Inv'
      OBVIOUS
    <2>1. FlightInv'
      BY FlightStep, ConsumerSees DEF mvars
    <2> QED BY <2>1, SentStep, SocketsStep, EstablishedStep, AgreeStep
  <1>3. Inv /\ PP!RelayInv => LinkAgreement
    <2> SUFFICES ASSUME Inv, PP!RelayInv, running, NEW l \in Loops, NEW e \in Ends
                 PROVE  /\ link[l][e] = "up" => P!InFlight(Current(l, e)) \subseteq OnLink(l, e)
                        /\ link[l][e] = "up" /\ Standing(Current(l, e)) =>
                             OnLink(l, e) \cap sent \subseteq P!InFlight(Current(l, e))
                        /\ \A n \in 0 .. MaxConnects - 1 :
                             link[l][e] # "up" \/ n # socket[l][e] => P!InFlight(<<l, e, n>>) \cap OnLink(l, e) = {}
      BY DEF LinkAgreement
    <2>1. socket[l][e] \in Numbers /\ Current(l, e) = <<l, e, socket[l][e]>>
      BY DEF SocketsOK, Numbers, Current
    <2>2. ASSUME NEW n \in Numbers PROVE Agrees(l, e, n, <<l, e, n>>) /\ PP!InFlight(<<l, e, n>>) \subseteq sent
      <3>1. <<l, e, n>> \in Connections
        BY DEF Connections, Numbers
      <3> QED BY <3>1 DEF AllAgree, PP!RelayInv, PP!OnePlace
    <2>3. Agrees(l, e, socket[l][e], Current(l, e))
      BY <2>1, <2>2
    <2>4. ASSUME NEW n \in Numbers, link[l][e] # "up" \/ n # socket[l][e]
          PROVE  PP!InFlight(<<l, e, n>>) \cap OnLink(l, e) = {}
      <3>1. PICK k : k = <<l, e, n>>
        OBVIOUS
      <3>2. Agrees(l, e, n, k) /\ PP!InFlight(k) \subseteq sent
        BY <2>2, <3>1
      <3>3. PP!InFlight(k) \cap OnLink(l, e) = {}
        BY <2>4, <3>2 DEF Agrees
      <3> QED BY <3>1, <3>3
    <2> QED BY <2>3, <2>4, SameInFlight DEF Agrees, Numbers
  <1> HIDE DEF Inv
  <1> QED BY <1>1, <1>2, <1>3, MeshRelayInvariant, PTL DEF MSpec
==============================================================================
