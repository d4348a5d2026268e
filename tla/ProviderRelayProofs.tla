------------------------- MODULE ProviderRelayProofs -------------------------
(***************************************************************************)
(* What the relays guarantee for any number of relays and requests, with   *)
(* peers that go away at any time: requests stay apart (OnePlace), the two *)
(* connections of a relay stay together (Paired), nothing is lost while    *)
(* they stand, and the relays implement ProviderService.                   *)
(***************************************************************************)
EXTENDS ProviderRelay, TLAPS

\* The relay a step is about is the only one it touches.
LEMMA TypeStep == TypeOK /\ [Next]_vars => TypeOK'
<1> SUFFICES ASSUME TypeOK, [Next]_vars PROVE TypeOK'
  OBVIOUS
<1> USE DEF TypeOK
<1>1. ASSUME NEW r \in Relays, p_on_new_connection(r) PROVE TypeOK'
  BY <1>1 DEF p_on_new_connection, dataVars
<1>2. ASSUME NEW r \in Relays, p_on_duboo_connect(r) PROVE TypeOK'
  BY <1>2 DEF p_on_duboo_connect, dataVars
<1>3. ASSUME NEW r \in Relays, p_on_duboo_connect_fail(r) PROVE TypeOK'
  BY <1>3 DEF p_on_duboo_connect_fail, connVars, dataVars
<1>4. ASSUME NEW r \in Relays, p_read_connection_data_close(r) PROVE TypeOK'
  BY <1>4 DEF p_read_connection_data_close, CloseConnection1
<1>5. ASSUME NEW r \in Relays, p_on_read_results_close(r) PROVE TypeOK'
  BY <1>5 DEF p_on_read_results_close, CloseConnection1
<1>6. ASSUME NEW r \in Relays, p_close_tcp_relay_connection1(r) PROVE TypeOK'
  BY <1>6 DEF p_close_tcp_relay_connection1
<1>7. ASSUME NEW r \in Relays, p_close_tcp_relay_connection2(r) PROVE TypeOK'
  BY <1>7 DEF p_close_tcp_relay_connection2, dataVars
<1>8. ASSUME NEW r \in Relays, NEW i \in up[r], p_read_connection_data_http_req(r, i) PROVE TypeOK'
  BY <1>8 DEF p_read_connection_data_http_req, connVars
<1>9. ASSUME NEW r \in Relays, NEW m \in results[r], p_on_read_results(r, m) PROVE TypeOK'
  BY <1>9 DEF p_on_read_results, connVars, Results
<1>10. ASSUME NEW r \in Relays, consumer_closes(r) PROVE TypeOK'
  BY <1>10 DEF consumer_closes
<1>11. ASSUME NEW r \in Relays, dubbo_closes(r) PROVE TypeOK'
  BY <1>11 DEF dubbo_closes
<1>12. ASSUME NEW r \in Relays, NEW i \in RequestIds, consumer_sends(r, i) PROVE TypeOK'
  BY <1>12 DEF consumer_sends, connVars
<1>13. ASSUME NEW r \in Relays, NEW i \in atDubbo[r], NEW s \in Status, dubbo_answers(r, i, s) PROVE TypeOK'
  BY <1>13 DEF dubbo_answers, connVars, Results
<1>14. ASSUME NEW r \in Relays, NEW i \in down[r], consumer_reads(r, i) PROVE TypeOK'
  BY <1>14 DEF consumer_reads, connVars
<1>16. ASSUME NEW r \in Relays, p_alloc_buffer1(r) PROVE TypeOK'
  BY <1>16 DEF p_alloc_buffer1, dataVars
<1>17. ASSUME NEW r \in Relays, p_alloc_buffer2(r) PROVE TypeOK'
  BY <1>17 DEF p_alloc_buffer2, dataVars
<1>15. CASE UNCHANGED vars
  BY <1>15 DEF vars, connVars, dataVars
<1> QED
  BY <1>1, <1>2, <1>3, <1>4, <1>5, <1>6, <1>7, <1>8, <1>9, <1>10, <1>11, <1>12, <1>13, <1>14, <1>15, <1>16, <1>17
  DEF Next, RelayStep, PeerStep

\* The relays' variables keep their types.
THEOREM TypeCorrect == Spec => []TypeOK
<1>1. Init => TypeOK
  BY DEF Init, TypeOK
<1> QED BY <1>1, TypeStep, PTL DEF Spec
------------------------------------------------------------------------------
(* OnePlace *)

\* A step of relay r leaves the requests of every other relay where they are.
Others(r) ==
    \A q \in Relays \ {r} :
        up'[q] = up[q] /\ atDubbo'[q] = atDubbo[q] /\ results'[q] = results[q] /\ down'[q] = down[q]

LEMMA OthersKept ==
    ASSUME NEW r \in Relays, Others(r), NEW q \in Relays \ {r}
    PROVE  Apart(q)' = Apart(q) /\ InFlight(q)' = InFlight(q)
<1>1. up'[q] = up[q] /\ atDubbo'[q] = atDubbo[q] /\ results'[q] = results[q] /\ down'[q] = down[q]
  BY DEF Others
<1>2. Resulted(q)' = Resulted(q)
  BY <1>1 DEF Resulted
<1>3. InFlight(q)' = InFlight(q)
  BY <1>1, <1>2 DEF InFlight
<1>4. Apart(q)' = Apart(q)
  BY <1>1, <1>2, Zenon DEF Apart
<1> QED BY <1>3, <1>4

\* It is enough to look at the relay that takes the step.
LEMMA OnePlaceLocal ==
    ASSUME OnePlace, NEW r \in Relays, Others(r), Apart(r)',
           sent \subseteq sent', answered' \subseteq answered \cup InFlight(r),
           InFlight(r)' \subseteq (InFlight(r) \cup (sent' \ sent)) \ answered',
           InFlight(r)' \subseteq sent'
    PROVE  OnePlace'
<1> DEFINE F == InFlight(r)  G == InFlight(r)'
<1>1. answered \subseteq sent /\ F \subseteq sent
  BY DEF OnePlace
<1>2. (answered \subseteq sent)'
  BY <1>1
<1>3. ASSUME NEW q \in Relays \ {r}
      PROVE  /\ Apart(q)' /\ InFlight(q)' = InFlight(q)
             /\ InFlight(q) \subseteq sent' \ answered'
             /\ InFlight(q) \cap G = {}
  <2>1. Apart(q) /\ InFlight(q) \subseteq sent \ answered /\ InFlight(q) \cap F = {}
    BY DEF OnePlace
  <2>2. Apart(q)' /\ InFlight(q)' = InFlight(q)
    BY <2>1, OthersKept
  <2> HIDE DEF F, G
  <2>3. answered' \subseteq answered \cup F /\ G \subseteq F \cup (sent' \ sent)
    BY DEF F, G
  <2> QED BY <2>1, <2>2, <2>3
<1>4. ASSUME NEW q \in Relays PROVE (Apart(q) /\ InFlight(q) \subseteq sent \ answered)'
  <2>1. CASE q = r
    BY <2>1
  <2>2. CASE q # r
    BY <2>2, <1>3
  <2> QED BY <2>1, <2>2
<1>5. ASSUME NEW p \in Relays, NEW q \in Relays, p # q PROVE (InFlight(p) \cap InFlight(q) = {})'
  <2>1. CASE p = r
    BY <2>1, <1>3, <1>5
  <2>2. CASE q = r
    BY <2>2, <1>3, <1>5
  <2>3. CASE p # r /\ q # r
    BY <2>3, <1>3, <1>5 DEF OnePlace
  <2> QED BY <2>1, <2>2, <2>3
<1> QED BY <1>2, <1>4, <1>5 DEF OnePlace

\* A step that only takes requests away from relay r.
LEMMA OnePlaceShrinks ==
    ASSUME OnePlace, NEW r \in Relays, Others(r), sent' = sent, answered' = answered,
           up'[r] \subseteq up[r], atDubbo'[r] \subseteq atDubbo[r],
           results'[r] \subseteq results[r], down'[r] \subseteq down[r]
    PROVE  OnePlace' /\ InFlight(r)' \subseteq InFlight(r)
<1>1. Apart(r) /\ InFlight(r) \subseteq sent \ answered
  BY DEF OnePlace
<1>2. Resulted(r)' \subseteq Resulted(r)
  BY DEF Resulted
<1>3. InFlight(r)' \subseteq InFlight(r)
  BY <1>2 DEF InFlight
<1>4. Apart(r)'
  BY <1>1, <1>2 DEF Apart
<1>5. InFlight(r)' \subseteq sent' /\ InFlight(r)' \subseteq (InFlight(r) \cup (sent' \ sent)) \ answered'
  BY <1>1, <1>3
<1> QED BY <1>3, <1>4, <1>5, OnePlaceLocal

\* The three things a step can do to the requests in flight on its relay.
Shrinks(r) == sent' = sent /\ answered' = answered /\ InFlight(r)' \subseteq InFlight(r)
Sends(r, i) ==
    /\ i \notin sent /\ sent' = sent \cup {i} /\ answered' = answered
    /\ InFlight(r)' = InFlight(r) \cup {i}
Answers(r, i) ==
    /\ i \in InFlight(r) /\ sent' = sent /\ answered' = answered \cup {i}
    /\ InFlight(r)' = InFlight(r) \ {i}

Effect(r) == Shrinks(r) \/ (\E i \in RequestIds : Sends(r, i) \/ Answers(r, i))

LEMMA SendsEffect ==
    ASSUME TypeOK, OnePlace, NEW r \in Relays, NEW i \in RequestIds, consumer_sends(r, i)
    PROVE  OnePlace' /\ Others(r) /\ Sends(r, i)
<1>1. /\ i \notin sent /\ sent' = sent \cup {i} /\ answered' = answered
      /\ up'[r] = up[r] \cup {i} /\ atDubbo'[r] = atDubbo[r]
      /\ results'[r] = results[r] /\ down'[r] = down[r]
  BY DEF consumer_sends, TypeOK
<1>2. Others(r)
  BY DEF consumer_sends, TypeOK, Others
<1>3. Apart(r) /\ InFlight(r) \subseteq sent \ answered /\ answered \subseteq sent
  BY DEF OnePlace
<1>4. Resulted(r)' = Resulted(r)
  BY <1>1 DEF Resulted
<1>5. InFlight(r)' = InFlight(r) \cup {i}
  BY <1>1, <1>4 DEF InFlight
<1>6. i \notin InFlight(r)
  BY <1>1, <1>3
<1>7. Apart(r)'
  <2>1. i \notin atDubbo[r] \cup Resulted(r) \cup down[r]
    BY <1>6 DEF InFlight
  <2> QED BY <2>1, <1>1, <1>3, <1>4, Zenon DEF Apart
<1>8. OnePlace'
  BY <1>1, <1>2, <1>3, <1>5, <1>7, OnePlaceLocal
<1> QED BY <1>1, <1>2, <1>5, <1>8 DEF Sends

LEMMA AnswersEffect ==
    ASSUME TypeOK, OnePlace, NEW r \in Relays, NEW i \in down[r], consumer_reads(r, i)
    PROVE  OnePlace' /\ Others(r) /\ Answers(r, i)
<1>1. /\ sent' = sent /\ answered' = answered \cup {i}
      /\ up'[r] = up[r] /\ atDubbo'[r] = atDubbo[r]
      /\ results'[r] = results[r] /\ down'[r] = down[r] \ {i}
  BY DEF consumer_reads, TypeOK
<1>2. Others(r)
  BY DEF consumer_reads, TypeOK, Others
<1>3. Apart(r) /\ InFlight(r) \subseteq sent \ answered /\ answered \subseteq sent
  BY DEF OnePlace
<1>4. Resulted(r)' = Resulted(r)
  BY <1>1 DEF Resulted
<1>5. i \in InFlight(r) /\ InFlight(r)' = InFlight(r) \ {i}
  BY <1>1, <1>3, <1>4 DEF InFlight, Apart
<1>6. Apart(r)'
  BY <1>1, <1>3, <1>4 DEF Apart
<1>7. OnePlace'
  BY <1>1, <1>2, <1>3, <1>5, <1>6, OnePlaceLocal
<1> QED BY <1>1, <1>2, <1>5, <1>7 DEF Answers

LEMMA ForwardEffect ==
    ASSUME TypeOK, OnePlace, NEW r \in Relays, NEW i \in up[r], p_read_connection_data_http_req(r, i)
    PROVE  OnePlace' /\ Others(r) /\ Shrinks(r)
<1>1. /\ sent' = sent /\ answered' = answered
      /\ up'[r] = up[r] \ {i} /\ atDubbo'[r] \in {atDubbo[r], atDubbo[r] \cup {i}}
      /\ results'[r] = results[r] /\ down'[r] = down[r]
  BY DEF p_read_connection_data_http_req, TypeOK
<1>2. Others(r)
  BY DEF p_read_connection_data_http_req, TypeOK, Others
<1>3. Apart(r) /\ InFlight(r) \subseteq sent \ answered
  BY DEF OnePlace
<1>4. Resulted(r)' = Resulted(r)
  BY <1>1 DEF Resulted
<1>5. InFlight(r)' \subseteq InFlight(r)
  BY <1>1, <1>4 DEF InFlight
<1>6. Apart(r)'
  BY <1>1, <1>3, <1>4 DEF Apart
<1>7. OnePlace'
  BY <1>1, <1>2, <1>3, <1>5, <1>6, OnePlaceLocal
<1> QED BY <1>1, <1>2, <1>5, <1>7 DEF Shrinks

LEMMA DubboEffect ==
    ASSUME TypeOK, OnePlace, NEW r \in Relays, NEW i \in atDubbo[r], NEW s \in Status, dubbo_answers(r, i, s)
    PROVE  OnePlace' /\ Others(r) /\ Shrinks(r) /\ InFlight(r)' = InFlight(r)
<1>1. /\ sent' = sent /\ answered' = answered
      /\ up'[r] = up[r] /\ atDubbo'[r] = atDubbo[r] \ {i}
      /\ results'[r] = results[r] \cup {[id |-> i, status |-> s]} /\ down'[r] = down[r]
  BY DEF dubbo_answers, TypeOK
<1>2. Others(r)
  BY DEF dubbo_answers, TypeOK, Others
<1>3. Apart(r) /\ InFlight(r) \subseteq sent \ answered
  BY DEF OnePlace
<1>4. Resulted(r)' = Resulted(r) \cup {i}
  <2> DEFINE n == [id |-> i, status |-> s]
  <2>1. n.id = i
    OBVIOUS
  <2>2. results'[r] = results[r] \cup {n}
    BY <1>1
  <2> HIDE DEF n
  <2> QED BY <2>1, <2>2 DEF Resulted
<1>5. InFlight(r)' = InFlight(r)
  BY <1>1, <1>4 DEF InFlight
<1>6. Apart(r)'
  <2>1. i \notin up[r] /\ i \notin Resulted(r) /\ i \notin down[r]
    BY <1>3 DEF Apart
  <2>2. \A m \in results[r] : m.id # i
    BY <2>1 DEF Resulted
  <2>3. \A m, n \in results'[r] : m.id = n.id => m = n
    BY <1>1, <1>3, <2>2 DEF Apart
  <2> QED BY <1>1, <1>3, <1>4, <2>1, <2>3 DEF Apart
<1>7. OnePlace'
  BY <1>1, <1>2, <1>3, <1>5, <1>6, OnePlaceLocal
<1> QED BY <1>1, <1>2, <1>5, <1>7 DEF Shrinks

LEMMA ResultEffect ==
    ASSUME TypeOK, OnePlace, NEW r \in Relays, NEW m \in results[r], p_on_read_results(r, m)
    PROVE  OnePlace' /\ Others(r) /\ Shrinks(r)
<1>1. /\ sent' = sent /\ answered' = answered
      /\ up'[r] = up[r] /\ atDubbo'[r] = atDubbo[r]
      /\ results'[r] = results[r] \ {m} /\ down'[r] \in {down[r], down[r] \cup {m.id}}
  BY DEF p_on_read_results, TypeOK
<1>2. Others(r)
  BY DEF p_on_read_results, TypeOK, Others
<1>3. Apart(r) /\ InFlight(r) \subseteq sent \ answered
  BY DEF OnePlace
<1>4. Resulted(r)' = Resulted(r) \ {m.id} /\ m.id \in Resulted(r)
  BY <1>1, <1>3 DEF Resulted, Apart
<1>5. InFlight(r)' \subseteq InFlight(r)
  BY <1>1, <1>4 DEF InFlight
<1>6. Apart(r)'
  BY <1>1, <1>3, <1>4 DEF Apart
<1>7. OnePlace'
  BY <1>1, <1>2, <1>3, <1>5, <1>6, OnePlaceLocal
<1> QED BY <1>1, <1>2, <1>5, <1>7 DEF Shrinks

\* A callback that opens or closes connections, or a peer that goes away, takes
\* requests away at most.
LifeStep(r) ==
    \/ p_on_new_connection(r) \/ p_on_duboo_connect(r) \/ p_on_duboo_connect_fail(r)
    \/ p_read_connection_data_close(r) \/ p_on_read_results_close(r)
    \/ p_close_tcp_relay_connection1(r) \/ p_close_tcp_relay_connection2(r)
    \/ consumer_closes(r) \/ dubbo_closes(r) \/ p_alloc_buffer1(r) \/ p_alloc_buffer2(r)

LEMMA LifeEffect ==
    ASSUME TypeOK, OnePlace, NEW r \in Relays, LifeStep(r)
    PROVE  OnePlace' /\ Others(r) /\ Shrinks(r)
<1> DEFINE Less == /\ Others(r) /\ sent' = sent /\ answered' = answered
                   /\ up'[r] \subseteq up[r] /\ atDubbo'[r] \subseteq atDubbo[r]
                   /\ results'[r] \subseteq results[r] /\ down'[r] \subseteq down[r]
<1> USE DEF TypeOK, Others
<1>1. ASSUME p_on_new_connection(r) \/ p_on_duboo_connect(r) \/ p_on_duboo_connect_fail(r) PROVE Less
  <2>1. Less
    BY <1>1 DEF p_on_new_connection, p_on_duboo_connect, p_on_duboo_connect_fail, dataVars
  <2> QED BY <2>1
<1>2. ASSUME p_read_connection_data_close(r) \/ p_on_read_results_close(r) PROVE Less
  <2>1. /\ up' = up \/ up' = [up EXCEPT ![r] = {}]
        /\ down' = down \/ \E S \in SUBSET down[r] : down' = [down EXCEPT ![r] = S]
    BY <1>2 DEF p_read_connection_data_close, p_on_read_results_close, CloseConnection1
  <2>2. atDubbo' = atDubbo /\ results' = results /\ sent' = sent /\ answered' = answered
    BY <1>2 DEF p_read_connection_data_close, p_on_read_results_close
  <2> QED BY <2>1, <2>2
<1>3. ASSUME p_close_tcp_relay_connection1(r) PROVE Less
  BY <1>3 DEF p_close_tcp_relay_connection1
<1>4. ASSUME p_close_tcp_relay_connection2(r) PROVE Less
  BY <1>4 DEF p_close_tcp_relay_connection2, dataVars
<1>5. ASSUME consumer_closes(r) PROVE Less
  BY <1>5 DEF consumer_closes
<1>6. ASSUME dubbo_closes(r) PROVE Less
  BY <1>6 DEF dubbo_closes
<1>9. ASSUME p_alloc_buffer1(r) \/ p_alloc_buffer2(r) PROVE Less
  BY <1>9 DEF p_alloc_buffer1, p_alloc_buffer2, dataVars
<1>7. Less
  BY <1>1, <1>2, <1>3, <1>4, <1>5, <1>6, <1>9 DEF LifeStep
<1>8. OnePlace' /\ InFlight(r)' \subseteq InFlight(r)
  BY <1>7, OnePlaceShrinks
<1> QED BY <1>7, <1>8 DEF Shrinks

LEMMA StepEffect ==
    ASSUME TypeOK, OnePlace, Next
    PROVE  OnePlace' /\ \E r \in Relays : Others(r) /\ Effect(r)
<1>1. PICK r \in Relays : RelayStep(r) \/ PeerStep(r)
  BY DEF Next
<1>2. CASE LifeStep(r)
  BY <1>2, LifeEffect DEF Effect
<1>3. ASSUME NEW i \in up[r], p_read_connection_data_http_req(r, i) PROVE OnePlace' /\ Others(r) /\ Effect(r)
  BY <1>3, ForwardEffect DEF Effect
<1>4. ASSUME NEW m \in results[r], p_on_read_results(r, m) PROVE OnePlace' /\ Others(r) /\ Effect(r)
  BY <1>4, ResultEffect DEF Effect
<1>5. ASSUME NEW i \in RequestIds, consumer_sends(r, i) PROVE OnePlace' /\ Others(r) /\ Effect(r)
  BY <1>5, SendsEffect DEF Effect
<1>6. ASSUME NEW i \in atDubbo[r], NEW s \in Status, dubbo_answers(r, i, s)
      PROVE  OnePlace' /\ Others(r) /\ Effect(r)
  BY <1>6, DubboEffect DEF Effect
<1>7. ASSUME NEW i \in down[r], consumer_reads(r, i) PROVE OnePlace' /\ Others(r) /\ Effect(r)
  <2>1. i \in RequestIds
    BY DEF TypeOK
  <2> QED BY <1>7, <2>1, AnswersEffect DEF Effect
<1> QED BY <1>1, <1>2, <1>3, <1>4, <1>5, <1>6, <1>7 DEF RelayStep, PeerStep, LifeStep

LEMMA OnePlaceUnchanged == ASSUME OnePlace, UNCHANGED vars PROVE OnePlace'
BY Zenon DEF vars, dataVars, OnePlace, Apart, InFlight, Resulted

LEMMA OnePlaceInit == Init => TypeOK /\ OnePlace
<1> SUFFICES ASSUME Init PROVE TypeOK /\ OnePlace
  OBVIOUS
<1>1. TypeOK
  BY DEF Init, TypeOK
<1>2. ASSUME NEW r \in Relays PROVE InFlight(r) = {} /\ Apart(r)
  <2>1. up[r] = {} /\ atDubbo[r] = {} /\ results[r] = {} /\ down[r] = {}
    BY DEF Init
  <2>2. Resulted(r) = {}
    BY <2>1 DEF Resulted
  <2> QED BY <2>1, <2>2 DEF InFlight, Apart
<1>3. OnePlace
  BY <1>2 DEF Init, OnePlace
<1> QED BY <1>1, <1>3

\* For any number of relays and requests, no request is ever at two places: none is
\* forwarded to Dubbo twice, none answered twice, none moved to another relay.
THEOREM OnePlaceHolds == Spec => []OnePlace
<1>1. Init => TypeOK /\ OnePlace
  BY OnePlaceInit
<1>2. TypeOK /\ OnePlace /\ [Next]_vars => OnePlace'
  BY StepEffect, OnePlaceUnchanged
<1> QED BY <1>1, <1>2, TypeCorrect, PTL DEF Spec
------------------------------------------------------------------------------
(* ProviderService *)

Flights == [r \in Relays |-> InFlight(r)]

\* Only the set of the relay that takes the step changes.
LEMMA FlightsMove ==
    ASSUME NEW r \in Relays, Others(r)
    PROVE  Flights' = [Flights EXCEPT ![r] = InFlight(r)']
<1>1. \A q \in Relays : q # r => InFlight(q)' = InFlight(q)
  BY OthersKept
<1>2. Flights' = [q \in Relays |-> InFlight(q)']
  BY DEF Flights
<1>3. [Flights EXCEPT ![r] = InFlight(r)'] = [q \in Relays |-> IF q = r THEN InFlight(r)' ELSE InFlight(q)]
  BY Zenon DEF Flights
<1>4. \A q \in Relays : InFlight(q)' = (IF q = r THEN InFlight(r)' ELSE InFlight(q))
  BY <1>1
<1> QED BY <1>2, <1>3, <1>4, Zenon

\* The relays implement the service that the consumer agent's model takes for
\* granted: whatever is answered on a link was sent on that link and is answered
\* once, although Dubbo answers in any order and connections break at any time.
THEOREM ImplementsService == Spec => ServiceRefined
<1>1. Init => Service!SInit
  <2> SUFFICES ASSUME Init PROVE Service!SInit
    OBVIOUS
  <2>1. ASSUME NEW r \in Relays PROVE InFlight(r) = {}
    <3>1. up[r] = {} /\ atDubbo[r] = {} /\ results[r] = {} /\ down[r] = {}
      BY DEF Init
    <3> QED BY <3>1 DEF InFlight, Resulted
  <2>2. [r \in Relays |-> InFlight(r)] = [r \in Relays |-> {}]
    BY <2>1
  <2> QED BY <2>2 DEF Init, Service!SInit
<1>2. TypeOK /\ OnePlace /\ [Next]_vars => [Service!SNext]_(Service!svars)
  <2> SUFFICES ASSUME TypeOK, OnePlace, [Next]_vars PROVE [Service!SNext]_(Service!svars)
    OBVIOUS
  <2>1. CASE Next
    <3>1. PICK r \in Relays : Others(r) /\ Effect(r)
      BY <2>1, StepEffect
    <3>2. Flights' = [Flights EXCEPT ![r] = InFlight(r)'] /\ Flights[r] = InFlight(r)
      BY <3>1, FlightsMove DEF Flights
    <3>3. InFlight(r) \subseteq RequestIds
      BY DEF OnePlace, TypeOK
    <3>4. CASE Shrinks(r)
      <4> DEFINE S == InFlight(r) \ InFlight(r)'
      <4>1. S \in SUBSET RequestIds /\ InFlight(r)' = InFlight(r) \ S
        BY <3>3, <3>4 DEF Shrinks
      <4>2. Service!Lose(r, S)
        <5>1. Flights' = [Flights EXCEPT ![r] = @ \ S]
          BY <3>2, <4>1
        <5> QED BY <5>1, <3>4 DEF Service!Lose, Flights, Shrinks
      <4> QED BY <4>1, <4>2 DEF Service!SNext
    <3>5. ASSUME NEW i \in RequestIds, Sends(r, i) PROVE Service!SNext
      <4>1. Flights' = [Flights EXCEPT ![r] = @ \cup {i}]
        BY <3>2, <3>5 DEF Sends
      <4>2. Service!Send(r, i)
        BY <4>1, <3>5 DEF Service!Send, Flights, Sends
      <4> QED BY <4>2 DEF Service!SNext
    <3>6. ASSUME NEW i \in RequestIds, Answers(r, i) PROVE Service!SNext
      <4>1. Flights' = [Flights EXCEPT ![r] = @ \ {i}] /\ i \in Flights[r]
        BY <3>2, <3>6 DEF Answers
      <4>2. Service!Answer(r, i)
        BY <4>1, <3>6 DEF Service!Answer, Flights, Answers
      <4> QED BY <4>2 DEF Service!SNext
    <3> QED BY <3>1, <3>4, <3>5, <3>6 DEF Effect
  <2>2. CASE UNCHANGED vars
    <3>1. Flights' = Flights
      BY <2>2, Zenon DEF Flights, InFlight, Resulted, vars, dataVars
    <3> QED BY <2>2, <3>1 DEF vars, Service!svars, Flights
  <2> QED BY <2>1, <2>2
<1> QED BY <1>1, <1>2, TypeCorrect, OnePlaceHolds, PTL DEF Spec, ServiceRefined, Service!SSpec
------------------------------------------------------------------------------
(* Paired *)

\* What a connection that is being closed has already given up.
Emptied ==
    \A r \in Relays :
        /\ tcp_conn_1[r] \in {"closing", "closed", "absent"} => up[r] = {}
        /\ tcp_conn_1[r] \in {"closed", "absent"} => atDubbo[r] = {} /\ results[r] = {}

Coupled ==
    \A r \in Relays :
        /\ tcp_conn_1[r] = "absent" <=> tcp_conn_2[r] = "none"
        /\ tcp_conn_1[r] = "accepted" <=> tcp_conn_2[r] = "connecting"
        /\ tcp_conn_1[r] = "closed" <=> tcp_conn_2[r] = "closing"
        /\ tcp_conn_2[r] = "ended" => tcp_conn_1[r] = "closing"

\* A connection is closed because a peer has gone or a buffer is full.
GoneCause == \A r \in Relays : tcp_conn_1[r] \in {"closing", "closed"} => Broken(r)

LEMMA CoupledStep ==
    ASSUME TypeOK, Coupled, Emptied, [Next]_vars
    PROVE  Coupled' /\ Emptied'
<1> USE DEF TypeOK, Coupled, Emptied
<1>1. ASSUME NEW r \in Relays, p_on_new_connection(r) PROVE Coupled' /\ Emptied'
  BY <1>1 DEF p_on_new_connection, dataVars
<1>2. ASSUME NEW r \in Relays, p_on_duboo_connect(r) PROVE Coupled' /\ Emptied'
  BY <1>2 DEF p_on_duboo_connect, dataVars
<1>3. ASSUME NEW r \in Relays, p_on_duboo_connect_fail(r) PROVE Coupled' /\ Emptied'
  BY <1>3 DEF p_on_duboo_connect_fail, connVars, dataVars
<1>4. ASSUME NEW r \in Relays, p_read_connection_data_close(r) PROVE Coupled' /\ Emptied'
  BY <1>4 DEF p_read_connection_data_close, CloseConnection1
<1>5. ASSUME NEW r \in Relays, p_on_read_results_close(r) PROVE Coupled' /\ Emptied'
  BY <1>5 DEF p_on_read_results_close, CloseConnection1
<1>6. ASSUME NEW r \in Relays, p_close_tcp_relay_connection1(r) PROVE Coupled' /\ Emptied'
  BY <1>6 DEF p_close_tcp_relay_connection1
<1>7. ASSUME NEW r \in Relays, p_close_tcp_relay_connection2(r) PROVE Coupled' /\ Emptied'
  BY <1>7 DEF p_close_tcp_relay_connection2, dataVars
<1>8. ASSUME NEW r \in Relays, NEW i \in up[r], p_read_connection_data_http_req(r, i) PROVE Coupled' /\ Emptied'
  BY <1>8 DEF p_read_connection_data_http_req, connVars
<1>9. ASSUME NEW r \in Relays, NEW m \in results[r], p_on_read_results(r, m) PROVE Coupled' /\ Emptied'
  BY <1>9 DEF p_on_read_results, connVars
<1>10. ASSUME NEW r \in Relays, consumer_closes(r) PROVE Coupled' /\ Emptied'
  BY <1>10 DEF consumer_closes
<1>11. ASSUME NEW r \in Relays, dubbo_closes(r) PROVE Coupled' /\ Emptied'
  BY <1>11 DEF dubbo_closes
<1>12. ASSUME NEW r \in Relays, NEW i \in RequestIds, consumer_sends(r, i) PROVE Coupled' /\ Emptied'
  BY <1>12 DEF consumer_sends, connVars
<1>13. ASSUME NEW r \in Relays, NEW i \in atDubbo[r], NEW s \in Status, dubbo_answers(r, i, s)
       PROVE  Coupled' /\ Emptied'
  BY <1>13 DEF dubbo_answers, connVars
<1>14. ASSUME NEW r \in Relays, NEW i \in down[r], consumer_reads(r, i) PROVE Coupled' /\ Emptied'
  BY <1>14 DEF consumer_reads, connVars
<1>16. ASSUME NEW r \in Relays, p_alloc_buffer1(r) PROVE Coupled' /\ Emptied'
  BY <1>16 DEF p_alloc_buffer1, dataVars
<1>17. ASSUME NEW r \in Relays, p_alloc_buffer2(r) PROVE Coupled' /\ Emptied'
  BY <1>17 DEF p_alloc_buffer2, dataVars
<1>15. CASE UNCHANGED vars
  BY <1>15 DEF vars, connVars, dataVars
<1> QED
  BY <1>1, <1>2, <1>3, <1>4, <1>5, <1>6, <1>7, <1>8, <1>9, <1>10, <1>11, <1>12, <1>13, <1>14, <1>15, <1>16, <1>17
  DEF Next, RelayStep, PeerStep

\* For any number of relays, the two connections of a relay come and go together
\* and a relay that was freed has left nothing behind but written responses.
THEOREM PairedHolds == Spec => []Paired
<1>1. Init => Coupled /\ Emptied
  BY DEF Init, Coupled, Emptied
<1>2. TypeOK /\ Coupled /\ Emptied /\ [Next]_vars => Coupled' /\ Emptied'
  BY CoupledStep
<1>3. Coupled /\ Emptied => Paired
  BY DEF Coupled, Emptied, Paired, InFlight, Resulted
<1> QED BY <1>1, <1>2, <1>3, TypeCorrect, PTL DEF Spec
------------------------------------------------------------------------------
(* Nothing is lost while both connections stand *)

LEMMA GoneCauseStep ==
    ASSUME TypeOK, GoneCause, [Next]_vars
    PROVE  GoneCause'
<1> USE DEF TypeOK, GoneCause, Broken
<1>1. ASSUME NEW r \in Relays, p_on_new_connection(r) PROVE GoneCause'
  BY <1>1 DEF p_on_new_connection, dataVars
<1>2. ASSUME NEW r \in Relays, p_on_duboo_connect(r) PROVE GoneCause'
  BY <1>2 DEF p_on_duboo_connect, dataVars
<1>3. ASSUME NEW r \in Relays, p_on_duboo_connect_fail(r) PROVE GoneCause'
  BY <1>3 DEF p_on_duboo_connect_fail, connVars, dataVars
<1>4. ASSUME NEW r \in Relays, p_read_connection_data_close(r) PROVE GoneCause'
  BY <1>4 DEF p_read_connection_data_close, CloseConnection1
<1>5. ASSUME NEW r \in Relays, p_on_read_results_close(r) PROVE GoneCause'
  BY <1>5 DEF p_on_read_results_close, CloseConnection1
<1>6. ASSUME NEW r \in Relays, p_close_tcp_relay_connection1(r) PROVE GoneCause'
  BY <1>6 DEF p_close_tcp_relay_connection1
<1>7. ASSUME NEW r \in Relays, p_close_tcp_relay_connection2(r) PROVE GoneCause'
  BY <1>7 DEF p_close_tcp_relay_connection2, dataVars
<1>8. ASSUME NEW r \in Relays, NEW i \in up[r], p_read_connection_data_http_req(r, i) PROVE GoneCause'
  BY <1>8 DEF p_read_connection_data_http_req, connVars
<1>9. ASSUME NEW r \in Relays, NEW m \in results[r], p_on_read_results(r, m) PROVE GoneCause'
  BY <1>9 DEF p_on_read_results, connVars
<1>10. ASSUME NEW r \in Relays, consumer_closes(r) PROVE GoneCause'
  BY <1>10 DEF consumer_closes
<1>11. ASSUME NEW r \in Relays, dubbo_closes(r) PROVE GoneCause'
  BY <1>11 DEF dubbo_closes
<1>12. ASSUME NEW r \in Relays, NEW i \in RequestIds, consumer_sends(r, i) PROVE GoneCause'
  BY <1>12 DEF consumer_sends, connVars
<1>13. ASSUME NEW r \in Relays, NEW i \in atDubbo[r], NEW s \in Status, dubbo_answers(r, i, s) PROVE GoneCause'
  BY <1>13 DEF dubbo_answers, connVars
<1>14. ASSUME NEW r \in Relays, NEW i \in down[r], consumer_reads(r, i) PROVE GoneCause'
  BY <1>14 DEF consumer_reads, connVars
<1>16. ASSUME NEW r \in Relays, p_alloc_buffer1(r) PROVE GoneCause'
  BY <1>16 DEF p_alloc_buffer1, dataVars
<1>17. ASSUME NEW r \in Relays, p_alloc_buffer2(r) PROVE GoneCause'
  BY <1>17 DEF p_alloc_buffer2, dataVars
<1>15. CASE UNCHANGED vars
  BY <1>15 DEF vars, connVars, dataVars
<1> QED
  BY <1>1, <1>2, <1>3, <1>4, <1>5, <1>6, <1>7, <1>8, <1>9, <1>10, <1>11, <1>12, <1>13, <1>14, <1>15, <1>16, <1>17
  DEF Next, RelayStep, PeerStep

Excused(r, i) ==
    \/ i \in answered'
    \/ Broken(r) \/ Broken(r)'
    \/ [id |-> i, status |-> "error"] \in results[r]

\* A step that takes a request away from its relay has a reason to.
LEMMA ExcusedStep ==
    ASSUME TypeOK, OnePlace, Coupled, GoneCause, Next,
           NEW r \in Relays, NEW i \in InFlight(r) \ InFlight(r)'
    PROVE  Excused(r, i)
<1> SUFFICES ASSUME ~(Broken(r) \/ Broken(r)')
             PROVE  i \in answered' \/ [id |-> i, status |-> "error"] \in results[r]
  BY DEF Excused
<1>1. PICK q \in Relays : RelayStep(q) \/ PeerStep(q)
  BY DEF Next
<1>2. ASSUME Others(q) PROVE q = r
  BY <1>2, OthersKept
<1>3. ASSUME up' = up, atDubbo' = atDubbo, results' = results, down' = down PROVE FALSE
  BY <1>3, Zenon DEF InFlight, Resulted
<1>4. tcp_conn_1[r] \notin {"closing", "closed"}
  BY DEF GoneCause
<1>5. ASSUME LifeStep(q) PROVE FALSE
  <2>1. q = r
    BY <1>2, <1>5, LifeEffect
  <2>2. CASE p_on_new_connection(r) \/ p_on_duboo_connect(r) \/ p_on_duboo_connect_fail(r)
    BY <2>2, <1>3 DEF p_on_new_connection, p_on_duboo_connect, p_on_duboo_connect_fail, dataVars
  <2>6. CASE p_alloc_buffer1(r) \/ p_alloc_buffer2(r)
    BY <2>6, <1>3 DEF p_alloc_buffer1, p_alloc_buffer2, dataVars
  <2>3. CASE p_read_connection_data_close(r) \/ p_on_read_results_close(r)
    BY <2>3 DEF p_read_connection_data_close, p_on_read_results_close, Broken
  <2>4. CASE p_close_tcp_relay_connection1(r) \/ p_close_tcp_relay_connection2(r)
    BY <2>4, <1>4 DEF p_close_tcp_relay_connection1, p_close_tcp_relay_connection2, Coupled
  <2>5. CASE consumer_closes(r) \/ dubbo_closes(r)
    BY <2>5 DEF consumer_closes, dubbo_closes, TypeOK, Broken
  <2> QED BY <1>5, <2>1, <2>2, <2>3, <2>4, <2>5, <2>6 DEF LifeStep
<1>6. ASSUME NEW j \in up[q], p_read_connection_data_http_req(q, j) PROVE FALSE
  <2>1. q = r
    BY <1>2, <1>6, ForwardEffect
  <2>2. /\ up'[r] = up[r] \ {j} /\ atDubbo'[r] = atDubbo[r] \cup {j}
        /\ results' = results /\ down' = down
    BY <1>6, <2>1 DEF p_read_connection_data_http_req, TypeOK, Broken
  <2> QED BY <2>2 DEF InFlight, Resulted
<1>7. ASSUME NEW m \in results[q], p_on_read_results(q, m) PROVE [id |-> i, status |-> "error"] \in results[r]
  <2>1. q = r
    BY <1>2, <1>7, ResultEffect
  <2>2. tcp_conn_1[r] = "reading"
    BY <1>4, <1>7, <2>1 DEF p_on_read_results, Coupled, TypeOK
  <2>3. /\ up' = up /\ atDubbo' = atDubbo
        /\ results'[r] = results[r] \ {m}
        /\ down'[r] = IF m.status = "ok" THEN down[r] \cup {m.id} ELSE down[r]
    BY <1>7, <2>1, <2>2 DEF p_on_read_results, TypeOK, Broken
  <2>4. \A n \in results[r] : n # m => n.id \in Resulted(r)'
    BY <2>3 DEF Resulted
  <2>5. i \in Resulted(r) /\ i \notin Resulted(r)'
    BY <2>3 DEF InFlight
  <2>6. i = m.id /\ m.status # "ok" /\ m.status # "long"
    BY <1>7, <2>3, <2>4, <2>5 DEF Resulted, InFlight, p_on_read_results
  <2>7. m \in Results
    BY <1>7, <2>1 DEF TypeOK
  <2>8. m = [id |-> i, status |-> "error"]
    BY <2>6, <2>7 DEF Results, Status
  <2> QED BY <1>7, <2>1, <2>8
<1>8. ASSUME NEW j \in RequestIds, consumer_sends(q, j) PROVE FALSE
  <2>1. q = r /\ Sends(r, j)
    BY <1>2, <1>8, SendsEffect
  <2> QED BY <2>1 DEF Sends
<1>9. ASSUME NEW j \in atDubbo[q], NEW s \in Status, dubbo_answers(q, j, s) PROVE FALSE
  <2>1. q = r /\ InFlight(q)' = InFlight(q)
    BY <1>2, <1>9, DubboEffect
  <2> QED BY <2>1
<1>10. ASSUME NEW j \in down[q], consumer_reads(q, j) PROVE i \in answered'
  <2>1. q = r /\ Answers(r, j)
    BY <1>2, <1>10, AnswersEffect
  <2> QED BY <2>1 DEF Answers
<1> QED BY <1>1, <1>5, <1>6, <1>7, <1>8, <1>9, <1>10 DEF RelayStep, PeerStep, LifeStep

\* As long as the peers of a relay stay and its buffers hold what they send, a
\* request leaves it only with its answer, or because Dubbo answered with a status
\* other than 20.
THEOREM NothingLost == Spec => LostOnlyWhenBroken
<1>1. Init => Coupled /\ Emptied /\ GoneCause
  BY DEF Init, Coupled, Emptied, GoneCause
<1>2. TypeOK /\ Coupled /\ Emptied /\ GoneCause /\ [Next]_vars => (Coupled /\ Emptied /\ GoneCause)'
  BY CoupledStep, GoneCauseStep
<1> DEFINE Reason == \A r \in Relays : \A i \in InFlight(r) \ InFlight(r)' :
          \/ i \in answered'
          \/ Broken(r) \/ Broken(r)'
          \/ [id |-> i, status |-> "error"] \in results[r]
<1>3. TypeOK /\ OnePlace /\ Coupled /\ GoneCause /\ [Next]_vars => [Reason]_vars
  BY ExcusedStep DEF Excused
<1> QED BY <1>1, <1>2, <1>3, TypeCorrect, OnePlaceHolds, PTL DEF Spec, LostOnlyWhenBroken
------------------------------------------------------------------------------
(* What the composition with the consumer agent uses *)

\* All of the above together: what another module may rely on.
RelayInv == TypeOK /\ OnePlace /\ Coupled /\ Emptied /\ GoneCause

\* The relays' invariants together.
THEOREM RelayInvariant == Spec => []RelayInv
<1>1. Init => Coupled /\ Emptied /\ GoneCause
  BY DEF Init, Coupled, Emptied, GoneCause
<1>2. TypeOK /\ Coupled /\ Emptied /\ GoneCause /\ [Next]_vars => (Coupled /\ Emptied /\ GoneCause)'
  BY CoupledStep, GoneCauseStep
<1> QED BY <1>1, <1>2, TypeCorrect, OnePlaceHolds, PTL DEF Spec, RelayInv

\* A response that is read is passed on to a consumer agent that is still there, and
\* otherwise gone.
LEMMA ResultExact ==
    ASSUME TypeOK, OnePlace, NEW r \in Relays, NEW m \in results[r], p_on_read_results(r, m)
    PROVE  /\ m.id \in InFlight(r)
           /\ InFlight(r)' = IF m.status = "ok" /\ tcp_conn_1[r] = "reading" /\ ~gone1[r]
                             THEN InFlight(r) ELSE InFlight(r) \ {m.id}
<1>1. /\ up'[r] = up[r] /\ atDubbo'[r] = atDubbo[r] /\ results'[r] = results[r] \ {m}
      /\ down'[r] = IF m.status = "ok" /\ tcp_conn_1[r] = "reading" /\ ~gone1[r]
                    THEN down[r] \cup {m.id} ELSE down[r]
  BY DEF p_on_read_results, TypeOK
<1>2. Apart(r)
  BY DEF OnePlace
<1>3. Resulted(r)' = Resulted(r) \ {m.id} /\ m.id \in Resulted(r)
  BY <1>1, <1>2 DEF Resulted, Apart
<1>4. m.id \notin up[r] \cup atDubbo[r] \cup down[r]
  BY <1>2, <1>3 DEF Apart
<1> QED BY <1>1, <1>3, <1>4 DEF InFlight
==============================================================================
