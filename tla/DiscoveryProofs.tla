--------------------------- MODULE DiscoveryProofs ---------------------------
(***************************************************************************)
(* Provider agents stay registered for any number of agents, addresses and *)
(* leases, and any times that leave the slack of SlackAssumption.          *)
(***************************************************************************)
EXTENDS Discovery, TLAPS

\* The period of the heartbeats is a number of ticks.
LEMMA PeriodIsNat == HeartbeatPeriod \in Nat
  BY TimesAssumption DEF HeartbeatPeriod

\* The lease that etcd hands out next is one it has not handed out before.
LEMMA FreshIsFresh ==
    ASSUME granted \subseteq Leases, granted # Leases
    PROVE  FreshLease \in Leases \ granted
  BY DEF FreshLease

\* The first state has the types.
LEMMA TypeInit == Init => TypeOK
  BY TimesAssumption, PeriodIsNat DEF Init, TypeOK, Due, Registered

\* A step of a provider agent keeps the types.
LEMMA ProviderTypes ==
    ASSUME TypeOK, NEW p \in Providers, ProviderStep(p) PROVE TypeOK'
  <1> USE TimesAssumption, PeriodIsNat DEF TypeOK, Due, Registered
  <1>1. CASE init_provider(p)  BY <1>1 DEF init_provider, etcdVars, consumerVars
  <1>2. CASE die(p)  BY <1>2 DEF die, consumer_exits, etcdVars, consumerVars
  <1>3. CASE etcd_grant(p)
    <2> USE <1>3 DEF etcd_grant, consumerVars
    <2>1. PICK a \in Addresses : addr' = [addr EXCEPT ![p] = a]  OBVIOUS
    <2>2. addr' \in [Providers -> Addresses \cup {NULL}]  BY <2>1
    <2>3. \A q \in Providers : Due(q)' => addr'[q] \in Addresses  BY <2>1
    <2>4. lease_id' \in [Providers -> Leases \cup {NULL}]  BY FreshIsFresh
    <2>5. granted' \subseteq Leases /\ ttl' \in [Leases -> 0 .. LEASE_TTL]  BY FreshIsFresh
    <2>6. failed' \in [Providers -> BOOLEAN]
      <3>1. failed' = failed \/ failed' = [failed EXCEPT ![p] = TRUE]  OBVIOUS
      <3> QED  BY <3>1, Zenon
    <2>7. timer' \in [Providers -> -Delay .. HeartbeatPeriod]  OBVIOUS
    <2> QED  BY <2>2, <2>3, <2>4, <2>5, <2>6, <2>7
  <1>4. CASE etcd_put(p)
    <2> USE <1>4 DEF etcd_put, consumerVars
    <2>1. key' \in [Addresses -> Leases \cup {NULL}]
      BY DEF LeaseKnown
    <2>2. failed' \in [Providers -> BOOLEAN]
      <3>1. failed' = failed \/ failed' = [failed EXCEPT ![p] = TRUE]  OBVIOUS
      <3> QED  BY <3>1, Zenon
    <2>3. timer' \in [Providers -> -Delay .. HeartbeatPeriod]  OBVIOUS
    <2> QED  BY <2>1, <2>2, <2>3
  <1>5. CASE etcd_keep_alive(p)
    <2> USE <1>5 DEF etcd_keep_alive, consumerVars
    <2>1. ttl' \in [Leases -> 0 .. LEASE_TTL]
      BY DEF LeaseKnown
    <2>2. failed' \in [Providers -> BOOLEAN]
      <3>1. failed' = failed \/ failed' = [failed EXCEPT ![p] = TRUE]  OBVIOUS
      <3> QED  BY <3>1, Zenon
    <2>3. timer' \in [Providers -> -Delay .. HeartbeatPeriod]  OBVIOUS
    <2> QED  BY <2>1, <2>2, <2>3
  <1>6. CASE p_on_duboo_connect_test_cb(p)
    BY <1>6 DEF p_on_duboo_connect_test_cb, etcdVars, consumerVars
  <1>7. CASE p_start_listen(p)  BY <1>7 DEF p_start_listen, etcdVars, consumerVars
  <1> QED  BY <1>1, <1>2, <1>3, <1>4, <1>5, <1>6, <1>7 DEF ProviderStep, on_resolved

\* So does the clock.
LEMMA TickTypes == ASSUME TypeOK, Tick PROVE TypeOK'
  <1> USE TimesAssumption, PeriodIsNat DEF TypeOK, Due, Registered, Tick, consumerVars
  <1>1. timer' \in [Providers -> -Delay .. HeartbeatPeriod]  OBVIOUS
  <1>2. ttl' \in [Leases -> 0 .. LEASE_TTL]  OBVIOUS
  <1>3. key' \in [Addresses -> Leases \cup {NULL}]  OBVIOUS
  <1> QED  BY <1>1, <1>2, <1>3

\* So does a step of the consumer agent.
LEMMA ConsumerTypes ==
    ASSUME TypeOK, init_consumer \/ \E a \in Addresses : connect_endpoint(a) PROVE TypeOK'
  <1> USE DEF TypeOK, Due, Registered, providerVars, etcdVars
  <1>1. CASE init_consumer
    <2>1. endpoints' \subseteq Addresses /\ linked' \subseteq endpoints'
      BY <1>1 DEF init_consumer, consumer_exits, Keys
    <2> QED  BY <1>1, <2>1 DEF init_consumer, consumer_exits
  <1>2. CASE \E a \in Addresses : connect_endpoint(a)
    <2>1. PICK a \in Addresses : connect_endpoint(a)  BY <1>2
    <2>2. linked' \subseteq endpoints'  BY <2>1 DEF connect_endpoint
    <2> QED  BY <2>1, <2>2 DEF connect_endpoint
  <1> QED  BY <1>1, <1>2

\* TypeOK is inductive.
LEMMA TypeStep == TypeOK /\ [Next]_vars => TypeOK'
  <1> SUFFICES ASSUME TypeOK, [Next]_vars PROVE TypeOK'  OBVIOUS
  <1>1. CASE UNCHANGED vars
    BY <1>1 DEF vars, providerVars, etcdVars, consumerVars, TypeOK, Due
  <1> QED  BY <1>1, ProviderTypes, TickTypes, ConsumerTypes DEF Next

\* The variables of the agents and of etcd keep their types in every behaviour of
\* the start-up code: timers stay within a period and no lease outlasts its term.
THEOREM TypeCorrect == Spec => []TypeOK
  BY TypeInit, TypeStep, PTL DEF Spec
------------------------------------------------------------------------------
\* The inductive invariant.
Inv == TypeOK /\ LeaseInv /\ LeaseHeld

\* No agent runs in the first state.
LEMMA InvInit == Init => Inv
  <1> SUFFICES ASSUME Init PROVE LeaseInv /\ LeaseHeld  BY TypeInit DEF Inv
  <1> QED  BY DEF Init, LeaseInv, LeasesApart, LeaseCovers, LeaseHeld, Due, Registered

\* A lease that covers the next call is alive, and was when the clock last moved.
LEMMA CoveredIsKnown ==
    ASSUME TypeOK, LeaseInv, NEW p \in Providers, Due(p), ~failed[p]
    PROVE  LeaseKnown(p) /\ (timer[p] > -Delay => ttl[lease_id[p]] > 1)
  <1> USE TimesAssumption, PeriodIsNat, SlackAssumption
  <1>1. lease_id[p] \in Leases /\ ttl[lease_id[p]] \in Nat /\ timer[p] \in Int /\ timer[p] >= -Delay
    BY DEF TypeOK, LeaseInv, LeaseCovers
  <1>2. CASE phase[p] = "granted"
    BY <1>1, <1>2 DEF LeaseInv, LeaseCovers, LeaseKnown
  <1>3. CASE phase[p] # "granted"
    <2>1. ttl[lease_id[p]] >= LEASE_TTL - Delay - HeartbeatPeriod + timer[p]
      BY <1>3 DEF LeaseInv, LeaseCovers
    <2> QED  BY <1>1, <2>1 DEF LeaseKnown
  <1> QED  BY <1>2, <1>3

\* A fresh lease and a free address disturb no agent that is registered.
LEMMA GrantKeeps ==
    ASSUME Inv, NEW p \in Providers, etcd_grant(p) PROVE LeaseInv' /\ LeaseHeld'
  <1> USE TimesAssumption, PeriodIsNat DEF Inv
  <1>1. PICK a \in Addresses : Free(a, p) /\ addr' = [addr EXCEPT ![p] = a]
    BY DEF etcd_grant
  <1>2. /\ phase' = [phase EXCEPT ![p] = "granted"]
        /\ timer' = [timer EXCEPT ![p] = 0]
        /\ key' = key
    BY DEF etcd_grant
  <1>3. \A q \in Providers \ {p} :
           /\ phase'[q] = phase[q] /\ addr'[q] = addr[q] /\ lease_id'[q] = lease_id[q]
           /\ timer'[q] = timer[q] /\ failed'[q] = failed[q]
    BY DEF etcd_grant, TypeOK
  <1>4. \A q \in Providers \ {p} : Due(q)' => Due(q) /\ addr[q] # a
    BY <1>1, <1>3 DEF Free, Due, Registered
  <1>5. addr'[p] = a /\ phase'[p] = "granted" /\ timer'[p] = 0
    BY <1>1, <1>2 DEF TypeOK
  <1>6. \/ /\ lease_id'[p] \in Leases \ granted
           /\ granted' = granted \cup {lease_id'[p]}
           /\ ttl' = [ttl EXCEPT ![lease_id'[p]] = LEASE_TTL]
        \/ lease_id'[p] = NULL /\ failed'[p] /\ granted' = granted /\ ttl' = ttl
    BY FreshIsFresh DEF etcd_grant, TypeOK
  <1>7. LeasesApart'
    <2>1. \A q \in Providers : lease_id'[q] # NULL => lease_id'[q] \in granted'
      BY <1>3, <1>6 DEF LeaseInv, LeasesApart
    <2>2. \A q \in Providers \ {p} : Due(q)' =>
             /\ addr'[q] # addr'[p]
             /\ lease_id'[q] # NULL => lease_id'[q] # lease_id'[p]
             /\ lease_id'[p] # NULL => lease_id'[q] # lease_id'[p]
      BY <1>3, <1>4, <1>5, <1>6, NullAssumption DEF LeaseInv, LeasesApart
    <2>3. \A q, r \in Providers \ {p} : q # r /\ Due(q)' /\ Due(r)' =>
             addr'[q] # addr'[r] /\ (lease_id'[q] # NULL => lease_id'[q] # lease_id'[r])
      BY <1>3, <1>4 DEF LeaseInv, LeasesApart
    <2> QED  BY <2>1, <2>2, <2>3 DEF LeasesApart
  <1>8. LeaseCovers'
    <2> SUFFICES ASSUME NEW q \in Providers, Due(q)', ~failed'[q]
                 PROVE  /\ lease_id'[q] # NULL
                        /\ ttl'[lease_id'[q]] >= IF phase'[q] = "granted" THEN LEASE_TTL + timer'[q]
                               ELSE LEASE_TTL - Delay - HeartbeatPeriod + timer'[q]
      BY DEF LeaseCovers
    <2>1. CASE q = p
      BY <2>1, <1>5, <1>6, NullAssumption DEF TypeOK
    <2>2. CASE q # p
      <3>1. Due(q) /\ ~failed[q]  BY <2>2, <1>3, <1>4
      <3>2. lease_id[q] # NULL /\ lease_id[q] \in granted
        BY <3>1 DEF LeaseInv, LeasesApart, LeaseCovers
      <3>3. ttl'[lease_id'[q]] = ttl[lease_id[q]]
        BY <2>2, <3>2, <1>3, <1>6 DEF TypeOK
      <3> QED  BY <2>2, <3>1, <3>2, <3>3, <1>3 DEF LeaseInv, LeaseCovers
    <2> QED  BY <2>1, <2>2
  <1>9. LeaseHeld'
    <2> SUFFICES ASSUME NEW q \in Providers, phase'[q] \in Registered, ~failed'[q]
                 PROVE  LeaseKnown(q)' /\ key'[addr'[q]] = lease_id'[q]
      BY DEF LeaseHeld
    <2>1. q # p  BY <1>5 DEF Registered
    <2>2. LeaseKnown(q) /\ key[addr[q]] = lease_id[q]
      BY <2>1, <1>3 DEF LeaseHeld
    <2>3. lease_id[q] \in granted
      BY <2>2, NullAssumption DEF LeaseInv, LeasesApart, LeaseKnown
    <2>4. ttl'[lease_id'[q]] = ttl[lease_id[q]]
      BY <2>1, <2>3, <1>3, <1>6 DEF TypeOK
    <2> QED  BY <2>1, <2>2, <2>4, <1>2, <1>3 DEF LeaseKnown
  <1> QED  BY <1>7, <1>8, <1>9 DEF LeaseInv

\* etcd_put replaces the key of an address that no other running agent has.
LEMMA PutKeeps ==
    ASSUME Inv, NEW p \in Providers, etcd_put(p) PROVE LeaseInv' /\ LeaseHeld'
  <1> USE TimesAssumption, PeriodIsNat DEF Inv
  <1>1. /\ addr' = addr /\ lease_id' = lease_id /\ granted' = granted /\ ttl' = ttl
        /\ phase[p] = "granted" /\ phase' = [phase EXCEPT ![p] = "probing"]
        /\ timer' = [timer EXCEPT ![p] = HeartbeatPeriod]
    BY DEF etcd_put
  <1>2. \A q \in Providers : Due(q)' <=> Due(q)
    BY <1>1 DEF Due, Registered, TypeOK
  <1>3. \A q \in Providers : ~failed'[q] => ~failed[q]
    BY DEF etcd_put, TypeOK
  <1>4. Due(p)  BY <1>1 DEF Due
  <1>5. LeasesApart'  BY <1>1, <1>2 DEF LeaseInv, LeasesApart
  <1>6. LeaseCovers'
    <2> SUFFICES ASSUME NEW q \in Providers, Due(q), ~failed[q]
                 PROVE  /\ lease_id[q] # NULL
                        /\ ttl[lease_id[q]] >= IF phase'[q] = "granted" THEN LEASE_TTL + timer'[q]
                               ELSE LEASE_TTL - Delay - HeartbeatPeriod + timer'[q]
      BY <1>1, <1>2, <1>3 DEF LeaseCovers
    <2>1. CASE q = p
      <3>1. lease_id[p] # NULL /\ ttl[lease_id[p]] >= LEASE_TTL + timer[p]
        BY <2>1, <1>1 DEF LeaseInv, LeaseCovers
      <3>2. timer[p] \in Int /\ timer[p] >= -Delay /\ ttl[lease_id[p]] \in Int
        BY <3>1 DEF TypeOK
      <3>3. phase'[p] = "probing" /\ timer'[p] = HeartbeatPeriod  BY <1>1 DEF TypeOK
      <3> QED  BY <2>1, <3>1, <3>2, <3>3
    <2>2. CASE q # p
      BY <2>2, <1>1 DEF LeaseInv, LeaseCovers, TypeOK
    <2> QED  BY <2>1, <2>2
  <1>7. LeaseHeld'
    <2> SUFFICES ASSUME NEW q \in Providers, phase'[q] \in Registered, ~failed'[q]
                 PROVE  LeaseKnown(q) /\ key'[addr[q]] = lease_id[q]
      BY <1>1 DEF LeaseHeld, LeaseKnown
    <2>1. CASE q = p
      <3>1. LeaseKnown(p)  BY <2>1, <1>3, <1>4, CoveredIsKnown
      <3>2. addr[p] \in Addresses  BY <1>4 DEF TypeOK
      <3>3. key' = [key EXCEPT ![addr[p]] = lease_id[p]]
        BY <2>1, <3>1 DEF etcd_put, TypeOK
      <3> QED  BY <2>1, <3>1, <3>2, <3>3 DEF TypeOK
    <2>2. CASE q # p
      <3>1. phase[q] \in Registered /\ ~failed[q]  BY <2>2, <1>1, <1>3 DEF TypeOK
      <3>2. LeaseKnown(q) /\ key[addr[q]] = lease_id[q]  BY <3>1 DEF LeaseHeld
      <3>3. addr[q] # addr[p]
        BY <2>2, <3>1, <1>4 DEF LeaseInv, LeasesApart, Due
      <3>4. key'[addr[q]] = key[addr[q]]
        BY <3>1, <3>3 DEF etcd_put, TypeOK, Due
      <3> QED  BY <3>2, <3>4
    <2> QED  BY <2>1, <2>2
  <1> QED  BY <1>5, <1>6, <1>7 DEF LeaseInv

\* A heartbeat gives an agent's own lease its full term again.
LEMMA KeepAliveKeeps ==
    ASSUME Inv, NEW p \in Providers, etcd_keep_alive(p) PROVE LeaseInv' /\ LeaseHeld'
  <1> USE TimesAssumption, PeriodIsNat DEF Inv
  <1>1. /\ addr' = addr /\ lease_id' = lease_id /\ granted' = granted /\ key' = key /\ phase' = phase
        /\ phase[p] \in Registered /\ timer' = [timer EXCEPT ![p] = HeartbeatPeriod]
    BY DEF etcd_keep_alive
  <1>2. \A q \in Providers : ~failed'[q] => ~failed[q]
    BY DEF etcd_keep_alive, TypeOK
  <1>3. \A id \in Leases : ttl'[id] \in Nat /\ ttl[id] \in Nat /\ ttl'[id] >= ttl[id]
    BY DEF etcd_keep_alive, LeaseKnown, TypeOK
  <1>4. ~failed'[p] => ttl'[lease_id[p]] = LEASE_TTL
    <2> SUFFICES ASSUME ~failed'[p] PROVE ttl'[lease_id[p]] = LEASE_TTL  OBVIOUS
    <2>1. LeaseKnown(p)  BY <1>1, <1>2 DEF LeaseHeld
    <2>2. ttl' = [ttl EXCEPT ![lease_id[p]] = LEASE_TTL]
      BY <2>1 DEF etcd_keep_alive, TypeOK
    <2> QED  BY <2>1, <2>2 DEF LeaseKnown, TypeOK
  <1>5. LeasesApart'  BY <1>1 DEF LeaseInv, LeasesApart, Due
  <1>6. LeaseCovers'
    <2> SUFFICES ASSUME NEW q \in Providers, Due(q), ~failed'[q]
                 PROVE  /\ lease_id[q] # NULL
                        /\ ttl'[lease_id[q]] >= IF phase[q] = "granted" THEN LEASE_TTL + timer'[q]
                               ELSE LEASE_TTL - Delay - HeartbeatPeriod + timer'[q]
      BY <1>1 DEF LeaseCovers, Due
    <2>1. lease_id[q] # NULL /\ lease_id[q] \in Leases
      BY <1>2 DEF LeaseInv, LeaseCovers, TypeOK
    <2>2. CASE q = p
      <3>1. phase[p] # "granted" /\ timer'[p] = HeartbeatPeriod
        BY <1>1 DEF Registered, TypeOK
      <3> QED  BY <2>1, <2>2, <3>1, <1>4
    <2>3. CASE q # p
      <3>1. timer'[q] = timer[q] /\ timer[q] \in Int  BY <2>3, <1>1 DEF TypeOK
      <3>2. ttl[lease_id[q]] >= IF phase[q] = "granted" THEN LEASE_TTL + timer[q]
                                ELSE LEASE_TTL - Delay - HeartbeatPeriod + timer[q]
        BY <1>2 DEF LeaseInv, LeaseCovers
      <3> QED  BY <2>1, <3>1, <3>2, <1>3
    <2> QED  BY <2>2, <2>3
  <1>7. LeaseHeld'
    <2> SUFFICES ASSUME NEW q \in Providers, phase[q] \in Registered, ~failed'[q]
                 PROVE  LeaseKnown(q)' /\ key[addr[q]] = lease_id[q]
      BY <1>1 DEF LeaseHeld
    <2>1. LeaseKnown(q) /\ key[addr[q]] = lease_id[q]  BY <1>2 DEF LeaseHeld
    <2> QED  BY <2>1, <1>1, <1>3 DEF LeaseKnown
  <1> QED  BY <1>5, <1>6, <1>7 DEF LeaseInv

\* Every lease that covers the next call outlives a tick.
LEMMA TickKeeps == ASSUME Inv, Tick PROVE LeaseInv' /\ LeaseHeld'
  <1> USE TimesAssumption, PeriodIsNat DEF Inv
  <1>1. phase' = phase /\ addr' = addr /\ lease_id' = lease_id /\ failed' = failed /\ granted' = granted
    BY DEF Tick
  <1>2. \A q \in Providers : Due(q)' <=> Due(q)  BY <1>1 DEF Due
  <1>3. ASSUME NEW q \in Providers, Due(q), ~failed[q]
        PROVE  /\ lease_id[q] \in Leases /\ ttl[lease_id[q]] \in Nat
               /\ ttl'[lease_id[q]] = ttl[lease_id[q]] - 1 /\ ttl'[lease_id[q]] > 0
               /\ timer'[q] = timer[q] - 1 /\ timer[q] \in Int
    <2>1. timer[q] > -Delay  BY <1>3 DEF Tick
    <2>2. LeaseKnown(q) /\ ttl[lease_id[q]] > 1  BY <1>3, <2>1, CoveredIsKnown
    <2> QED  BY <1>3, <2>2 DEF Tick, LeaseKnown, TypeOK
  <1>4. LeasesApart'  BY <1>1, <1>2 DEF LeaseInv, LeasesApart
  <1>5. LeaseCovers'
    <2> SUFFICES ASSUME NEW q \in Providers, Due(q), ~failed[q]
                 PROVE  /\ lease_id[q] # NULL
                        /\ ttl'[lease_id[q]] >= IF phase[q] = "granted" THEN LEASE_TTL + timer'[q]
                               ELSE LEASE_TTL - Delay - HeartbeatPeriod + timer'[q]
      BY <1>1, <1>2 DEF LeaseCovers
    <2>1. /\ lease_id[q] # NULL
          /\ ttl[lease_id[q]] >= IF phase[q] = "granted" THEN LEASE_TTL + timer[q]
                                 ELSE LEASE_TTL - Delay - HeartbeatPeriod + timer[q]
      BY DEF LeaseInv, LeaseCovers
    <2> QED  BY <2>1, <1>3
  <1>6. LeaseHeld'
    <2> SUFFICES ASSUME NEW q \in Providers, phase[q] \in Registered, ~failed[q]
                 PROVE  LeaseKnown(q)' /\ key'[addr[q]] = lease_id[q]
      BY <1>1 DEF LeaseHeld
    <2>1. Due(q) /\ addr[q] \in Addresses  BY DEF Due, TypeOK
    <2>2. key[addr[q]] = lease_id[q]  BY DEF LeaseHeld
    <2>3. LeaseKnown(q)'  BY <2>1, <1>1, <1>3 DEF LeaseKnown
    <2>4. key'[addr[q]] = lease_id[q]
      BY <2>1, <2>2, <1>3 DEF Tick
    <2> QED  BY <2>3, <2>4
  <1> QED  BY <1>4, <1>5, <1>6 DEF LeaseInv

\* A step that leaves etcd and the leases of the agents that are registered alone.
LEMMA QuietKeeps ==
    ASSUME Inv, UNCHANGED etcdVars,
           \A q \in Providers : Due(q)' =>
               /\ Due(q) /\ (phase'[q] = "granted" <=> phase[q] = "granted")
               /\ addr'[q] = addr[q] /\ lease_id'[q] = lease_id[q]
               /\ timer'[q] = timer[q] /\ failed'[q] = failed[q],
           \A q \in Providers : lease_id'[q] \in {lease_id[q], NULL}
    PROVE  LeaseInv' /\ LeaseHeld'
  <1> USE DEF Inv, etcdVars
  <1>1. LeasesApart'  BY DEF LeaseInv, LeasesApart
  <1>2. LeaseCovers'  BY DEF LeaseInv, LeaseCovers
  <1>3. LeaseHeld'
    <2> SUFFICES ASSUME NEW q \in Providers, phase'[q] \in Registered, ~failed'[q]
                 PROVE  LeaseKnown(q)' /\ key'[addr'[q]] = lease_id'[q]
      BY DEF LeaseHeld
    <2>1. Due(q)' /\ phase'[q] # "granted"  BY DEF Due, Registered
    <2>2. phase[q] \in Registered /\ ~failed[q]  BY <2>1 DEF Due
    <2> QED  BY <2>1, <2>2 DEF LeaseHeld, LeaseKnown
  <1> QED  BY <1>1, <1>2, <1>3 DEF LeaseInv

\* The invariant is inductive.
LEMMA InvStep == Inv /\ [Next]_vars => Inv'
  <1> SUFFICES ASSUME Inv, [Next]_vars PROVE LeaseInv' /\ LeaseHeld'
    BY TypeStep DEF Inv
  <1>0. TypeOK  BY DEF Inv
  <1>1. ASSUME NEW p \in Providers, ProviderStep(p) PROVE LeaseInv' /\ LeaseHeld'
    <2>1. CASE init_provider(p)
      BY <1>0, <2>1, QuietKeeps DEF init_provider, Due, Registered, TypeOK
    <2>2. CASE die(p)
      BY <1>0, <2>2, QuietKeeps DEF die, Due, Registered, TypeOK
    <2>3. CASE p_on_duboo_connect_test_cb(p)
      BY <1>0, <2>3, QuietKeeps DEF p_on_duboo_connect_test_cb, Due, Registered, TypeOK
    <2>4. CASE p_start_listen(p)
      BY <1>0, <2>4, QuietKeeps DEF p_start_listen, Due, Registered, TypeOK
    <2> QED
      BY <1>1, <2>1, <2>2, <2>3, <2>4, GrantKeeps, PutKeeps, KeepAliveKeeps DEF ProviderStep, on_resolved
  <1>2. ASSUME UNCHANGED <<providerVars, etcdVars>> PROVE LeaseInv' /\ LeaseHeld'
    BY <1>2, QuietKeeps DEF providerVars, Due
  <1>3. CASE init_consumer  BY <1>2, <1>3 DEF init_consumer
  <1>4. CASE \E a \in Addresses : connect_endpoint(a)  BY <1>2, <1>4 DEF connect_endpoint
  <1>5. CASE UNCHANGED vars  BY <1>2, <1>5 DEF vars
  <1> QED  BY <1>1, <1>3, <1>4, <1>5, TickKeeps DEF Next

\* A provider agent none of whose calls to etcd has failed stays registered under
\* its own, living lease (keep_alive_thread_work), for any number of agents that
\* come, go and take over addresses, if a period and twice the delay are less
\* than the lease's term.
THEOREM LeaseHolds == Spec => []LeaseHeld
  <1>1. Inv => LeaseHeld  BY DEF Inv
  <1> QED  BY <1>1, InvInit, InvStep, PTL DEF Spec
==============================================================================
