------------------------------ MODULE Discovery ------------------------------
(***************************************************************************)
(* How provider agents become known and a consumer agent finds them:       *)
(* start-up and registration in provider_agent.c, init_consumer in         *)
(* consumer_agent.c, and the client side of etcd in utils/etcd.c.          *)
(*                                                                         *)
(* A provider agent asks etcd for a lease, puts a key with its address     *)
(* under that lease, starts a thread that refreshes the lease, waits for   *)
(* Dubbo, and only then listens.  A consumer agent reads the keys once.    *)
(* Nobody looks at the result of a call to etcd except the consumer.       *)
(*                                                                         *)
(* Time is a step, Tick.  A process that has something due is at most      *)
(* Delay ticks late; a dead process owes nothing.  etcd itself is          *)
(* external: it drops the keys of a lease that runs out.                   *)
(***************************************************************************)
EXTENDS Integers, FiniteSets

CONSTANTS
    Providers,
    Addresses,          \* what the name of a provider can resolve to
    Leases,             \* bound: the leases etcd hands out, one per registration
    MaxConnects,        \* bound: the connections the consumer makes, repeated ones too
    NULL,
    LEASE_TTL,          \* P_DEFAULT_LEASE_TTL
    Margin, MinSleep,   \* the 10 and the 3 of keep_alive_thread_work
    Delay               \* how late a call to etcd can be

ASSUME TimesAssumption ==
    /\ LEASE_TTL \in Nat \ {0} /\ Margin \in Nat /\ MinSleep \in Nat /\ Delay \in Nat
ASSUME NullAssumption == NULL \notin Leases
ASSUME BoundAssumption == MaxConnects \in Nat

\* How long the heartbeat thread sleeps.
HeartbeatPeriod == IF LEASE_TTL - Margin > MinSleep THEN LEASE_TTL - Margin ELSE MinSleep

\* The lease outlives a late registration, a sleep and a late heartbeat.
ASSUME SlackAssumption == HeartbeatPeriod + 2 * Delay < LEASE_TTL

VARIABLES
    \* the provider agents
    phase,              \* phase[p]: "off", "resolving", "granted", "probing", "ready", "serving"
    addr,               \* addr[p]: the address its name has resolved to
    lease_id,           \* NULL if etcd_grant has found none
    timer,              \* ticks until its next call to etcd is due
    failed,             \* a call of p to etcd has failed since it started
    \* etcd
    granted,            \* the leases handed out
    ttl,                \* ttl[id]: what is left of lease id, 0 if it is over
    key,                \* key[a]: the lease that holds the key of address a
    \* the consumer agent
    consumer,           \* "off", "connecting", "listening" or "exited"
    endpoints,          \* raw_server_string: the addresses it has found
    linked,             \* the endpoints it is connected to
    endpoint_connection_count

providerVars == <<phase, addr, lease_id, timer, failed>>
etcdVars == <<granted, ttl, key>>
consumerVars == <<consumer, endpoints, linked, endpoint_connection_count>>
vars == <<providerVars, etcdVars, consumerVars>>

Registered == {"probing", "ready", "serving"}    \* etcd_put has been called

Init ==
    /\ phase = [p \in Providers |-> "off"]
    /\ addr = [p \in Providers |-> NULL]
    /\ lease_id = [p \in Providers |-> NULL]
    /\ timer = [p \in Providers |-> 0]
    /\ failed = [p \in Providers |-> FALSE]
    /\ granted = {}
    /\ ttl = [id \in Leases |-> 0]
    /\ key = [a \in Addresses |-> NULL]
    /\ consumer = "off"
    /\ endpoints = {} /\ linked = {}
    /\ endpoint_connection_count = 0
------------------------------------------------------------------------------
(* A provider agent *)

\* provider, init_provider: the resolver has been asked for the agent's own name.
init_provider(p) ==
    /\ phase[p] = "off"
    /\ granted # Leases
    /\ phase' = [phase EXCEPT ![p] = "resolving"]
    /\ UNCHANGED <<addr, lease_id, timer, failed, etcdVars, consumerVars>>

\* The consumer's process ends, and what it knew is gone.
consumer_exits ==
    /\ consumer' = "exited"
    /\ endpoints' = {} /\ linked' = {}
    /\ endpoint_connection_count' = 0

\* The process ends: exit, a crash, or somebody stops it.  Its lease goes on.  The
\* consumer's link to it is closed, to be made again, or it reads an error and exits
\* (c_read_from_provide_agents).
die(p) ==
    /\ phase[p] # "off"
    /\ phase' = [phase EXCEPT ![p] = "off"]
    /\ addr' = [addr EXCEPT ![p] = NULL]
    /\ lease_id' = [lease_id EXCEPT ![p] = NULL]
    /\ timer' = [timer EXCEPT ![p] = 0]
    /\ failed' = [failed EXCEPT ![p] = FALSE]
    /\ IF phase[p] = "serving" /\ addr[p] \in linked
       THEN \/ linked' = linked \ {addr[p]} /\ UNCHANGED <<consumer, endpoints, endpoint_connection_count>>
            \/ consumer_exits
       ELSE UNCHANGED consumerVars
    /\ UNCHANGED etcdVars

\* No other running agent has address a.
Free(a, p) == \A q \in Providers \ {p} : phase[q] \in {"off", "resolving"} \/ addr[q] # a

\* External: etcd never gives the same lease twice.
FreshLease == CHOOSE id \in Leases : id \notin granted

\* The first half of on_resolved: etcd_grant returns the ID it finds in etcd's
\* answer, or NULL, with which on_resolved goes on.
etcd_grant(p) ==
    /\ phase[p] = "resolving"
    /\ \E a \in Addresses : Free(a, p) /\ addr' = [addr EXCEPT ![p] = a]
    /\ \/ /\ granted # Leases
          /\ lease_id' = [lease_id EXCEPT ![p] = FreshLease]
          /\ granted' = granted \cup {FreshLease}
          /\ ttl' = [ttl EXCEPT ![FreshLease] = LEASE_TTL]
          /\ UNCHANGED failed
       \/ /\ lease_id' = [lease_id EXCEPT ![p] = NULL]
          /\ failed' = [failed EXCEPT ![p] = TRUE]
          /\ UNCHANGED <<granted, ttl>>
    /\ phase' = [phase EXCEPT ![p] = "granted"]
    /\ timer' = [timer EXCEPT ![p] = 0]
    /\ UNCHANGED <<key, consumerVars>>

\* etcd rejects the lease "(null)" and a lease that is over.
LeaseKnown(p) == lease_id[p] \in Leases /\ ttl[lease_id[p]] > 0

\* Mutant: the key is put without a lease.
etcd_put_NoLease(p) ==
    /\ phase[p] = "granted"
    /\ key' = [key EXCEPT ![addr[p]] = "no lease"]
    /\ phase' = [phase EXCEPT ![p] = "probing"]
    /\ timer' = [timer EXCEPT ![p] = HeartbeatPeriod]
    /\ UNCHANGED <<addr, lease_id, failed, granted, ttl, consumerVars>>

\* The second half of on_resolved: etcd_put, start_keep_alive_etcd and
\* test_dubbo_connection.
etcd_put(p) ==
    /\ phase[p] = "granted"
    /\ \/ /\ key' = IF LeaseKnown(p) THEN [key EXCEPT ![addr[p]] = lease_id[p]] ELSE key
          /\ UNCHANGED failed
       \/ /\ failed' = [failed EXCEPT ![p] = TRUE]
          /\ UNCHANGED key
    /\ phase' = [phase EXCEPT ![p] = "probing"]
    /\ timer' = [timer EXCEPT ![p] = HeartbeatPeriod]
    /\ UNCHANGED <<addr, lease_id, granted, ttl, consumerVars>>

\* The callback of the resolver: two steps, since etcd sees two calls.  If the name
\* is not resolved the process exits (die).
on_resolved(p) == etcd_grant(p) \/ etcd_put(p)

\* Mutant: the heartbeat names no lease that etcd knows.
etcd_keep_alive_Unknown(p) ==
    /\ phase[p] \in Registered
    /\ timer[p] <= 0
    /\ timer' = [timer EXCEPT ![p] = HeartbeatPeriod]
    /\ UNCHANGED <<phase, addr, lease_id, failed, etcdVars, consumerVars>>

\* keep_alive_thread_work after its sleep, and the next sleep.  A heartbeat that
\* does not arrive is not repeated before that.
etcd_keep_alive(p) ==
    /\ phase[p] \in Registered
    /\ timer[p] <= 0
    /\ \/ /\ ttl' = IF LeaseKnown(p) THEN [ttl EXCEPT ![lease_id[p]] = LEASE_TTL] ELSE ttl
          /\ UNCHANGED failed
       \/ /\ failed' = [failed EXCEPT ![p] = TRUE]
          /\ UNCHANGED ttl
    /\ timer' = [timer EXCEPT ![p] = HeartbeatPeriod]
    /\ UNCHANGED <<phase, addr, lease_id, granted, key, consumerVars>>

\* Mutant: the probe's handle is not closed, and the main loop does not end.
p_on_duboo_connect_test_cb_KeepsHandle(p) ==
    /\ phase[p] = "probing"
    /\ UNCHANGED vars

\* p_on_duboo_connect_test_cb, status 0: the handle is closed, so that the main
\* loop ends.  It is freed before libuv is done with it, which the process may
\* not survive (die).  With an error it probes again after a sleep: no change.
p_on_duboo_connect_test_cb(p) ==
    /\ phase[p] = "probing"
    /\ phase' = [phase EXCEPT ![p] = "ready"]
    /\ UNCHANGED <<addr, lease_id, timer, failed, etcdVars, consumerVars>>

\* provider goes on after uv_run: the worker loops listen.
p_start_listen(p) ==
    /\ phase[p] = "ready"
    /\ phase' = [phase EXCEPT ![p] = "serving"]
    /\ UNCHANGED <<addr, lease_id, timer, failed, etcdVars, consumerVars>>
------------------------------------------------------------------------------
(* etcd's clock *)

Due(p) == phase[p] \in Registered \cup {"granted"}

\* External: a lease that runs out takes its key along.
Tick ==
    /\ \A p \in Providers : Due(p) => timer[p] > -Delay
    /\ timer' = [p \in Providers |-> IF Due(p) THEN timer[p] - 1 ELSE timer[p]]
    /\ ttl' = [id \in Leases |-> IF ttl[id] > 0 THEN ttl[id] - 1 ELSE 0]
    /\ key' = [a \in Addresses |-> IF key[a] \in Leases /\ ttl'[key[a]] = 0 THEN NULL ELSE key[a]]
    /\ UNCHANGED <<phase, addr, lease_id, failed, granted, consumerVars>>
------------------------------------------------------------------------------
(* The consumer agent *)

Keys == {a \in Addresses : key[a] # NULL}

\* init_consumer: one etcd_get; without an answer or without a key it exits.
init_consumer ==
    /\ consumer = "off"
    /\ \/ /\ Keys # {}
          /\ endpoints' = Keys
          /\ consumer' = "connecting"
          /\ UNCHANGED <<linked, endpoint_connection_count>>
       \/ consumer_exits
    /\ UNCHANGED <<providerVars, etcdVars>>

Serving(a) == \E p \in Providers : phase[p] = "serving" /\ addr[p] = a

\* Mutant: the loop listens when it has made one connection more than it needs.
connect_endpoint_OneMore(a) ==
    /\ consumer \in {"connecting", "listening"}
    /\ a \in endpoints \ linked
    /\ Serving(a)
    /\ endpoint_connection_count < MaxConnects
    /\ linked' = linked \cup {a}
    /\ endpoint_connection_count' = endpoint_connection_count + 1
    /\ consumer' = IF endpoint_connection_count = Cardinality(endpoints) THEN "listening" ELSE consumer
    /\ UNCHANGED <<providerVars, etcdVars, endpoints>>

\* c_after_connect_to_a_agent in one of the consumer's loops, after as many
\* failed attempts as it takes (ConsumerAgent.tla has the rest of that loop).
connect_endpoint(a) ==
    /\ consumer \in {"connecting", "listening"}
    /\ a \in endpoints \ linked
    /\ Serving(a)
    /\ endpoint_connection_count < MaxConnects
    /\ linked' = linked \cup {a}
    /\ endpoint_connection_count' = endpoint_connection_count + 1
    /\ consumer' = IF endpoint_connection_count' = Cardinality(endpoints) THEN "listening" ELSE consumer
    /\ UNCHANGED <<providerVars, etcdVars, endpoints>>
------------------------------------------------------------------------------
ProviderStep(p) ==
    \/ init_provider(p)
    \/ die(p)
    \/ on_resolved(p)
    \/ etcd_keep_alive(p)
    \/ p_on_duboo_connect_test_cb(p)
    \/ p_start_listen(p)

Next ==
    \/ \E p \in Providers : ProviderStep(p)
    \/ Tick
    \/ init_consumer
    \/ \E a \in Addresses : connect_endpoint(a)

Spec == Init /\ [][Next]_vars

\* Time passes, running processes go on, Dubbo accepts in the end.  Nobody has to
\* start a process.
FairSpec ==
    /\ Spec
    /\ WF_vars(Tick)
    /\ \A p \in Providers :
         /\ WF_vars(etcd_put(p)) /\ WF_vars(etcd_keep_alive(p))
         /\ WF_vars(p_on_duboo_connect_test_cb(p)) /\ WF_vars(p_start_listen(p))
    /\ \A a \in Addresses : WF_vars(connect_endpoint(a))
------------------------------------------------------------------------------
\* The variables of agents and etcd have their types.
TypeOK ==
    /\ phase \in [Providers -> {"off", "resolving", "granted"} \cup Registered]
    /\ addr \in [Providers -> Addresses \cup {NULL}]
    /\ \A p \in Providers : Due(p) => addr[p] \in Addresses
    /\ lease_id \in [Providers -> Leases \cup {NULL}]
    /\ timer \in [Providers -> -Delay .. HeartbeatPeriod]
    /\ failed \in [Providers -> BOOLEAN]
    /\ granted \subseteq Leases
    /\ ttl \in [Leases -> 0 .. LEASE_TTL]
    /\ key \in [Addresses -> Leases \cup {NULL}]
    /\ consumer \in {"off", "connecting", "listening", "exited"}
    /\ endpoints \subseteq Addresses /\ linked \subseteq endpoints
    /\ consumer = "off" => linked = {}
    /\ endpoint_connection_count \in Nat

\* A provider agent that runs stays registered under its own lease: heartbeats
\* come in time, whatever other agents do and whoever had the address before, as
\* long as none of its calls to etcd has failed (keep_alive_thread_work).
LeaseHeld ==
    \A p \in Providers : phase[p] \in Registered /\ ~failed[p] =>
        LeaseKnown(p) /\ key[addr[p]] = lease_id[p]

\* Running agents with a lease each have their own, at an address of their own.
LeasesApart ==
    /\ \A p \in Providers : lease_id[p] # NULL => lease_id[p] \in granted
    /\ \A p, q \in Providers : p # q /\ Due(p) /\ Due(q) =>
           /\ addr[p] # addr[q]
           /\ lease_id[p] # NULL => lease_id[p] # lease_id[q]

\* What is left of a lease covers the time to the next call that is due.
LeaseCovers ==
    \A p \in Providers : Due(p) /\ ~failed[p] =>
        /\ lease_id[p] # NULL
        /\ ttl[lease_id[p]] >= IF phase[p] = "granted" THEN LEASE_TTL + timer[p]
                               ELSE LEASE_TTL - Delay - HeartbeatPeriod + timer[p]

\* Why heartbeats come in time: the inductive invariant of LeaseHeld, for agents
\* that start, die and take over each other's addresses (on_resolved and
\* keep_alive_thread_work).
LeaseInv == LeasesApart /\ LeaseCovers

\* A key whose agent has died does not stay for ever (the lease in etcd_put).
DeadKeysExpire ==
    \A a \in Addresses :
        (key[a] # NULL /\ ~\E p \in Providers : Due(p) /\ addr[p] = a) ~>
            (key[a] = NULL \/ \E p \in Providers : Due(p) /\ addr[p] = a)

\* A provider agent is found before it serves, but it does serve in the end,
\* unless it dies.
RegisteredServes ==
    \A p \in Providers : (phase[p] \in Registered) ~> (phase[p] \in {"serving", "off"})

\* A consumer agent that has found its endpoints accepts clients in the end,
\* unless it has read the key of an agent that is not there any more, or exits when
\* it loses one.
ConsumerListens ==
    (consumer = "connecting") ~>
        (consumer \in {"listening", "exited"} \/ \E a \in endpoints : ~\E p \in Providers : Due(p) /\ addr[p] = a)
==============================================================================
