---------------------------- MODULE MCDiscovery ------------------------------
(***************************************************************************)
(* Two agents and two leases: both register, or one registers again, at    *)
(* the same or another address, while its old lease is still alive.  A     *)
(* lease of four ticks is refreshed after one, or after two.               *)
(***************************************************************************)
EXTENDS Discovery

MCMargin == 3
MCMaxConnects == Cardinality(Addresses) + 1
==============================================================================
