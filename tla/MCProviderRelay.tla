--------------------------- MODULE MCProviderRelay ---------------------------
(***************************************************************************)
(* Symmetry of the relays' closing run.                                    *)
(***************************************************************************)
EXTENDS ProviderRelay, TLC

Symmetry == Permutations(Relays) \cup Permutations(RequestIds)
==============================================================================
