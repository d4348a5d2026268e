---------------------------- MODULE MCBlockQueue -----------------------------
(***************************************************************************)
(* Bounds of the block queue's run: every producer goes round a ring of    *)
(* two twice by itself, and every puller would take all that is pushed.    *)
(***************************************************************************)
EXTENDS BlockQueue

MCmax_size == 2
MCPushesEach == 2 * MCmax_size
MCPullsEach == MCPushesEach * Cardinality(Producers)
==============================================================================
