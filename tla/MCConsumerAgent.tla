--------------------------- MODULE MCConsumerAgent ---------------------------
(***************************************************************************)
(* Constants of the consumer agent's runs.                                 *)
(***************************************************************************)
EXTENDS ConsumerAgent, TLC

MCDirect == [e \in Ends |-> 1]
MCPenalty == [e \in Ends |-> 2]

\* Connections and blocks are interchangeable.
Symmetry == Permutations(Conns) \cup Permutations(Blocks)
==============================================================================
