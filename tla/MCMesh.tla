------------------------------- MODULE MCMesh --------------------------------
(***************************************************************************)
(* Constants of the mesh's run.                                            *)
(***************************************************************************)
EXTENDS Mesh

MCDirect == [e \in Ends |-> 1]
MCPenalty == [e \in Ends |-> 2]

\* The second request is too long for the relays.
MCLong == {[loop |-> 0, id |-> 1]}
==============================================================================
