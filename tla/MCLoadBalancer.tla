--------------------------- MODULE MCLoadBalancer ----------------------------
(***************************************************************************)
(* Constants of the load balancer's runs.                                  *)
(***************************************************************************)
EXTENDS LoadBalancer

MCDirect == [e \in Ends |-> 1]
MCPenalty == [e \in Ends |-> IF e = 0 THEN 2 ELSE 3]
==============================================================================
