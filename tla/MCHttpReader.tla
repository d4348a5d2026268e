---------------------------- MODULE MCHttpReader -----------------------------
(***************************************************************************)
(* Constants of the HTTP reader's run.                                     *)
(***************************************************************************)
EXTENDS HttpReader

\* Lengths below zero: one header's worth, and less than a frame's header.
MCMisstated == {-2, 1}
MCStale == {-2, 0, 3}
==============================================================================
