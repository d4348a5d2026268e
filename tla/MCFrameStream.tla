--------------------------- MODULE MCFrameStream -----------------------------
(***************************************************************************)
(* A stream with empty bodies, frames that fill the buffer, and others:    *)
(* every way of cutting it into reads is explored.                         *)
(***************************************************************************)
EXTENDS FrameStream

MCBound == [k \in 0 .. 6 |-> <<0, 5, 7, 13, 16, 22, 24>>[k + 1]]
==============================================================================
