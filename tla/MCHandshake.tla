----------------------------- MODULE MCHandshake ------------------------------
(***************************************************************************)
(* Keep-alive intervals to check Handshake with: one that makes no sense,  *)
(* which the client takes for the shortest, the shortest that leaves a     *)
(* second for an answer, and one that is not divided evenly.               *)
(***************************************************************************)
EXTENDS Handshake

SomeIntervals == {-1, 6, 11}

=============================================================================
