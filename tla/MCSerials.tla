------------------------------ MODULE MCSerials ------------------------------
(***************************************************************************)
(* Instances of WireSerials for TLC: a counter of a few values, so that it *)
(* wraps after a handful of packets.                                       *)
(***************************************************************************)
EXTENDS WireSerials, TLC

MCProto == [a \in Actors |-> IF a \in Conns THEN "keepalive" ELSE "call"]

Symmetry == Permutations(Conns) \cup Permutations(Commands)
=============================================================================
