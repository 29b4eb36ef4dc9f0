------------------------------- MODULE MCClient -------------------------------
(***************************************************************************)
(* Instances of MoomooClient for TLC.  Every task asks for the same        *)
(* protocol, so that an answer can be mistaken for another one.  Symmetry  *)
(* is used for safety only: no definition orders sessions or tasks.        *)
(***************************************************************************)
EXTENDS ClientInvariants, TLC

MCProto == [a \in Actors |-> IF a \in Conns THEN "keepalive" ELSE "call"]

Symmetry == Permutations(Conns)
QuerySymmetry == Symmetry \cup Permutations(Queries)
=============================================================================
