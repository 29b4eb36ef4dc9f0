---------------------------- MODULE MCSubscriptions ----------------------------
(***************************************************************************)
(* Instances of Subscriptions for TLC: q1 subscribes while q3 takes back   *)
(* another subscription, and q2 asks for a quote when both have returned.  *)
(***************************************************************************)
EXTENDS Subscriptions, TLC

CONSTANTS q1, q2, q3

\* get_basic_quote has a protocol of its own, the other two share Qot_Sub.
MCProto == [a \in Actors |-> IF a \in Conns THEN "keepalive"
                             ELSE IF a = q2 THEN "quote" ELSE "sub"]

MCAsk(op, codes, types) == [op |-> op, codes |-> codes, sub_types |-> types]

MCAsks ==
    [t \in Queries |->
        IF t = q1 THEN {MCAsk("subscribe", {"A"}, {})}
        ELSE IF t = q2 THEN {MCAsk("quote", {"A"}, None)}
        ELSE {MCAsk("subscribe", {}, None), MCAsk("unsubscribe", {"A"}, {"TICKER"})}]

MCBefore == [t \in Queries |-> IF t = q2 THEN {q1, q3} ELSE {}]

Symmetry == Permutations(Conns)
=============================================================================
