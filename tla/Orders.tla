-------------------------------- MODULE Orders --------------------------------
(***************************************************************************)
(* What a tool that changes something at OpenD (place_order, modify_order, *)
(* unlock_trade) promises its caller: the request takes effect at most     *)
(* once; a success is reported only after the effect; a call that ended    *)
(* unsent never takes effect, so that it may safely be made again; and any *)
(* other end leaves the effect open, an error of OpenD's API included.     *)
(* Each action maps many steps of MoomooClient.                            *)
(***************************************************************************)
EXTENDS Naturals

CONSTANT Commands

VARIABLES
    effects,    \* effects[o]: how often OpenD carried out o
    outcome     \* outcome[o]: how the call of o ended

orderVars == <<effects, outcome>>

OrdersInit ==
    /\ effects = [o \in Commands |-> 0]
    /\ outcome = [o \in Commands |-> "pending"]

\* OpenD carries out the request, if need be after the caller gave up.
TakeEffect(o) ==
    /\ outcome[o] \in {"pending", "unknown"}
    /\ effects[o] = 0
    /\ effects' = [effects EXCEPT ![o] = 1]
    /\ UNCHANGED outcome

\* The call ends; that it was unsent rules the effect out for good.
Tell(o, told) ==
    /\ outcome[o] = "pending"
    /\ told = "confirmed" => effects[o] = 1
    /\ told = "unsent" => effects[o] = 0
    /\ outcome' = [outcome EXCEPT ![o] = told]
    /\ UNCHANGED effects

OrdersNext ==
    \E o \in Commands :
        \/ TakeEffect(o)
        \/ \E told \in {"confirmed", "unsent", "unknown"} : Tell(o, told)

OrdersSpec == OrdersInit /\ [][OrdersNext]_orderVars
=============================================================================
