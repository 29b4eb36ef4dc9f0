------------------------------ MODULE OpenDLink ------------------------------
(***************************************************************************)
(* The TCP connections between the server and OpenD, and OpenD at their    *)
(* far end.  None of this is code of the repository: it is what            *)
(* src/src/opend.rs relies on, and every definition is marked external.    *)
(*                                                                         *)
(* A connection is named by the session that owns its stream.  A request   *)
(* in flight is named by the actor that wrote it: a task (one call of a    *)
(* tool) or the keep-alive loop of a connection, which is named by the     *)
(* connection itself.                                                      *)
(***************************************************************************)
EXTENDS Naturals, Sequences

CONSTANTS
    Conns,      \* the connections that may be opened, a bound on reconnects
    Queries,    \* tool calls made through MoomooClient::query
    Commands,   \* tool calls made through MoomooClient::execute_command
    Proto,      \* the protocol id of each actor's request
    Verdicts,   \* the kinds of answer OpenD gives
    Pushes,     \* whether OpenD sends notifications nobody asked for
    MaxInbox,   \* bound on unread messages, guards Push only
    None

Tasks == Queries \cup Commands
Actors == Tasks \cup Conns

\* "ok" is retType 0, "refused" Failed or Invalid, "unsure" one of TimeOut, DisConnect and
\* Unknown (Common.proto:10-15); "garbled" is an answer that decode_body or Resp::decode
\* refuses.
ASSUME LinkAssumption ==
    /\ Queries \cap Commands = {}
    /\ Tasks \cap Conns = {}
    /\ None \notin Actors
    /\ Verdicts \subseteq {"ok", "refused", "unsure", "garbled"}
    /\ Pushes \in BOOLEAN
    /\ MaxInbox \in Nat
    /\ DOMAIN Proto = Actors

VARIABLES
    conn,       \* conn[c]: "unopened", "up" or "down"
    outbox,     \* outbox[c]: requests OpenD received on c and has not served
    inbox,      \* inbox[c]: packets the client can still read from c
    executed    \* executed[t]: how often OpenD carried out the request of t

linkVars == <<conn, outbox, inbox, executed>>

Notification == [to |-> None, verdict |-> "push"]
Message == [to : Actors, verdict : Verdicts] \cup {Notification}

LinkTypeOK ==
    /\ conn \in [Conns -> {"unopened", "up", "down"}]
    /\ outbox \in [Conns -> Seq(Actors)]
    /\ inbox \in [Conns -> Seq(Message)]
    /\ executed \in [Tasks -> Nat]

LinkInit ==
    /\ conn = [c \in Conns |-> "unopened"]
    /\ outbox = [c \in Conns |-> <<>>]
    /\ inbox = [c \in Conns |-> <<>>]
    /\ executed = [t \in Tasks |-> 0]

-----------------------------------------------------------------------------

\* An "ok" request took effect and a refused one did not; of any other answer
\* nobody can tell.
Outcome == {o \in [verdict : Verdicts, applied : BOOLEAN] :
                /\ o.verdict = "ok" => o.applied
                /\ o.verdict = "refused" => ~o.applied}

\* OpenD serves the requests of a connection in order.  A request that
\* arrived before the connection was lost may still be carried out; its
\* answer then reaches nobody.
Serve(c) ==
    /\ outbox[c] # <<>>
    /\ outbox' = [outbox EXCEPT ![c] = Tail(@)]
    /\ \E o \in Outcome :
        /\ inbox' = IF conn[c] = "up"
                    THEN [inbox EXCEPT ![c] =
                            Append(@, [to |-> Head(outbox[c]), verdict |-> o.verdict])]
                    ELSE inbox
        /\ executed' = [t \in Tasks |->
                            IF t = Head(outbox[c]) /\ o.applied
                            THEN executed[t] + 1
                            ELSE executed[t]]
    /\ UNCHANGED conn

\* A notification: recv_notify in InitConnect, or is_reg_push in Qot_Sub.
Push(c) ==
    /\ Pushes
    /\ conn[c] = "up"
    /\ Len(inbox[c]) < MaxInbox
    /\ inbox' = [inbox EXCEPT ![c] = Append(@, Notification)]
    /\ UNCHANGED <<conn, outbox, executed>>

\* The connection is lost, and with it any suffix of what was travelling in
\* either direction.
Drop(c) ==
    /\ conn[c] = "up"
    /\ conn' = [conn EXCEPT ![c] = "down"]
    /\ \E i \in 0..Len(outbox[c]) : outbox' = [outbox EXCEPT ![c] = SubSeq(@, 1, i)]
    /\ \E j \in 0..Len(inbox[c]) : inbox' = [inbox EXCEPT ![c] = SubSeq(@, 1, j)]
    /\ UNCHANGED executed

LinkNext == \E c \in Conns : Serve(c) \/ Push(c) \/ Drop(c)
=============================================================================
