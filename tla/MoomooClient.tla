----------------------------- MODULE MoomooClient -----------------------------
(***************************************************************************)
(* MoomooClient of src/src/opend.rs: concurrent tool calls that share one  *)
(* slot for the current Session.  A query is retried once on a new session *)
(* when it failed and its session is broken or closed; a command captures  *)
(* its session first (prepare_command) and is never retried.               *)
(*                                                                         *)
(* The slot mutex is held across an await only while ensure_session        *)
(* connects; every other critical section on it is one step here.          *)
(***************************************************************************)
EXTENDS Session

VARIABLES
    slot,       \* MoomooClient::session: the current session, or None
    slotOwner,  \* the task that holds the slot while it connects, or None
    first       \* first[t]: the session of the attempt t already gave up on

clientVars == <<slot, slotOwner, first>>
vars == <<linkVars, sessionVars, clientVars>>

TaskPc == {"ensure", "connect", "prepare", "prepared", "invalidate", "done"}
TaskReply == {"connect", "invalid"}

\* Whoever is past ensure_session has a session: an Arc, not an Option.
ControlTypeOK ==
    /\ pc \in [Actors -> KeepAlivePc \cup ExchangePc \cup TaskPc]
    /\ \A c \in Conns : sess[c] = c /\ pc[c] \in KeepAlivePc \cup ExchangePc
    /\ \A t \in Tasks :
        /\ pc[t] \in ExchangePc \cup TaskPc
        /\ pc[t] \in {"ensure", "connect", "done"} \/ sess[t] \in Conns

\* Every variable has its type.
TypeOK ==
    /\ LinkTypeOK
    /\ SessionTypeOK
    /\ ControlTypeOK
    /\ reply \in [Actors -> Verdicts \cup Error \cup TaskReply \cup {"none"}]
    /\ slot \in Conns \cup {None}
    /\ slotOwner \in Tasks \cup {None}
    /\ first \in [Tasks -> Conns \cup {None}]

Init ==
    /\ LinkInit
    /\ SessionInit
    /\ pc = [a \in Actors |-> IF a \in Conns THEN "off" ELSE "ensure"]
    /\ slot = None
    /\ slotOwner = None
    /\ first = [t \in Tasks |-> None]

-----------------------------------------------------------------------------
\* ensure_session

\* Where a task goes with its session: execute_command needs a context first.
Ensured(t) == IF t \in Commands THEN "prepare" ELSE "call"

\* Mutant: an empty slot is not connected.
EnsureEmpty(t) ==
    /\ pc[t] = "ensure"
    /\ slotOwner = None
    /\ IF slot = None \/ ~IsBroken(slot)
       THEN /\ sess' = [sess EXCEPT ![t] = slot]
            /\ pc' = [pc EXCEPT ![t] = Ensured(t)]
            /\ UNCHANGED <<closed, slot, slotOwner>>
       ELSE /\ closed' = [c \in Conns |-> closed[c] \/ c = slot]
            /\ slot' = None
            /\ slotOwner' = t
            /\ pc' = [pc EXCEPT ![t] = "connect"]
            /\ UNCHANGED sess
    /\ UNCHANGED <<linkVars, broken, lock, serial, mine, reply, got, first>>

\* A healthy session is shared; a broken one is closed and taken out, and
\* the slot stays locked until the connection is made.
Ensure(t) ==
    /\ pc[t] = "ensure"
    /\ slotOwner = None
    /\ IF slot # None /\ ~IsBroken(slot)
       THEN /\ sess' = [sess EXCEPT ![t] = slot]
            /\ pc' = [pc EXCEPT ![t] = Ensured(t)]
            /\ UNCHANGED <<closed, slot, slotOwner>>
       ELSE /\ closed' = [c \in Conns |-> closed[c] \/ c = slot]
            /\ slot' = None
            /\ slotOwner' = t
            /\ pc' = [pc EXCEPT ![t] = "connect"]
            /\ UNCHANGED sess
    /\ UNCHANGED <<linkVars, broken, lock, serial, mine, reply, got, first>>

\* Session::connect succeeds, InitConnect included; the keep-alive loop is
\* spawned and the new session put into the slot.
ConnectOk(t) ==
    /\ pc[t] = "connect"
    /\ \E c \in Conns :
        /\ conn[c] = "unopened"
        /\ conn' = [conn EXCEPT ![c] = "up"]
        /\ pc' = [pc EXCEPT ![c] = "top", ![t] = Ensured(t)]
        /\ sess' = [sess EXCEPT ![t] = c]
        /\ slot' = c
    /\ slotOwner' = None
    /\ UNCHANGED <<outbox, inbox, executed, broken, closed, lock, serial, mine,
                   reply, got, first>>

\* Mutant: a failed connection leaves the slot locked.
ConnectFailsHolding(t) ==
    /\ pc[t] = "connect"
    /\ reply' = [reply EXCEPT ![t] = "connect"]
    /\ pc' = [pc EXCEPT ![t] = "done"]
    /\ UNCHANGED <<linkVars, broken, closed, lock, serial, sess, mine, got, clientVars>>

\* It fails: the error leaves query or prepare_command, the slot stays empty.
ConnectFails(t) ==
    /\ pc[t] = "connect"
    /\ reply' = [reply EXCEPT ![t] = "connect"]
    /\ pc' = [pc EXCEPT ![t] = "done"]
    /\ slotOwner' = None
    /\ UNCHANGED <<linkVars, broken, closed, lock, serial, sess, mine, got, slot, first>>

-----------------------------------------------------------------------------
\* query: roundtrip, and once more after a failure on a broken session

\* Mutant: every failed attempt is retried, the state of the session unasked.
StaleAlways(t) == reply[t] \in Error

\* The session is broken by now, perhaps through the failure of another call.
Stale(t) == reply[t] \in Error /\ IsBroken(sess[t])

QueryReturn(t) ==
    /\ t \in Queries
    /\ pc[t] = "returned"
    /\ IF first[t] = None /\ Stale(t)
       THEN /\ first' = [first EXCEPT ![t] = sess[t]]
            /\ pc' = [pc EXCEPT ![t] = "invalidate"]
            /\ Forget(t)
       ELSE /\ pc' = [pc EXCEPT ![t] = "done"]
            /\ UNCHANGED <<first, reply, got>>
    /\ UNCHANGED <<linkVars, broken, closed, lock, serial, sess, mine, slot, slotOwner>>

\* Mutant: the session is taken out of the slot and left open.
InvalidateOpen(t) ==
    /\ pc[t] = "invalidate"
    /\ slotOwner = None
    /\ slot' = None
    /\ pc' = [pc EXCEPT ![t] = "ensure"]
    /\ UNCHANGED <<linkVars, broken, closed, lock, serial, sess, mine, reply, got, slotOwner, first>>

\* invalidate_session closes the session that is in the slot by now.
Invalidate(t) ==
    /\ pc[t] = "invalidate"
    /\ slotOwner = None
    /\ closed' = [c \in Conns |-> closed[c] \/ c = slot]
    /\ slot' = None
    /\ pc' = [pc EXCEPT ![t] = "ensure"]
    /\ UNCHANGED <<linkVars, broken, lock, serial, sess, mine, reply, got, slotOwner, first>>

-----------------------------------------------------------------------------
\* prepare_command and execute_command

\* Mutant: the serial is looked at, and drawn by nobody.
PrepareUndrawn(t) ==
    /\ pc[t] = "prepare"
    /\ lock[sess[t]] = None
    /\ mine' = [mine EXCEPT ![t] = serial]
    /\ pc' = [pc EXCEPT ![t] = "prepared"]
    /\ UNCHANGED <<linkVars, broken, closed, lock, serial, sess, reply, got, clientVars>>

\* The connection id is read under the stream lock, then the serial drawn.
Prepare(t) ==
    /\ pc[t] = "prepare"
    /\ lock[sess[t]] = None
    /\ NextSerial(t)
    /\ pc' = [pc EXCEPT ![t] = "prepared"]
    /\ UNCHANGED <<linkVars, broken, closed, lock, sess, reply, got, clientVars>>

\* Parameters are parsed with the context in hand; a bad one ends the call.
RejectParams(t) ==
    /\ pc[t] = "prepared"
    /\ reply' = [reply EXCEPT ![t] = "invalid"]
    /\ pc' = [pc EXCEPT ![t] = "done"]
    /\ UNCHANGED <<linkVars, broken, closed, lock, serial, sess, mine, got, clientVars>>

\* execute_command enters roundtrip with the captured session and serial.
Submit(t) ==
    /\ pc[t] = "prepared"
    /\ Admit(t)
    /\ UNCHANGED <<linkVars, broken, closed, lock, serial, sess, mine, got, clientVars>>

\* Mutant: a command is retried like a query.
CommandReturnRetries(t) ==
    /\ t \in Commands
    /\ pc[t] = "returned"
    /\ IF first[t] = None /\ Stale(t)
       THEN /\ first' = [first EXCEPT ![t] = sess[t]]
            /\ pc' = [pc EXCEPT ![t] = "invalidate"]
            /\ Forget(t)
       ELSE /\ pc' = [pc EXCEPT ![t] = "done"]
            /\ UNCHANGED <<first, reply, got>>
    /\ UNCHANGED <<linkVars, broken, closed, lock, serial, sess, mine, slot, slotOwner>>

\* Mutant: a command is sent again when its answer cannot be understood.
CommandReturnResends(t) ==
    /\ t \in Commands
    /\ pc[t] = "returned"
    /\ pc' = [pc EXCEPT ![t] = IF reply[t] = "protocol" THEN "prepare" ELSE "done"]
    /\ UNCHANGED <<linkVars, broken, closed, lock, serial, sess, mine, reply, got, clientVars>>

\* The result of roundtrip is the result of the command, error or not.
CommandReturn(t) ==
    /\ t \in Commands
    /\ pc[t] = "returned"
    /\ pc' = [pc EXCEPT ![t] = "done"]
    /\ UNCHANGED <<linkVars, broken, closed, lock, serial, sess, mine, reply, got, clientVars>>

-----------------------------------------------------------------------------

Task(t) ==
    \/ Ensure(t) \/ ConnectOk(t) \/ ConnectFails(t)
    \/ Prepare(t) \/ RejectParams(t) \/ Submit(t) \/ CommandReturn(t)
    \/ QueryReturn(t) \/ Invalidate(t)
    \/ (Call(t) \/ Exchange(t)) /\ UNCHANGED clientVars

\* query keeps the session of its first attempt until it returns.
Holds(t, c) == pc[t] # "done" /\ c \in {sess[t], first[t]}

\* The last Arc of a session is dropped, and its TcpStream with it.
Release(c) ==
    /\ conn[c] = "up"
    /\ slot # c
    /\ pc[c] = "ended"
    /\ \A t \in Tasks : ~Holds(t, c)
    /\ conn' = [conn EXCEPT ![c] = "down"]
    /\ UNCHANGED <<outbox, inbox, executed, sessionVars, clientVars>>

\* Every call has returned and no loop is left: the server waits for calls.
Idle ==
    /\ \A t \in Tasks : pc[t] = "done"
    /\ \A c \in Conns : pc[c] \in {"off", "ended"}
    /\ UNCHANGED vars

Next ==
    \/ \E t \in Tasks : Task(t)
    \/ \E c \in Conns : KeepAlive(c) /\ UNCHANGED clientVars
    \/ \E c \in Conns : Release(c)
    \/ LinkNext /\ UNCHANGED <<sessionVars, clientVars>>
    \/ Idle

Spec == Init /\ [][Next]_vars

\* Tokio runs every task that can run, and its mutexes are FIFO, so an actor
\* that finds a lock free again and again gets it (SF).  OpenD answers what it
\* has received.  Nothing makes OpenD push or a connection fail.
Fairness ==
    /\ \A t \in Tasks : SF_vars(Task(t))
    /\ \A c \in Conns : SF_vars(KeepAlive(c) /\ UNCHANGED clientVars)
    /\ \A c \in Conns : WF_vars(Release(c))
    /\ \A c \in Conns : WF_vars(Serve(c) /\ UNCHANGED <<sessionVars, clientVars>>)

FairSpec == Spec /\ Fairness

-----------------------------------------------------------------------------
\* Properties

Opened(c) == conn[c] # "unopened"

\* OpenD carries out a command at most once, whatever fails and whoever
\* reconnects beside it: execute_command has no retry (opend.rs:120-134).
AtMostOnce == \A t \in Commands : executed[t] <= 1

\* An answer given to a caller is the answer to that caller's request.  The
\* stream lock has to guarantee it: roundtrip compares the protocol id only.
ReplyMatchesRequest == \A a \in Actors : got[a] \in {None, a}

\* Apart from a failed keep-alive of its own, only the loss of its connection
\* breaks a session: no error of a caller's exchange does it.
BrokenMeansLost ==
    \A c \in Conns : broken[c] => conn[c] = "down" \/ reply[c] \in Error

\* The session in the slot is the one that is open: each session replaced or
\* invalidated was closed, and no closed one is ever handed out.
OneCurrentSession ==
    \A c \in Conns : slot = c <=> Opened(c) /\ ~closed[c]

\* As long as no session broke there is one connection, however many calls
\* run and fail at once.
NoSpuriousReconnect ==
    (\A c \in Conns : ~broken[c]) =>
        \A c, d \in Conns : Opened(c) /\ Opened(d) => c = d

\* How the call of a command ended.  ensure_success makes the same error of every retType
\* but 0, so that of a refusal the caller knows as little as of an "unsure" answer.
ToldOf(t) ==
    CASE pc[t] # "done" -> "pending"
      [] pc[t] = "done" /\ reply[t] = "ok" -> "confirmed"
      [] pc[t] = "done" /\ reply[t] \in {"closed"} \cup TaskReply -> "unsent"
      [] OTHER -> "unknown"

Promise == INSTANCE Orders WITH
    effects <- [t \in Commands |-> executed[t]],
    outcome <- [t \in Commands |-> ToldOf(t)]

\* Commands keep the promise of Orders: an order reported as placed was placed, once, and
\* one whose call failed in connecting, in its parameters or on a closed session never will
\* be: no session that breaks, closes or is replaced meanwhile makes such an error of a
\* request that went out.
OrdersKept == Promise!OrdersSpec

\* A call retries at most once, with another session than the first time.
RetryIsFresh ==
    \A t \in Queries : first[t] # None /\ pc[t] \in ExchangePc => sess[t] # first[t]

\* query speaks of a "request failed on stale session" when it invalidates
\* one (opend.rs:100): a session is closed only when it is broken.
OnlyStaleSessionsClosed ==
    [][\A c \in Conns : closed'[c] /\ ~closed[c] => broken[c]]_vars

\* Every call comes back, also when connections are lost under it.
CallReturns == \A t \in Tasks : <>(pc[t] = "done")

\* A lost connection is noticed, if by nobody else then by its keep-alive.
DeadPeerDetected == \A c \in Conns : conn[c] = "down" ~> IsBroken(c)

\* An answer left behind in the stream, by a notification taken for it, does
\* not mislead callers for ever: the keep-alive comes across it, fails, and
\* the session is replaced (opend.rs:253-264, 315-322).
MismatchHeals ==
    \A c \in Conns :
        (\E i \in DOMAIN inbox[c] : inbox[c][i].to \notin {None, lock[c]}) ~> IsBroken(c)
=============================================================================
