----------------------------- MODULE SessionProofs -----------------------------
(***************************************************************************)
(* Why sessions of MoomooClient break, and what follows from it: no caller *)
(* breaks a session whose connection lives, no session is replaced before  *)
(* one broke, a retry goes to another session, and an I/O error means that *)
(* the connection is gone.  For any number of calls and sessions, with     *)
(* notifications or not.                                                   *)
(***************************************************************************)
EXTENDS CommandProofs

-----------------------------------------------------------------------------
\* What happens to a session only once

\* A flag that is set stays set, and a lost connection stays lost: no step of the
\* client undoes either (opend.rs:173-199, 328-330).
LEMMA OneWay ==
    ASSUME TypeOK, [Next]_vars, NEW c \in Conns
    PROVE  /\ broken[c] => broken'[c]
           /\ closed[c] => closed'[c]
           /\ conn[c] = "down" => conn'[c] = "down"
<1> USE DEF TypeOK, LinkTypeOK, SessionTypeOK, linkVars
<1>1. ASSUME NEW a \in Actors, Call(a) \/ Exchange(a)
      PROVE  (broken[c] => broken'[c]) /\ UNCHANGED <<closed, conn>>
    BY <1>1 DEF Call, Exchange, Send, SendFails, Receive, ReceiveFails, IoError
<1>2. ASSUME NEW t \in Tasks, Task(t) PROVE
           /\ broken[c] => broken'[c]
           /\ closed[c] => closed'[c]
           /\ conn[c] = "down" => conn'[c] = "down"
    <2>1. CASE Ensure(t) \/ Invalidate(t)
        BY <2>1 DEF Ensure, Invalidate
    <2>2. CASE ConnectOk(t)
        BY <2>2 DEF ConnectOk
    <2>3. CASE \/ ConnectFails(t) \/ Prepare(t) \/ RejectParams(t) \/ Submit(t)
               \/ CommandReturn(t) \/ QueryReturn(t)
        BY <2>3 DEF ConnectFails, Prepare, RejectParams, Submit, CommandReturn, QueryReturn
    <2>4. CASE Call(t) \/ Exchange(t)
        BY <1>1, <2>4 DEF Actors
    <2>5. QED
        BY <1>2, <2>1, <2>2, <2>3, <2>4 DEF Task
<1>3. ASSUME NEW d \in Conns, KeepAlive(d)
      PROVE  (broken[c] => broken'[c]) /\ UNCHANGED <<closed, conn>>
    <2>1. CASE Call(d) \/ Exchange(d)
        BY <1>1, <2>1 DEF Actors
    <2>2. CASE KeepAliveTop(d) \/ KeepAliveInterval(d) \/ KeepAliveWake(d) \/ KeepAliveReturn(d)
        BY <2>2 DEF KeepAliveTop, KeepAliveInterval, KeepAliveWake, KeepAliveReturn
    <2>3. QED
        BY <1>3, <2>1, <2>2 DEF KeepAlive
<1>4. CASE \E d \in Conns : Release(d)
    BY <1>4 DEF Release, sessionVars
<1>5. CASE LinkNext /\ UNCHANGED <<sessionVars, clientVars>>
    BY <1>5 DEF LinkNext, Serve, Push, Drop, sessionVars
<1>6. CASE UNCHANGED vars
    BY <1>6 DEF vars, sessionVars
<1> HIDE DEF TypeOK, LinkTypeOK, SessionTypeOK, linkVars
<1>7. QED
    BY StepCases, <1>2, <1>3, <1>4, <1>5, <1>6

\* The loop of session c gives up on its own reply.
GivesUp(c) == KeepAliveReturn(c) /\ reply[c] \in Error

\* The only two ways in which a session breaks (opend.rs:253-264, 285-313).
LEMMA Breaks ==
    ASSUME TypeOK, [Next]_vars, NEW c \in Conns, broken'[c], ~broken[c]
    PROVE  conn[c] = "down" \/ GivesUp(c)
<1> USE DEF TypeOK, SessionTypeOK
<1>1. ASSUME NEW a \in Actors, Call(a) \/ Exchange(a) PROVE conn[c] = "down"
    BY <1>1 DEF Call, Exchange, Send, SendFails, Receive, ReceiveFails, IoError
<1>2. ASSUME NEW t \in Tasks, Task(t) PROVE conn[c] = "down"
    <2>1. CASE \/ Ensure(t) \/ ConnectOk(t) \/ ConnectFails(t) \/ Prepare(t) \/ RejectParams(t)
               \/ Submit(t) \/ CommandReturn(t) \/ QueryReturn(t) \/ Invalidate(t)
        BY <2>1 DEF Ensure, ConnectOk, ConnectFails, Prepare, RejectParams, Submit,
                    CommandReturn, QueryReturn, Invalidate
    <2>2. CASE Call(t) \/ Exchange(t)
        BY <1>1, <2>2 DEF Actors
    <2>3. QED
        BY <1>2, <2>1, <2>2 DEF Task
<1>3. ASSUME NEW d \in Conns, KeepAlive(d) PROVE conn[c] = "down" \/ GivesUp(c)
    <2>1. CASE Call(d) \/ Exchange(d)
        BY <1>1, <2>1 DEF Actors
    <2>2. CASE KeepAliveTop(d) \/ KeepAliveInterval(d) \/ KeepAliveWake(d)
        BY <2>2 DEF KeepAliveTop, KeepAliveInterval, KeepAliveWake
    <2>3. CASE KeepAliveReturn(d)
        BY <2>3 DEF KeepAliveReturn, GivesUp
    <2>4. QED
        BY <1>3, <2>1, <2>2, <2>3 DEF KeepAlive
<1>4. CASE \E d \in Conns : Release(d)
    BY <1>4 DEF Release, sessionVars
<1>5. CASE LinkNext /\ UNCHANGED <<sessionVars, clientVars>>
    BY <1>5 DEF sessionVars
<1>6. CASE UNCHANGED vars
    BY <1>6 DEF vars, sessionVars
<1>7. QED
    BY StepCases, <1>2, <1>3, <1>4, <1>5, <1>6

\* A keep-alive loop that ended stays where it is, with its reply (opend.rs:234-267).
LEMMA EndedStays ==
    ASSUME TypeOK, FreshInv, [Next]_vars, NEW c \in Conns, pc[c] = "ended"
    PROVE  pc'[c] = "ended" /\ reply'[c] = reply[c]
<1> USE DEF TypeOK, ControlTypeOK
<1>0. c \in Actors /\ c \notin Tasks
    BY LinkAssumption DEF Actors
<1>1. ASSUME NEW a \in Actors, Call(a) \/ Exchange(a)
      PROVE  pc'[c] = "ended" /\ reply'[c] = reply[c]
    BY <1>0, <1>1 DEF Call, Admit, Exchange, Send, SendFails, Receive, ReceiveFails, IoError
<1>2. ASSUME NEW t \in Tasks, Task(t) PROVE pc'[c] = "ended" /\ reply'[c] = reply[c]
    <2>0. t \in Actors /\ t # c
        BY <1>0 DEF Actors
    <2>1. CASE \/ Ensure(t) \/ ConnectFails(t) \/ Prepare(t) \/ RejectParams(t)
               \/ Submit(t) \/ CommandReturn(t) \/ QueryReturn(t) \/ Invalidate(t)
        BY <1>0, <2>0, <2>1 DEF Ensure, ConnectFails, Prepare, RejectParams, Submit, Admit,
                    CommandReturn, QueryReturn, Invalidate, Forget
    <2>2. CASE ConnectOk(t)
        <3>1. PICK d \in Conns :
                conn[d] = "unopened" /\ pc' = [pc EXCEPT ![d] = "top", ![t] = Ensured(t)]
            BY <2>2 DEF ConnectOk
        <3>2. pc[d] = "off"
            BY <3>1 DEF FreshInv, Opened
        <3>3. QED
            BY <1>0, <2>0, <2>2, <3>1, <3>2 DEF ConnectOk
    <2>3. CASE Call(t) \/ Exchange(t)
        BY <1>1, <2>0, <2>3
    <2>4. QED
        BY <1>2, <2>1, <2>2, <2>3 DEF Task
<1>3. ASSUME NEW d \in Conns, KeepAlive(d) PROVE pc'[c] = "ended" /\ reply'[c] = reply[c]
    <2>0. d \in Actors
        BY DEF Actors
    <2>1. CASE Call(d) \/ Exchange(d)
        BY <1>1, <2>0, <2>1
    <2>2. CASE KeepAliveTop(d) \/ KeepAliveInterval(d) \/ KeepAliveWake(d) \/ KeepAliveReturn(d)
        BY <1>0, <2>0, <2>2 DEF KeepAliveTop, KeepAliveInterval, KeepAliveWake, KeepAliveReturn,
                                Forget
    <2>3. QED
        BY <1>3, <2>1, <2>2 DEF KeepAlive
<1>4. CASE \E d \in Conns : Release(d)
    BY <1>4 DEF Release, sessionVars
<1>5. CASE LinkNext /\ UNCHANGED <<sessionVars, clientVars>>
    BY <1>5 DEF sessionVars
<1>6. CASE UNCHANGED vars
    BY <1>6 DEF vars, sessionVars
<1> HIDE DEF TypeOK, ControlTypeOK
<1>7. QED
    BY StepCases, <1>2, <1>3, <1>4, <1>5, <1>6

-----------------------------------------------------------------------------
\* Why a session is broken

\* A session is broken because its connection is lost, or because its keep-alive gave
\* up, and then the loop has ended and keeps its error.
LEMMA BreakPreserved == TypeOK /\ FreshInv /\ BreakInv /\ [Next]_vars => BreakInv'
<1> SUFFICES ASSUME TypeOK, FreshInv, BreakInv, [Next]_vars,
                    NEW c \in Conns, broken'[c]
             PROVE  conn'[c] = "down" \/ (reply'[c] \in Error /\ pc'[c] = "ended")
    BY DEF BreakInv
<1>1. CASE broken[c] /\ conn[c] = "down"
    BY <1>1, OneWay
<1>2. CASE broken[c] /\ conn[c] # "down"
    <2>1. reply[c] \in Error /\ pc[c] = "ended"
        BY <1>2 DEF BreakInv
    <2>2. QED
        BY <2>1, EndedStays
<1>3. CASE ~broken[c]
    <2>1. CASE conn[c] = "down"
        BY <2>1, OneWay
    <2>2. CASE GivesUp(c)
        BY <2>2 DEF GivesUp, KeepAliveReturn, TypeOK, ControlTypeOK, Actors
    <2>3. QED
        BY <1>3, <2>1, <2>2, Breaks
<1>4. QED
    BY <1>1, <1>2, <1>3

\* BrokenMeansLost with what it needs to be inductive.
BreakParts == FreshInv /\ BreakInv

\* It holds at the start.
LEMMA BreakInit == Init => BreakParts
BY LinkAssumption
   DEF Init, LinkInit, SessionInit, BreakParts, FreshInv, BreakInv, Opened, Actors

\* Only the loss of its connection or a failure of its own keep-alive breaks a
\* session, whatever errors its callers meet: a misfit or a refusal does not, and so
\* it goes on to be used (opend.rs:253-264, 315-322).
THEOREM BrokenSessionsLost == Spec => []BrokenMeansLost
<1>1. TypeOK /\ BreakParts /\ [Next]_vars => BreakParts'
    BY FreshPreserved, BreakPreserved DEF BreakParts
<1>2. BreakParts => BrokenMeansLost
    BY DEF BreakParts, BreakInv, BrokenMeansLost
<1>3. QED
    BY <1>1, <1>2, BreakInit, TypeCorrect, PTL DEF Spec

-----------------------------------------------------------------------------
\* Why a session is replaced

\* ensure_session closes a broken session, invalidate_session any (opend.rs:136-159).
LEMMA Closes ==
    ASSUME TypeOK, SlotInv, [Next]_vars, NEW c \in Conns, closed'[c], ~closed[c]
    PROVE  broken[c] \/ \E t \in Tasks : pc[t] = "invalidate"
<1>1. \E t \in Tasks : SlotStep(t)
    BY SlotFrame DEF SlotUntouched
<1>2. PICK t \in Tasks : SlotStep(t)
    BY <1>1
<1>3. CASE Ensure(t)
    <2>1. c = slot /\ IsBroken(slot)
        BY <1>3, LinkAssumption DEF Ensure, Actors
    <2>2. QED
        BY <2>1 DEF IsBroken
<1>4. CASE Invalidate(t)
    BY <1>4 DEF Invalidate
<1>5. CASE ConnectOk(t) \/ ConnectFails(t)
    BY <1>5 DEF ConnectOk, ConnectFails
<1>6. QED
    BY <1>2, <1>3, <1>4, <1>5 DEF SlotStep

\* query goes to invalidate_session after a failure on a session that was broken or
\* closed by then, and remembers it (opend.rs:97-104).
LEMMA Invalidates ==
    ASSUME TypeOK, [Next]_vars, NEW t \in Tasks, pc'[t] = "invalidate", pc[t] # "invalidate"
    PROVE  /\ sess[t] \in Conns /\ IsBroken(sess[t])
           /\ first'[t] = sess[t]
<1> USE DEF TypeOK, SessionTypeOK, ControlTypeOK
<1>0. t \in Actors /\ t \notin Conns
    BY LinkAssumption DEF Actors
<1>1. Task(t)
    BY OneTaskMoves
<1>2. CASE SlotStep(t)
    BY <1>0, <1>2 DEF SlotStep, Ensure, ConnectOk, ConnectFails, Invalidate, Ensured
<1>3. CASE (Call(t) \/ Exchange(t)) /\ UNCHANGED clientVars
    BY <1>0, <1>3, RoundtripMoves
<1>4. CASE Prepare(t) \/ RejectParams(t) \/ Submit(t) \/ CommandReturn(t)
    BY <1>0, <1>4 DEF Prepare, RejectParams, Submit, Admit, CommandReturn
<1>5. CASE QueryReturn(t)
    <2>1. Stale(t) /\ first' = [first EXCEPT ![t] = sess[t]] /\ pc[t] = "returned"
        BY <1>0, <1>5 DEF QueryReturn
    <2>2. sess[t] \in Conns
        BY <1>0, <2>1, HasSession DEF ExchangePc
    <2>3. QED
        BY <2>1, <2>2 DEF Stale
<1>6. QED
    BY <1>1, <1>2, <1>3, <1>4, <1>5 DEF Task, SlotStep

\* Before anything broke nothing is closed, and nobody is about to close anything.
LEMMA CausePreserved == TypeOK /\ SlotInv /\ CauseInv /\ [Next]_vars => CauseInv'
<1> SUFFICES ASSUME TypeOK, SlotInv, CauseInv, [Next]_vars,
                    ~\E c \in Conns : broken'[c]
             PROVE  /\ \A c \in Conns : ~closed'[c]
                    /\ \A t \in Tasks : pc'[t] # "invalidate"
    BY DEF CauseInv
<1>1. \A c \in Conns : ~broken[c]
    BY OneWay
<1>2. (\A c \in Conns : ~closed[c]) /\ (\A t \in Tasks : pc[t] # "invalidate")
    BY <1>1 DEF CauseInv
<1>3. \A c \in Conns : ~closed'[c]
    BY <1>1, <1>2, Closes
<1>4. \A t \in Tasks : pc'[t] # "invalidate"
    BY <1>1, <1>2, Invalidates DEF IsBroken
<1>5. QED
    BY <1>3, <1>4

\* NoSpuriousReconnect with what it needs to be inductive.
CauseParts == SlotInv /\ CauseInv

\* It holds at the start.
LEMMA CauseInit == Init => CauseParts
BY LinkAssumption
   DEF Init, LinkInit, SessionInit, CauseParts, SlotInv, CauseInv, OneCurrentSession, Opened,
       Actors

\* As long as no session broke, one connection serves all calls: those that come
\* while it is being made wait for it, and errors of other kinds replace nothing
\* (opend.rs:90-108, 136-159).
THEOREM OneConnection == Spec => []NoSpuriousReconnect
<1>1. TypeOK /\ CauseParts /\ [Next]_vars => CauseParts'
    BY SlotPreserved, CausePreserved DEF CauseParts
<1>2. CauseParts => NoSpuriousReconnect
    <2> SUFFICES ASSUME CauseParts, \A c \in Conns : ~broken[c],
                        NEW c \in Conns, NEW d \in Conns, Opened(c), Opened(d)
                 PROVE  c = d
        BY DEF NoSpuriousReconnect
    <2>1. ~closed[c] /\ ~closed[d]
        BY DEF CauseParts, CauseInv
    <2>2. slot = c /\ slot = d
        BY <2>1 DEF CauseParts, SlotInv, OneCurrentSession
    <2>3. QED
        BY <2>2
<1>3. QED
    BY <1>1, <1>2, CauseInit, TypeCorrect, PTL DEF Spec

-----------------------------------------------------------------------------
\* The one retry

\* A task gets its session from nobody else.
LEMMA SessionKept ==
    ASSUME TypeOK, [Next]_vars, NEW t \in Tasks, ~Task(t)
    PROVE  sess'[t] = sess[t]
<1> USE DEF TypeOK, SessionTypeOK, ControlTypeOK
<1>0. t \in Actors /\ t \notin Conns
    BY LinkAssumption DEF Actors
<1>1. ASSUME NEW s \in Tasks, Task(s) PROVE sess'[t] = sess[t]
    <2>0. s # t /\ s \in Actors
        BY <1>1 DEF Actors
    <2>1. CASE SlotStep(s)
        BY <1>0, <2>0, <2>1 DEF SlotStep, Ensure, ConnectOk, ConnectFails, Invalidate
    <2>2. CASE ~SlotStep(s)
        BY <1>1, <2>2, TaskMoves DEF Still
    <2>3. QED
        BY <2>1, <2>2
<1>2. CASE \E c \in Conns : KeepAlive(c) /\ UNCHANGED clientVars
    BY <1>2, KeepAliveMoves DEF Still
<1>3. CASE \/ \E c \in Conns : Release(c)
           \/ LinkNext /\ UNCHANGED <<sessionVars, clientVars>>
           \/ UNCHANGED vars
    BY <1>3 DEF Release, vars, sessionVars
<1>4. QED
    BY StepCases, <1>1, <1>2, <1>3

\* Where the session a task gave up and the one it works on can come from.
LEMMA RetryMoves ==
    ASSUME TypeOK, FreshInv, [Next]_vars, NEW t \in Tasks
    PROVE  \/ /\ UNCHANGED <<first[t], sess[t]>>
              /\ pc'[t] \in ExchangePc => pc[t] \in ExchangePc \cup {"prepared"}
           \/ /\ first'[t] = first[t]
              /\ sess'[t] \in Conns
              /\ first[t] \in Conns /\ IsBroken(first[t]) => sess'[t] # first[t]
           \/ pc'[t] = "invalidate" /\ pc[t] # "invalidate"
<1> USE DEF TypeOK, SessionTypeOK, ControlTypeOK
<1>0. t \in Actors /\ t \notin Conns
    BY LinkAssumption DEF Actors
<1>1. CASE Task(t)
    <2>1. CASE Ensure(t)
        BY <1>0, <2>1 DEF Ensure, ExchangePc
    <2>2. CASE ConnectOk(t)
        <3>1. PICK c \in Conns :
                conn[c] = "unopened" /\ sess' = [sess EXCEPT ![t] = c]
            BY <2>2 DEF ConnectOk
        <3>2. first[t] # c /\ first' = first
            BY <2>2, <3>1 DEF ConnectOk, FreshInv, Opened
        <3>3. QED
            BY <1>0, <3>1, <3>2
    <2>3. CASE ConnectFails(t) \/ Invalidate(t) \/ RejectParams(t) \/ CommandReturn(t)
        BY <1>0, <2>3 DEF ConnectFails, Invalidate, RejectParams, CommandReturn, ExchangePc,
                          clientVars
    <2>4. CASE Prepare(t) \/ Submit(t)
        BY <1>0, <2>4 DEF Prepare, Submit, Admit, ExchangePc, clientVars
    <2>5. CASE QueryReturn(t)
        BY <1>0, <2>5 DEF QueryReturn, ExchangePc
    <2>6. CASE (Call(t) \/ Exchange(t)) /\ UNCHANGED clientVars
        BY <1>0, <2>6, RoundtripMoves DEF Still, clientVars, ExchangePc
    <2>7. QED
        BY <1>1, <2>1, <2>2, <2>3, <2>4, <2>5, <2>6 DEF Task
<1>2. CASE ~Task(t)
    <2>1. pc'[t] = pc[t] /\ first'[t] = first[t]
        BY <1>2, OneTaskMoves
    <2>2. sess'[t] = sess[t]
        BY <1>2, SessionKept
    <2>3. QED
        BY <2>1, <2>2
<1>3. QED
    BY <1>1, <1>2

\* What a query gave up on is broken, and its second attempt is made elsewhere
\* (opend.rs:90-108).
LEMMA RetryPreserved == TypeOK /\ FreshInv /\ KindInv /\ RetryInv /\ [Next]_vars => RetryInv'
<1> SUFFICES ASSUME TypeOK, FreshInv, KindInv, RetryInv, [Next]_vars PROVE RetryInv'
    OBVIOUS
<1>0. None \notin Conns
    BY LinkAssumption DEF Actors
<1>1. \A c \in Conns : IsBroken(c) => broken'[c] \/ closed'[c]
    BY OneWay DEF IsBroken
<1>2. ASSUME NEW t \in Tasks
      PROVE  /\ first'[t] # None =>
                    first'[t] \in Conns /\ (broken'[first'[t]] \/ closed'[first'[t]])
             /\ pc'[t] = "invalidate" => first'[t] # None
    <2>0. /\ first[t] # None => first[t] \in Conns /\ IsBroken(first[t])
          /\ pc[t] = "invalidate" => first[t] # None
        BY DEF RetryInv
    <2>1. CASE pc'[t] = "invalidate" /\ pc[t] # "invalidate"
        BY <1>0, <1>1, <2>1, Invalidates
    <2>2. CASE ~(pc'[t] = "invalidate" /\ pc[t] # "invalidate")
        <3>1. first'[t] = first[t]
            BY <2>2, RetryMoves
        <3>2. QED
            BY <1>1, <2>0, <2>2, <3>1
    <2>3. QED
        BY <2>1, <2>2
<1>3. ASSUME NEW t \in Queries, first'[t] # None, pc'[t] \in ExchangePc
      PROVE  sess'[t] # first'[t]
    <2>0. t \in Tasks /\ pc[t] # "prepared"
        BY DEF KindInv, Tasks
    <2>1. /\ first[t] # None => first[t] \in Conns /\ IsBroken(first[t])
          /\ first[t] # None /\ pc[t] \in ExchangePc => sess[t] # first[t]
        BY <2>0 DEF RetryInv, RetryIsFresh
    <2>2. pc'[t] # "invalidate"
        BY <1>3 DEF ExchangePc
    <2>3. QED
        BY <1>3, <2>0, <2>1, <2>2, RetryMoves
<1>4. QED
    BY <1>2, <1>3 DEF RetryInv, RetryIsFresh, IsBroken

-----------------------------------------------------------------------------
\* All of it

\* At the start no query has given up on anything.
LEMMA RetryInit == Init => RetryInv /\ KindInv
BY LinkAssumption DEF Init, RetryInv, KindInv, RetryIsFresh, ExchangePc, Actors, Tasks

\* The invariants about sessions and streams hold together for any number of calls
\* and connections; among them RetryIsFresh, that no query makes its second attempt
\* on the session of the first.
THEOREM ClientInvariant == Spec => []ClientInv
<1> DEFINE Inv == ClientInv /\ (~Pushes => ReplyMatchesRequest)
<1>1. Init => Inv
    BY BreakInit, CauseInit, RetryInit, StreamInit
       DEF ClientInv, BreakParts, CauseParts, StreamParts
<1>2. TypeOK /\ Inv /\ [Next]_vars => Inv'
    <2> SUFFICES ASSUME TypeOK, Inv, [Next]_vars PROVE Inv'
        OBVIOUS
    <2>1. SlotInv' /\ FreshInv' /\ KindInv'
        BY SlotPreserved, FreshPreserved, KindPreserved DEF ClientInv
    <2>2. RetryInv' /\ BreakInv' /\ CauseInv'
        BY RetryPreserved, BreakPreserved, CausePreserved DEF ClientInv
    <2>3. StreamParts'
        BY StreamKept DEF ClientInv, StreamParts
    <2>4. QED
        BY <2>1, <2>2, <2>3 DEF ClientInv, StreamParts
<1>3. Inv => ClientInv
    OBVIOUS
<1>4. QED
    BY <1>1, <1>2, <1>3, TypeCorrect, PTL DEF Spec

=============================================================================
