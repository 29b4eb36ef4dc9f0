----------------------------- MODULE CommandProofs -----------------------------
(***************************************************************************)
(* Proofs about commands: the one request of a command is carried out at   *)
(* most once, what its caller is told of it stays true, and MoomooClient   *)
(* keeps the promise of Orders.                                            *)
(***************************************************************************)
EXTENDS MoomooClientProofs

-----------------------------------------------------------------------------
\* What a stream holds, after each of the operations on it

\* The places of a stream one packet longer.
LEMMA Places ==
    ASSUME NEW n \in Nat
    PROVE  /\ 1..(n + 1) = (1..n) \cup {n + 1}
           /\ n + 1 \notin 1..n
OBVIOUS

\* Writing a packet adds it and nothing else.
LEMMA ContainsAppend ==
    ASSUME NEW S, NEW s \in Seq(S), NEW e \in S, NEW x
    PROVE  /\ Contains(Append(s, e), x) <=> Contains(s, x) \/ e = x
           /\ Once(s, x) /\ (e # x \/ ~Contains(s, x)) => Once(Append(s, e), x)
<1> DEFINE n == Len(s)
           r == Append(s, e)
<1>1. n \in Nat /\ Len(r) = n + 1
    BY AppendProperties, LenProperties
<1>2. (\A i \in 1..n : r[i] = s[i]) /\ r[n + 1] = e
    BY AppendProperties
<1>3. 1..Len(r) = (1..n) \cup {n + 1} /\ n + 1 \notin 1..n
    BY <1>1, Places
<1> HIDE DEF r
<1>4. Contains(r, x) <=> Contains(s, x) \/ e = x
    BY <1>2, <1>3 DEF Contains
<1>5. Once(s, x) /\ (e # x \/ ~Contains(s, x)) => Once(r, x)
    BY <1>2, <1>3 DEF Once, Contains
<1>6. QED
    BY <1>4, <1>5 DEF r

\* Taking the first packet removes it and nothing else.
LEMMA ContainsTail ==
    ASSUME NEW S, NEW s \in Seq(S), s # <<>>, NEW x
    PROVE  /\ Contains(s, Head(s))
           /\ Contains(Tail(s), x) => Contains(s, x)
           /\ Once(s, x) => Once(Tail(s), x)
           /\ Once(s, x) /\ Head(s) = x => ~Contains(Tail(s), x)
<1> DEFINE n == Len(s)
           r == Tail(s)
<1>1. n \in Nat /\ n # 0 /\ Len(r) = n - 1 /\ Head(s) = s[1]
    BY Rest
<1>2. \A i \in 1..Len(r) : r[i] = s[i + 1]
    BY Rest
<1> HIDE DEF r, n
<1>3. /\ 1 \in 1..n
      /\ \A i \in 1..Len(r) : i + 1 \in 1..n /\ i + 1 # 1
      /\ \A i, j \in 1..Len(r) : i + 1 = j + 1 => i = j
    BY <1>1
<1>4. Contains(s, Head(s))
    BY <1>1, <1>3 DEF Contains, n
<1>5. Contains(r, x) => Contains(s, x)
    BY <1>2, <1>3 DEF Contains, n
<1>6. Once(s, x) => Once(r, x)
    BY <1>2, <1>3 DEF Once, n
<1>7. Once(s, x) /\ Head(s) = x => ~Contains(r, x)
    BY <1>1, <1>2, <1>3 DEF Once, Contains, n
<1>8. QED
    BY <1>4, <1>5, <1>6, <1>7 DEF r

\* Losing the end of a stream adds nothing.
LEMMA ContainsPrefix ==
    ASSUME NEW S, NEW s \in Seq(S), NEW k \in 0..Len(s), NEW x
    PROVE  /\ Contains(SubSeq(s, 1, k), x) => Contains(s, x)
           /\ Once(s, x) => Once(SubSeq(s, 1, k), x)
<1> DEFINE r == SubSeq(s, 1, k)
<1>1. Len(r) = k /\ \A i \in 1..k : r[i] = s[i]
    BY Prefix
<1>2. \A i \in 1..k : i \in 1..Len(s)
    BY LenProperties
<1> HIDE DEF r
<1>3. Contains(r, x) => Contains(s, x)
    BY <1>1, <1>2 DEF Contains
<1>4. Once(s, x) => Once(r, x)
    BY <1>1, <1>2 DEF Once
<1>5. QED
    BY <1>3, <1>4 DEF r

-----------------------------------------------------------------------------
\* Queries and commands keep to their own steps

\* A step of one task leaves the control state of every other task alone.
LEMMA OthersStay ==
    ASSUME TypeOK, NEW s \in Tasks, Task(s), NEW t \in Tasks, s # t
    PROVE  pc'[t] = pc[t] /\ reply'[t] = reply[t] /\ first'[t] = first[t]
<1> USE DEF TypeOK, SessionTypeOK, ControlTypeOK
<1>0. s \in Actors /\ t \in Actors /\ t \notin Conns
    BY LinkAssumption DEF Actors
<1>1. CASE Ensure(s)
    BY <1>0, <1>1 DEF Ensure
<1>2. CASE ConnectOk(s)
    BY <1>0, <1>2 DEF ConnectOk
<1>3. CASE ConnectFails(s) \/ Prepare(s) \/ RejectParams(s) \/ Submit(s) \/ CommandReturn(s)
    BY <1>0, <1>3 DEF ConnectFails, Prepare, RejectParams, Submit, Admit, CommandReturn,
                      clientVars
<1>4. CASE QueryReturn(s) \/ Invalidate(s)
    BY <1>0, <1>4 DEF QueryReturn, Invalidate, Forget
<1>5. CASE (Call(s) \/ Exchange(s)) /\ UNCHANGED clientVars
    BY <1>0, <1>5 DEF Call, Admit, Exchange, Send, SendFails, Receive, ReceiveFails, IoError,
                      clientVars
<1>6. QED
    BY <1>1, <1>2, <1>3, <1>4, <1>5 DEF Task

\* A step leaves the control state of all tasks but at most one alone.
LEMMA OneTaskMoves ==
    ASSUME TypeOK, [Next]_vars, NEW t \in Tasks,
           ~Task(t)
    PROVE  pc'[t] = pc[t] /\ reply'[t] = reply[t] /\ first'[t] = first[t]
<1>1. ASSUME NEW s \in Tasks, Task(s)
      PROVE  pc'[t] = pc[t] /\ reply'[t] = reply[t] /\ first'[t] = first[t]
    BY <1>1, OthersStay
<1> USE DEF TypeOK, SessionTypeOK, ControlTypeOK
<1>2. ASSUME NEW c \in Conns, KeepAlive(c), UNCHANGED clientVars
      PROVE  pc'[t] = pc[t] /\ reply'[t] = reply[t] /\ first'[t] = first[t]
    <2>0. c # t /\ c \in Actors /\ t \in Actors
        BY LinkAssumption DEF Actors
    <2>1. CASE Call(c) \/ Exchange(c)
        BY <1>2, <2>0, <2>1 DEF Call, Admit, Exchange, Send, SendFails, Receive, ReceiveFails,
                                IoError, clientVars
    <2>2. CASE KeepAliveTop(c) \/ KeepAliveInterval(c) \/ KeepAliveWake(c) \/ KeepAliveReturn(c)
        BY <1>2, <2>0, <2>2 DEF KeepAliveTop, KeepAliveInterval, KeepAliveWake, KeepAliveReturn,
                                Forget, clientVars
    <2>3. QED
        BY <1>2, <2>1, <2>2 DEF KeepAlive
<1>3. CASE \E c \in Conns : Release(c)
    BY <1>3 DEF Release, sessionVars, clientVars
<1>4. CASE LinkNext /\ UNCHANGED <<sessionVars, clientVars>>
    BY <1>4 DEF sessionVars, clientVars
<1>5. CASE UNCHANGED vars
    BY <1>5 DEF vars, sessionVars, clientVars
<1>6. QED
    BY StepCases, <1>1, <1>2, <1>3, <1>4, <1>5

\* How a command moves: from its session to its context, to the exchange and
\* back, and never to a step of query.
CommandMoves(t) ==
    \/ pc[t] = "ensure" /\ pc'[t] \in {"prepare", "connect"} /\ UNCHANGED reply
    \/ pc[t] = "connect" /\ pc'[t] = "prepare" /\ UNCHANGED reply
    \/ pc[t] = "connect" /\ pc'[t] = "done" /\ reply'[t] = "connect"
    \/ pc[t] = "prepare" /\ pc'[t] = "prepared" /\ UNCHANGED reply
    \/ pc[t] = "prepared" /\ pc'[t] = "done" /\ reply'[t] = "invalid"
    \/ pc[t] = "prepared" /\ pc'[t] = "wait" /\ UNCHANGED reply
    \/ pc[t] = "prepared" /\ pc'[t] = "returned" /\ reply'[t] = "closed"
    \/ pc[t] = "wait" /\ pc'[t] = "recv" /\ UNCHANGED reply /\ Send(t)
    \/ pc[t] = "wait" /\ pc'[t] = "returned" /\ reply'[t] = "io"
    \/ pc[t] = "recv" /\ pc'[t] = "returned" /\ reply'[t] = "io"
    \/ pc[t] = "recv" /\ pc'[t] = "returned" /\ Receive(t)
    \/ pc[t] = "returned" /\ pc'[t] = "done" /\ UNCHANGED reply

\* A step of a command is one of those (opend.rs:110-134).
LEMMA CommandSteps ==
    ASSUME TypeOK, KindInv, NEW t \in Commands, Task(t)
    PROVE  CommandMoves(t) /\ first'[t] = first[t]
<1> USE DEF TypeOK, SessionTypeOK, ControlTypeOK
<1>0. t \in Actors /\ t \in Tasks /\ t \notin Conns /\ t \notin Queries
    BY LinkAssumption DEF Actors, Tasks
<1>1. CASE Ensure(t)
    <2>1. pc[t] = "ensure" /\ pc'[t] \in {"prepare", "connect"} /\ UNCHANGED <<reply, first>>
        BY <1>0, <1>1 DEF Ensure, Ensured
    <2>2. QED
        BY <2>1 DEF CommandMoves
<1>2. CASE ConnectOk(t)
    <2>1. pc[t] = "connect" /\ pc'[t] = "prepare" /\ UNCHANGED <<reply, first>>
        BY <1>0, <1>2 DEF ConnectOk, Ensured
    <2>2. QED
        BY <2>1 DEF CommandMoves
<1>3. CASE ConnectFails(t) \/ Prepare(t) \/ RejectParams(t) \/ Submit(t) \/ CommandReturn(t)
    BY <1>0, <1>3 DEF ConnectFails, Prepare, RejectParams, Submit, Admit, CommandReturn,
                      clientVars, CommandMoves
<1>4. ~QueryReturn(t) /\ ~Invalidate(t) /\ ~Call(t)
    BY <1>0 DEF QueryReturn, Invalidate, Call, KindInv
<1>5. CASE Exchange(t) /\ UNCHANGED clientVars
    <2>1. CASE Send(t)
        <3>1. pc[t] = "wait" /\ pc'[t] = "recv" /\ UNCHANGED <<reply, first>>
            BY <1>0, <1>5, <2>1 DEF Send, clientVars
        <3>2. QED
            BY <2>1, <3>1 DEF CommandMoves
    <2>2. CASE SendFails(t) \/ ReceiveFails(t)
        BY <1>0, <1>5, <2>2 DEF SendFails, ReceiveFails, IoError, clientVars, CommandMoves
    <2>3. CASE Receive(t)
        <3>1. pc[t] = "recv" /\ pc'[t] = "returned" /\ UNCHANGED first
            BY <1>0, <1>5, <2>3 DEF Receive, clientVars
        <3>2. QED
            BY <2>3, <3>1 DEF CommandMoves
    <2>4. QED
        BY <1>5, <2>1, <2>2, <2>3 DEF Exchange
<1>6. QED
    BY <1>1, <1>2, <1>3, <1>4, <1>5 DEF Task

\* A step of a query keeps clear of the steps of a command.
LEMMA QuerySteps ==
    ASSUME TypeOK, KindInv, NEW t \in Queries, Task(t)
    PROVE  pc'[t] \notin {"prepare", "prepared"}
<1> USE DEF TypeOK, ControlTypeOK
<1>0. t \in Actors /\ t \in Tasks /\ t \notin Conns /\ t \notin Commands
    BY LinkAssumption DEF Actors, Tasks
<1>1. CASE Ensure(t) \/ ConnectOk(t)
    BY <1>0, <1>1 DEF Ensure, ConnectOk, Ensured
<1>2. CASE ConnectFails(t) \/ QueryReturn(t) \/ Invalidate(t)
    BY <1>0, <1>2 DEF ConnectFails, QueryReturn, Invalidate
<1>3. ~Prepare(t) /\ ~RejectParams(t) /\ ~Submit(t) /\ ~CommandReturn(t)
    BY <1>0 DEF Prepare, RejectParams, Submit, CommandReturn, KindInv
<1>4. CASE Call(t) \/ Exchange(t)
    BY <1>0, <1>4, RoundtripMoves
<1>5. QED
    BY <1>1, <1>2, <1>3, <1>4 DEF Task

\* KindInv is inductive.
LEMMA KindPreserved == TypeOK /\ KindInv /\ [Next]_vars => KindInv'
<1> SUFFICES ASSUME TypeOK, KindInv, [Next]_vars PROVE KindInv'
    OBVIOUS
<1>1. ASSUME NEW t \in Commands PROVE first'[t] = None /\ pc'[t] \notin {"call", "invalidate"}
    <2>1. t \in Tasks /\ first[t] = None /\ pc[t] \notin {"call", "invalidate"}
        BY DEF Tasks, KindInv
    <2>2. CASE Task(t)
        BY <2>1, <2>2, CommandSteps DEF CommandMoves
    <2>3. CASE ~Task(t)
        BY <2>1, <2>3, OneTaskMoves
    <2>4. QED
        BY <2>2, <2>3
<1>2. ASSUME NEW t \in Queries PROVE pc'[t] \notin {"prepare", "prepared"}
    <2>1. t \in Tasks /\ pc[t] \notin {"prepare", "prepared"}
        BY DEF Tasks, KindInv
    <2>2. CASE Task(t)
        BY <2>2, QuerySteps
    <2>3. CASE ~Task(t)
        BY <2>1, <2>3, OneTaskMoves
    <2>4. QED
        BY <2>2, <2>3
<1>3. QED
    BY <1>1, <1>2 DEF KindInv

-----------------------------------------------------------------------------
\* The one request of a command

\* The part of OnceInv about one command.
OnceOK(t) ==
    /\ executed[t] \in {0, 1}
    /\ Pending(t) => executed[t] = 0
    /\ Unsent(t) => executed[t] = 0 /\ ~Pending(t)
    /\ \A c \in Conns : Once(outbox[c], t)
    /\ \A c, d \in Conns : Contains(outbox[c], t) /\ Contains(outbox[d], t) => c = d

\* A command never becomes unsent again.
LEMMA UnsentShrinks ==
    ASSUME TypeOK, KindInv, [Next]_vars, NEW t \in Commands
    PROVE  Unsent(t)' => Unsent(t)
<1>1. t \in Tasks
    BY DEF Tasks
<1>2. CASE Task(t)
    BY <1>2, CommandSteps DEF CommandMoves, Unsent
<1>3. CASE ~Task(t)
    BY <1>1, <1>3, OneTaskMoves DEF Unsent
<1>4. QED
    BY <1>2, <1>3

\* What only takes requests off the streams disturbs nothing.
LEMMA OnceShrinks ==
    ASSUME NEW t, OnceOK(t), executed'[t] = executed[t], Unsent(t)' => Unsent(t),
           \A c \in Conns : /\ Contains(outbox'[c], t) => Contains(outbox[c], t)
                            /\ Once(outbox[c], t) => Once(outbox'[c], t)
    PROVE  OnceOK(t)'
<1>1. Pending(t)' => Pending(t)
    BY DEF Pending
<1>2. \A c \in Conns : Once(outbox'[c], t)
    BY DEF OnceOK
<1>3. \A c, d \in Conns : Contains(outbox'[c], t) /\ Contains(outbox'[d], t) => c = d
    BY DEF OnceOK
<1>4. QED
    BY <1>1, <1>2, <1>3 DEF OnceOK

\* The write of a request (opend.rs:285-301).
LEMMA OnceSend ==
    ASSUME TypeOK, KindInv, [Next]_vars, NEW t \in Commands, OnceOK(t),
           NEW a \in Actors, Send(a)
    PROVE  OnceOK(t)'
<1>0. /\ sess[a] \in Conns /\ t \in Actors
      /\ \A c \in Conns : outbox[c] \in Seq(Actors)
    BY HasSession DEF Send, ExchangePc, Actors, Tasks, TypeOK, LinkTypeOK
<1>1. \A c \in Conns : c # sess[a] => outbox'[c] = outbox[c]
    BY DEF Send, TypeOK, LinkTypeOK
<1>2. outbox'[sess[a]] \in {outbox[sess[a]], Append(outbox[sess[a]], a)}
    BY <1>0 DEF Send, TypeOK, LinkTypeOK
<1>3. executed' = executed
    BY DEF Send
<1> DEFINE q == outbox[sess[a]]
<1>a. /\ Contains(Append(q, a), t) <=> Contains(q, t) \/ a = t
      /\ Once(q, t) /\ (a # t \/ ~Contains(q, t)) => Once(Append(q, a), t)
    <2>1. q \in Seq(Actors) /\ a \in Actors
        BY <1>0
    <2> HIDE DEF q
    <2>2. QED
        BY <2>1, ContainsAppend
<1>4. CASE a # t
    <2>1. ASSUME NEW c \in Conns
          PROVE  /\ Contains(outbox'[c], t) => Contains(outbox[c], t)
                 /\ Once(outbox[c], t) => Once(outbox'[c], t)
        <3>1. CASE c = sess[a]
            BY <1>2, <1>4, <1>a, <3>1
        <3>2. CASE c # sess[a]
            BY <1>1, <3>2
        <3>3. QED
            BY <3>1, <3>2
    <2>2. QED
        BY <1>3, <2>1, OnceShrinks, UnsentShrinks
<1>5. CASE a = t
    <2>1. Unsent(t) /\ ~Unsent(t)'
        BY <1>0, <1>5 DEF Send, Unsent, TypeOK, ControlTypeOK
    <2>2. executed[t] = 0 /\ \A c \in Conns : ~Contains(outbox[c], t)
        BY <2>1 DEF OnceOK, Pending
    <2>3. \A c \in Conns : Contains(outbox'[c], t) => c = sess[a]
        BY <1>1, <2>2
    <2>4. \A c \in Conns : Once(outbox'[c], t)
        <3>1. ASSUME NEW c \in Conns PROVE Once(outbox'[c], t)
            <4>1. Once(outbox[c], t)
                BY DEF OnceOK
            <4>2. CASE c = sess[a]
                BY <1>2, <1>a, <2>2, <4>1, <4>2
            <4>3. CASE c # sess[a]
                BY <1>1, <4>1, <4>3
            <4>4. QED
                BY <4>2, <4>3
        <3>2. QED
            BY <3>1
    <2>5. QED
        BY <1>3, <2>1, <2>2, <2>3, <2>4 DEF OnceOK
<1>6. QED
    BY <1>4, <1>5

\* OpenD takes a request and perhaps carries it out.
LEMMA OnceServe ==
    ASSUME TypeOK, KindInv, [Next]_vars, NEW t \in Commands, OnceOK(t),
           NEW d \in Conns, Serve(d)
    PROVE  OnceOK(t)'
<1>0. /\ t \in Tasks /\ outbox[d] # <<>>
      /\ \A c \in Conns : outbox[c] \in Seq(Actors)
    BY DEF Serve, Tasks, TypeOK, LinkTypeOK
<1>1. /\ outbox'[d] = Tail(outbox[d])
      /\ \A c \in Conns : c # d => outbox'[c] = outbox[c]
    BY DEF Serve, TypeOK, LinkTypeOK
<1>2. executed'[t] = executed[t] \/ (Head(outbox[d]) = t /\ executed'[t] = executed[t] + 1)
    BY <1>0 DEF Serve
<1>3. \A c \in Conns : /\ Contains(outbox'[c], t) => Contains(outbox[c], t)
                       /\ Once(outbox[c], t) => Once(outbox'[c], t)
    BY <1>0, <1>1, ContainsTail
<1>4. CASE executed'[t] = executed[t]
    BY <1>3, <1>4, OnceShrinks, UnsentShrinks
<1>5. CASE Head(outbox[d]) = t /\ executed'[t] = executed[t] + 1
    <2>1. Contains(outbox[d], t) /\ ~Contains(outbox'[d], t)
        BY <1>0, <1>1, <1>5, ContainsTail DEF OnceOK
    <2>2. Pending(t) /\ executed[t] = 0 /\ executed'[t] = 1
        BY <1>5, <2>1 DEF OnceOK, Pending
    <2>3. ~Pending(t)'
        BY <1>3, <2>1 DEF OnceOK, Pending
    <2>4. ~Unsent(t)'
        BY <2>2, UnsentShrinks DEF OnceOK
    <2>5. (\A c \in Conns : Once(outbox'[c], t))
          /\ \A c \in Conns : ~Contains(outbox'[c], t)
        BY <1>3, <2>3 DEF OnceOK, Pending
    <2>6. QED
        BY <2>2, <2>3, <2>4, <2>5 DEF OnceOK
<1>6. QED
    BY <1>2, <1>4, <1>5

\* Every step keeps the request of a command in one place.
LEMMA OncePreserved ==
    ASSUME TypeOK, FreshInv, KindInv, [Next]_vars, NEW t \in Commands, OnceOK(t)
    PROVE  OnceOK(t)'
<1>1. CASE UNCHANGED <<outbox, executed>>
    BY <1>1, UnsentShrinks, OnceShrinks
<1>2. CASE ~StreamStep
    BY <1>1, <1>2, StreamFrame DEF StreamUntouched
<1>3. ASSUME NEW a \in Actors, Exchange(a) PROVE OnceOK(t)'
    <2>1. CASE Send(a)
        BY <2>1, OnceSend
    <2>2. CASE SendFails(a) \/ Receive(a) \/ ReceiveFails(a)
        BY <1>1, <2>2 DEF SendFails, Receive, ReceiveFails, IoError, linkVars
    <2>3. QED
        BY <1>3, <2>1, <2>2 DEF Exchange
<1>4. CASE LinkNext /\ UNCHANGED <<sessionVars, clientVars>>
    <2>1. PICK d \in Conns : Serve(d) \/ Push(d) \/ Drop(d)
        BY <1>4 DEF LinkNext
    <2>2. CASE Serve(d)
        BY <2>2, OnceServe
    <2>3. CASE Push(d)
        BY <1>1, <2>3 DEF Push
    <2>4. CASE Drop(d)
        <3>1. PICK i \in 0..Len(outbox[d]) :
                outbox' = [outbox EXCEPT ![d] = SubSeq(@, 1, i)]
            BY <2>4 DEF Drop
        <3>2. outbox[d] \in Seq(Actors) /\ outbox \in [Conns -> Seq(Actors)]
            BY DEF TypeOK, LinkTypeOK
        <3>3. \A c \in Conns : /\ Contains(outbox'[c], t) => Contains(outbox[c], t)
                               /\ Once(outbox[c], t) => Once(outbox'[c], t)
            BY <3>1, <3>2, ContainsPrefix
        <3>4. QED
            BY <2>4, <3>3, OnceShrinks, UnsentShrinks DEF Drop
    <2>5. QED
        BY <2>1, <2>2, <2>3, <2>4
<1>5. CASE \E c \in Conns : Release(c)
    BY <1>1, <1>5 DEF Release
<1>6. QED
    BY <1>2, <1>3, <1>4, <1>5 DEF StreamStep

\* The inductive invariant of CommandsOnce.
OnceParts == FreshInv /\ KindInv /\ OnceInv

\* It holds at the start.
LEMMA OnceInit == Init => OnceParts
<1> SUFFICES ASSUME Init PROVE OnceParts
    OBVIOUS
<1> USE LinkAssumption DEF Init, LinkInit, SessionInit, Actors, Tasks
<1>1. FreshInv
    BY DEF FreshInv, Opened
<1>2. KindInv
    BY DEF KindInv
<1>3. \A c \in Conns, t \in Commands : ~Contains(outbox[c], t) /\ Once(outbox[c], t)
    <2>1. \A c \in Conns : Len(outbox[c]) = 0
        OBVIOUS
    <2>2. QED
        BY <2>1 DEF Contains, Once
<1>4. OnceInv
    BY <1>3 DEF OnceInv, Pending
<1>5. QED
    BY <1>1, <1>2, <1>4 DEF OnceParts

\* And every step keeps it.
LEMMA OnceStep == TypeOK /\ OnceParts /\ [Next]_vars => OnceParts'
<1> SUFFICES ASSUME TypeOK, OnceParts, [Next]_vars PROVE OnceParts'
    OBVIOUS
<1>1. FreshInv' /\ KindInv'
    BY FreshPreserved, KindPreserved DEF OnceParts
<1>2. \A t \in Commands : OnceOK(t)'
    BY OncePreserved DEF OnceParts, OnceInv, OnceOK
<1>3. OnceInv'
    BY <1>2 DEF OnceInv, OnceOK
<1>4. QED
    BY <1>1, <1>3 DEF OnceParts

\* A command is carried out at most once: its request is written once, stands
\* in one stream in one place, and OpenD takes it from there; no reconnect of
\* another call moves it to a new session (opend.rs:120-134).
THEOREM CommandsOnce == Spec => []AtMostOnce
<1>1. OnceParts => AtMostOnce
    BY DEF OnceParts, OnceInv, AtMostOnce
<1>2. QED
    BY <1>1, OnceInit, OnceStep, TypeCorrect, PTL DEF Spec

-----------------------------------------------------------------------------
\* What becomes of a request

\* Only OpenD carries requests out.
LEMMA EffectMoves ==
    ASSUME TypeOK, FreshInv, [Next]_vars
    PROVE  \/ UNCHANGED executed
           \/ \E d \in Conns : Serve(d) /\ UNCHANGED <<sessionVars, clientVars>>
<1>1. CASE ~StreamStep
    BY <1>1, StreamFrame DEF StreamUntouched
<1>2. CASE \E a \in Actors : Exchange(a)
    BY <1>2 DEF Exchange, Send, SendFails, Receive, ReceiveFails, IoError, linkVars
<1>3. CASE LinkNext /\ UNCHANGED <<sessionVars, clientVars>>
    BY <1>3 DEF LinkNext, Push, Drop
<1>4. CASE \E c \in Conns : Release(c)
    BY <1>4 DEF Release
<1>5. QED
    BY <1>1, <1>2, <1>3, <1>4 DEF StreamStep

\* Only the write of its request makes a command pending.
LEMMA PendingMoves ==
    ASSUME TypeOK, FreshInv, [Next]_vars, NEW t \in Commands, Pending(t)', ~Send(t)
    PROVE  Pending(t)
<1>0. \A c \in Conns : outbox[c] \in Seq(Actors)
    BY DEF TypeOK, LinkTypeOK
<1>1. CASE UNCHANGED outbox
    BY <1>1 DEF Pending
<1>2. CASE ~StreamStep
    BY <1>1, <1>2, StreamFrame DEF StreamUntouched
<1>3. ASSUME NEW a \in Actors, Exchange(a) PROVE Pending(t)
    <2>1. CASE SendFails(a) \/ Receive(a) \/ ReceiveFails(a)
        BY <1>1, <2>1 DEF SendFails, Receive, ReceiveFails, IoError, linkVars
    <2>2. CASE Send(a)
        <3>1. sess[a] \in Conns /\ a # t
            BY <2>2, HasSession DEF Send, ExchangePc
        <3>2. PICK c \in Conns : Contains(outbox'[c], t)
            BY DEF Pending
        <3>3. outbox'[c] \in {outbox[c], Append(outbox[c], a)}
            BY <2>2, <3>1 DEF Send, TypeOK, LinkTypeOK
        <3>4. Contains(Append(outbox[c], a), t) => Contains(outbox[c], t)
            BY <1>0, <3>1, ContainsAppend
        <3>5. QED
            BY <3>2, <3>3, <3>4 DEF Pending
    <2>3. QED
        BY <1>3, <2>1, <2>2 DEF Exchange
<1>4. CASE LinkNext /\ UNCHANGED <<sessionVars, clientVars>>
    <2>1. PICK d \in Conns : Serve(d) \/ Push(d) \/ Drop(d)
        BY <1>4 DEF LinkNext
    <2>2. CASE Push(d)
        BY <1>1, <2>2 DEF Push
    <2>3. CASE Serve(d)
        <3>1. outbox[d] # <<>> /\ outbox' = [outbox EXCEPT ![d] = Tail(@)]
            BY <2>3 DEF Serve
        <3>2. Contains(Tail(outbox[d]), t) => Contains(outbox[d], t)
            BY <1>0, <3>1, ContainsTail
        <3>3. QED
            BY <3>1, <3>2 DEF Pending, TypeOK, LinkTypeOK
    <2>4. CASE Drop(d)
        <3>1. PICK i \in 0..Len(outbox[d]) :
                outbox' = [outbox EXCEPT ![d] = SubSeq(@, 1, i)]
            BY <2>4 DEF Drop
        <3>2. Contains(SubSeq(outbox[d], 1, i), t) => Contains(outbox[d], t)
            BY <1>0, ContainsPrefix
        <3>3. QED
            BY <3>1, <3>2 DEF Pending, TypeOK, LinkTypeOK
    <2>5. QED
        BY <2>1, <2>2, <2>3, <2>4
<1>5. CASE \E c \in Conns : Release(c)
    BY <1>1, <1>5 DEF Release
<1>6. QED
    BY <1>2, <1>3, <1>4, <1>5 DEF StreamStep

\* A request is carried out from the stream it stands in, and leaves it.
LEMMA EffectOnce ==
    ASSUME TypeOK, FreshInv, OnceInv, [Next]_vars, NEW t \in Commands,
           executed'[t] # executed[t]
    PROVE  /\ Pending(t) /\ ~Pending(t)'
           /\ executed[t] = 0 /\ executed'[t] = 1
<1>1. PICK d \in Conns : Serve(d)
    BY EffectMoves
<1>0. /\ t \in Tasks /\ outbox[d] # <<>>
      /\ \A c \in Conns : outbox[c] \in Seq(Actors)
    BY <1>1 DEF Serve, Tasks, TypeOK, LinkTypeOK
<1>2. Head(outbox[d]) = t /\ executed'[t] = executed[t] + 1
    BY <1>0, <1>1 DEF Serve
<1>3. Contains(outbox[d], t) /\ Once(outbox[d], t)
    BY <1>0, <1>2, ContainsTail DEF OnceInv
<1>4. ~Contains(Tail(outbox[d]), t)
    BY <1>0, <1>2, <1>3, ContainsTail
<1>5. \A c \in Conns : c # d => ~Contains(outbox[c], t)
    BY <1>3 DEF OnceInv
<1>6. ~Pending(t)'
    BY <1>1, <1>4, <1>5 DEF Pending, Serve, TypeOK, LinkTypeOK
<1>7. QED
    BY <1>2, <1>3, <1>6 DEF Pending, OnceInv

-----------------------------------------------------------------------------
\* What an answer tells

\* An answer m to the command t tells the truth.
Truthful(m, t) ==
    m.to = t =>
        /\ ~Unsent(t) /\ ~Pending(t)
        /\ m.verdict = "ok" => executed[t] = 1

\* An answer that tells the truth goes on telling it.
LEMMA TruthStays ==
    ASSUME TypeOK, FreshInv, KindInv, OnceInv, [Next]_vars, NEW t \in Commands,
           NEW m \in Message, Truthful(m, t)
    PROVE  Truthful(m, t)'
<1> SUFFICES ASSUME m.to = t PROVE Truthful(m, t)'
    BY DEF Truthful
<1>1. ~Unsent(t) /\ ~Pending(t)
    BY DEF Truthful
<1>2. ~Unsent(t)' /\ executed'[t] = executed[t]
    BY <1>1, UnsentShrinks, EffectOnce
<1>3. ~Send(t)
    BY <1>1 DEF Send, Unsent
<1>4. ~Pending(t)'
    BY <1>1, <1>3, PendingMoves
<1>5. QED
    BY <1>2, <1>4 DEF Truthful

\* Append, whether or not the packet has the type of the stream.
LEMMA AppendAny ==
    ASSUME NEW S, NEW s \in Seq(S), NEW e
    PROVE  /\ Len(Append(s, e)) = Len(s) + 1
           /\ \A k \in 1..Len(s) : Append(s, e)[k] = s[k]
           /\ Append(s, e)[Len(s) + 1] = e
<1>1. s \in Seq(S \cup {e}) /\ e \in S \cup {e}
    BY SeqMonotonic
<1> QED
    BY <1>1, AppendProperties

\* A packet in the stream was there before, or is OpenD's answer to the
\* request at the head of the other stream, or a notification.
LEMMA InboxMoves ==
    ASSUME TypeOK, FreshInv, [Next]_vars, NEW c \in Conns, NEW i \in 1..Len(inbox'[c])
    PROVE  \/ \E j \in 1..Len(inbox[c]) : inbox'[c][i] = inbox[c][j]
           \/ inbox'[c][i] = Notification
           \/ /\ Serve(c)
              /\ \E o \in Outcome :
                    /\ inbox'[c][i] = [to |-> Head(outbox[c]), verdict |-> o.verdict]
                    /\ executed' = [t \in Tasks |->
                                        IF t = Head(outbox[c]) /\ o.applied
                                        THEN executed[t] + 1
                                        ELSE executed[t]]
<1> DEFINE q == inbox[c]
<1>0. q \in Seq(Message) /\ Len(q) \in Nat
    BY DEF TypeOK, LinkTypeOK
<1>1. CASE inbox'[c] = inbox[c]
    BY <1>1
<1>2. CASE ~StreamStep
    BY <1>1, <1>2, StreamFrame DEF StreamUntouched
<1>3. CASE \E a \in Actors : Exchange(a)
    <2>1. CASE inbox' = inbox
        BY <1>1, <2>1
    <2>2. ASSUME inbox' # inbox PROVE inbox'[c] = inbox[c] \/ (q # <<>> /\ inbox'[c] = Tail(q))
        <3>1. PICK a \in Actors : Receive(a)
            BY <1>3, <2>2 DEF Exchange, Send, SendFails, ReceiveFails, IoError, linkVars
        <3>2. inbox[sess[a]] # <<>> /\ inbox' = [inbox EXCEPT ![sess[a]] = Tail(@)]
            BY <3>1 DEF Receive
        <3>3. QED
            BY <3>2 DEF TypeOK, LinkTypeOK
    <2>3. CASE q # <<>> /\ inbox'[c] = Tail(q)
        <3>1. /\ Len(Tail(q)) = Len(q) - 1
              /\ \A k \in 1..Len(Tail(q)) : Tail(q)[k] = q[k + 1]
            BY <1>0, <2>3, Rest
        <3>2. i + 1 \in 1..Len(q) /\ inbox'[c][i] = q[i + 1]
            BY <1>0, <2>3, <3>1
        <3>3. QED
            BY <3>2
    <2>4. QED
        BY <1>1, <2>1, <2>2, <2>3
<1>4. CASE LinkNext /\ UNCHANGED <<sessionVars, clientVars>>
    <2>1. PICK d \in Conns : Serve(d) \/ Push(d) \/ Drop(d)
        BY <1>4 DEF LinkNext
    <2>2. CASE d # c
        BY <1>1, <2>1, <2>2, LinkMoves
    <2>3. CASE d = c /\ Serve(c)
        <3>1. PICK o \in Outcome :
                /\ inbox' = IF conn[c] = "up"
                            THEN [inbox EXCEPT ![c] =
                                    Append(@, [to |-> Head(outbox[c]), verdict |-> o.verdict])]
                            ELSE inbox
                /\ executed' = [t \in Tasks |->
                                    IF t = Head(outbox[c]) /\ o.applied
                                    THEN executed[t] + 1
                                    ELSE executed[t]]
            BY <2>3 DEF Serve
        <3> DEFINE m == [to |-> Head(outbox[c]), verdict |-> o.verdict]
        <3>2. CASE inbox'[c] = Append(q, m)
            <4>1. /\ Len(inbox'[c]) = Len(q) + 1
                  /\ \A k \in 1..Len(q) : Append(q, m)[k] = q[k]
                  /\ Append(q, m)[Len(q) + 1] = m
                <5> HIDE DEF m
                <5>1. QED
                    BY <1>0, <3>2, AppendAny
            <4>2. i \in 1..Len(q) \/ i = Len(q) + 1
                BY <1>0, <4>1, Places
            <4>3. CASE i = Len(q) + 1
                <5>1. inbox'[c][i] = m
                    BY <3>2, <4>1, <4>3
                <5>2. QED
                    BY <2>3, <3>1, <5>1
            <4>4. CASE i \in 1..Len(q)
                BY <3>2, <4>1, <4>4
            <4>5. QED
                BY <4>2, <4>3, <4>4
        <3>3. QED
            BY <1>1, <3>1, <3>2 DEF TypeOK, LinkTypeOK
    <2>4. CASE d = c /\ Push(c)
        <3>1. inbox'[c] = Append(q, Notification)
            BY <2>4 DEF Push, TypeOK, LinkTypeOK
        <3>2. QED
            BY <1>0, <3>1, AppendProperties
    <2>5. CASE d = c /\ Drop(c)
        <3>1. PICK k \in 0..Len(q) : inbox'[c] = SubSeq(q, 1, k)
            BY <2>5 DEF Drop, TypeOK, LinkTypeOK
        <3>2. i \in 1..Len(q) /\ inbox'[c][i] = q[i]
            BY <1>0, <3>1, Prefix
        <3>3. QED
            BY <3>2
    <2>6. QED
        BY <2>1, <2>2, <2>3, <2>4, <2>5
<1>5. CASE \E d \in Conns : Release(d)
    BY <1>1, <1>5 DEF Release
<1>6. QED
    BY <1>2, <1>3, <1>4, <1>5 DEF StreamStep

\* AnswerInv, packet by packet.
AllTruthful ==
    \A t \in Commands, c \in Conns : \A i \in 1..Len(inbox[c]) : Truthful(inbox[c][i], t)

\* The two are the same.
LEMMA AnswerParts == AllTruthful <=> AnswerInv
BY DEF AllTruthful, AnswerInv, Truthful

\* OpenD's answer says what it did.
LEMMA AnswerPreserved ==
    ASSUME TypeOK, FreshInv, KindInv, OnceInv, AnswerInv, [Next]_vars
    PROVE  AnswerInv'
<1> SUFFICES ASSUME NEW t \in Commands, NEW c \in Conns, NEW i \in 1..Len(inbox'[c]),
                    NEW m, m = inbox'[c][i], m.to = t
             PROVE  /\ ~Unsent(t)' /\ ~Pending(t)'
                    /\ m.verdict = "ok" => executed'[t] = 1
    BY AnswerParts DEF AnswerInv
<1>0. t \in Tasks /\ t # None
    BY LinkAssumption DEF Tasks, Actors
<1>1. ASSUME NEW j \in 1..Len(inbox[c]), m = inbox[c][j]
      PROVE  Truthful(m, t)'
    <2>1. m \in Message
        BY <1>1, ElementOfSeq DEF TypeOK, LinkTypeOK
    <2>2. Truthful(m, t)
        BY <1>1, AnswerParts DEF AllTruthful
    <2>3. QED
        BY <2>1, <2>2, TruthStays
<1>2. m # Notification
    BY <1>0 DEF Notification
<1>3. ASSUME Serve(c), NEW o \in Outcome,
             m = [to |-> Head(outbox[c]), verdict |-> o.verdict],
             executed' = [s \in Tasks |-> IF s = Head(outbox[c]) /\ o.applied
                                          THEN executed[s] + 1
                                          ELSE executed[s]]
      PROVE  /\ ~Unsent(t)' /\ ~Pending(t)'
             /\ m.verdict = "ok" => executed'[t] = 1
    <2>0. /\ outbox[c] # <<>>
          /\ \A d \in Conns : outbox[d] \in Seq(Actors)
        BY <1>3 DEF Serve, TypeOK, LinkTypeOK
    <2>1. Head(outbox[c]) = t /\ m.verdict = o.verdict
        BY <1>3
    <2>2. Contains(outbox[c], t) /\ Once(outbox[c], t)
        BY <2>0, <2>1, ContainsTail DEF OnceInv
    <2>3. executed[t] = 0 /\ ~Unsent(t)
        BY <2>2 DEF OnceInv, Pending
    <2>4. ~Contains(Tail(outbox[c]), t)
        BY <2>0, <2>1, <2>2, ContainsTail
    <2>5. ~Pending(t)'
        BY <1>3, <2>2, <2>4 DEF Pending, OnceInv, Serve, TypeOK, LinkTypeOK
    <2>6. ~Unsent(t)'
        BY <2>3, UnsentShrinks
    <2>7. executed'[t] = IF o.applied THEN 1 ELSE 0
        BY <1>0, <1>3, <2>1, <2>3
    <2>8. QED
        BY <2>1, <2>5, <2>6, <2>7 DEF Outcome
<1>4. QED
    BY <1>1, <1>2, <1>3, InboxMoves DEF Truthful

-----------------------------------------------------------------------------
\* What a caller is told

\* What t was told is right, as long as nobody else's answer was taken for its own.
Told(t) ==
    pc[t] \in {"returned", "done"} =>
        /\ reply[t] \in {"ok", "refused", "unsure"} \cup Error \cup TaskReply
        /\ reply[t] = "ok" => executed[t] = 1
        /\ reply[t] \in {"closed"} \cup TaskReply => executed[t] = 0 /\ ~Pending(t)

\* What was told stays right while the call does not move.
LEMMA ToldStays ==
    ASSUME TypeOK, FreshInv, OnceInv, [Next]_vars, NEW t \in Commands, Told(t),
           pc'[t] = pc[t], reply'[t] = reply[t], ~Send(t)
    PROVE  Told(t)'
<1>1. Pending(t)' => Pending(t)
    BY PendingMoves
<1>2. executed'[t] = executed[t] \/ (Pending(t) /\ executed[t] = 0)
    BY EffectOnce
<1>3. CASE executed'[t] = executed[t]
    BY <1>1, <1>3 DEF Told
<1>4. CASE executed'[t] # executed[t]
    <2>1. Pending(t) /\ executed[t] = 0
        BY <1>2, <1>4
    <2>2. pc[t] \in {"returned", "done"} =>
            reply[t] \in (({"ok", "refused", "unsure"} \cup Error \cup TaskReply) \ {"ok"})
                            \ ({"closed"} \cup TaskReply)
        BY <2>1 DEF Told
    <2>3. QED
        BY <2>2 DEF Told
<1>5. QED
    BY <1>3, <1>4

\* A caller that reads a packet is told what it says.
LEMMA ToldReceive ==
    ASSUME TypeOK, StreamParts, OnceInv, AnswerInv, ~Pushes, NEW t \in Commands,
           Receive(t)
    PROVE  Told(t)'
<1>1. sess[t] \in Conns /\ t \in Actors
    BY HasSession DEF Receive, ExchangePc, Actors, Tasks
<1> DEFINE q == inbox[sess[t]]
<1>2. q \in Seq(Message) /\ q # <<>>
    BY <1>1 DEF Receive, TypeOK, LinkTypeOK
<1>3. Head(q) = q[1] /\ Len(q) \in Nat \ {0} /\ Head(q) \in Message
    BY <1>2, Rest, HeadTailProperties
<1>4. 1 \in 1..Len(q)
    BY <1>3
<1>5. lock[sess[t]] = t
    BY <1>1 DEF Receive, StreamParts, LockInv
<1>6. Head(q).to = t
    BY <1>1, <1>3, <1>4, <1>5 DEF StreamParts, StreamInv
<1>7. /\ ~Pending(t)
      /\ Head(q).verdict = "ok" => executed[t] = 1
    BY <1>1, <1>3, <1>4, <1>6 DEF AnswerInv
<1>8. t # None
    BY <1>1, LinkAssumption
<1>9. Head(q).verdict \in {"ok", "refused", "unsure", "garbled"}
    <2>1. ASSUME NEW m \in Message, m.to # None PROVE m.verdict \in Verdicts
        <3>1. m # Notification
            BY <2>1 DEF Notification
        <3>2. QED
            BY <3>1 DEF Message
    <2>2. QED
        BY <1>3, <1>6, <1>8, <2>1, LinkAssumption
<1>10. reply'[t] \in {"ok", "refused", "unsure", "protocol"}
       /\ (reply'[t] # "protocol" => reply'[t] = Head(q).verdict)
    BY <1>1, <1>9 DEF Receive, Accepts, TypeOK
<1>11. UNCHANGED <<outbox, executed>>
    BY DEF Receive
<1>12. Pending(t)' <=> Pending(t)
    BY <1>11 DEF Pending
<1>13. QED
    BY <1>7, <1>10, <1>11, <1>12 DEF Told, Error, TaskReply

\* What a call is told when it returns is right.
LEMMA ToldPreserved ==
    ASSUME TypeOK, StreamParts, KindInv, OnceInv, AnswerInv, [Next]_vars, ~Pushes,
           NEW t \in Commands, Told(t)
    PROVE  Told(t)'
<1>0. t \in Tasks /\ t \in Actors /\ FreshInv
    BY DEF Tasks, Actors, StreamParts
<1>1. CASE ~Task(t)
    <2>1. ~Send(t) \/ pc'[t] # pc[t]
        BY <1>0 DEF Send, TypeOK, ControlTypeOK
    <2>2. QED
        BY <1>0, <1>1, <2>1, OneTaskMoves, ToldStays
<1>2. CASE Task(t)
    <2>0. CommandMoves(t)
        BY <1>2, CommandSteps
    <2>1. CASE pc'[t] \notin {"returned", "done"}
        BY <2>1 DEF Told
    <2>2. pc'[t] # pc[t]
        BY <2>0 DEF CommandMoves
    <2>3. executed'[t] = executed[t]
        BY <1>0, <2>2, EffectMoves DEF sessionVars
    <2>4. ~Send(t) => (Pending(t)' => Pending(t))
        BY <1>0, PendingMoves
    <2>5. CASE Unsent(t) /\ pc'[t] \in {"returned", "done"}
        <3>1. ~Send(t) /\ executed[t] = 0 /\ ~Pending(t)
            BY <1>0, <2>5 DEF OnceInv, Send, TypeOK, ControlTypeOK
        <3>2. reply'[t] \in {"connect", "invalid", "closed", "io"}
            BY <2>0, <2>5, <3>1 DEF CommandMoves, Unsent
        <3>3. QED
            BY <2>3, <2>4, <3>1, <3>2 DEF Told, Error, TaskReply
    <2>6. CASE pc[t] = "recv" /\ reply'[t] = "io"
        BY <2>6 DEF Told, Error, TaskReply
    <2>7. CASE Receive(t)
        BY <2>3, <2>7, ToldReceive
    <2>8. CASE pc[t] = "returned" /\ UNCHANGED reply
        <3>1. ~Send(t)
            BY <2>8 DEF Send
        <3>2. QED
            BY <2>3, <2>4, <2>8, <3>1 DEF Told
    <2>9. QED
        BY <2>0, <2>1, <2>5, <2>6, <2>7, <2>8 DEF CommandMoves, Unsent
<1>3. QED
    BY <1>1, <1>2

\* The inductive invariant of OrdersPromise.
OrderParts == StreamParts /\ KindInv /\ OnceInv /\ AnswerInv /\ ToldInv

\* ToldInv, call by call.
LEMMA ToldParts == ToldInv <=> (~Pushes => \A t \in Commands : Told(t))
BY DEF ToldInv, Told

\* It holds at the start.
LEMMA OrderInit == Init => OrderParts
<1> SUFFICES ASSUME Init PROVE OrderParts
    OBVIOUS
<1>1. StreamParts /\ KindInv /\ OnceInv
    BY StreamInit, OnceInit DEF OnceParts
<1>2. AnswerInv
    <2>1. \A c \in Conns : Len(inbox[c]) = 0
        BY DEF Init, LinkInit
    <2>2. QED
        BY <2>1 DEF AnswerInv
<1>3. ToldInv
    BY LinkAssumption DEF Init, ToldInv, Actors, Tasks
<1>4. QED
    BY <1>1, <1>2, <1>3 DEF OrderParts

\* And every step keeps it.
LEMMA OrderStep == TypeOK /\ OrderParts /\ [Next]_vars => OrderParts'
<1> SUFFICES ASSUME TypeOK, OrderParts, [Next]_vars PROVE OrderParts'
    OBVIOUS
<1> USE DEF OrderParts
<1>1. FreshInv
    BY DEF StreamParts
<1>2. StreamParts'
    BY StreamKept
<1>3. KindInv' /\ OnceInv'
    BY <1>1, OnceStep DEF OnceParts
<1>4. AnswerInv'
    BY <1>1, AnswerPreserved
<1>5. ~Pushes => \A t \in Commands : Told(t)'
    BY ToldPreserved, ToldParts
<1>6. ToldInv'
    BY <1>5 DEF ToldInv, Told
<1>7. QED
    BY <1>2, <1>3, <1>4, <1>6

\* The inductive invariant that the runs check of commands holds in every
\* reachable state: one request per command, carried out at most once; an answer
\* comes after all that its request does; a success is told only after the effect,
\* and an error from before the write only of what never takes effect
\* (opend.rs:110-134, 269-326).  Of a retType other than 0 it says nothing.
THEOREM CommandInvariant == Spec => []CommandInv
<1>1. OrderParts => CommandInv
    BY DEF OrderParts, StreamParts, CommandInv
<1>2. QED
    BY <1>1, OrderInit, OrderStep, TypeCorrect, PTL DEF Spec

-----------------------------------------------------------------------------
\* The refinement

\* The abstract state.
Effects == [t \in Commands |-> executed[t]]
Outcomes == [t \in Commands |-> ToldOf(t)]

\* When OpenD carries out a command, its caller has no answer yet or gave up.
LEMMA EffectRefines ==
    ASSUME TypeOK, OrderParts, [Next]_vars, ~Pushes, NEW t \in Commands,
           executed'[t] # executed[t]
    PROVE  /\ ToldOf(t) \in {"pending", "unknown"}
           /\ executed[t] = 0
           /\ Effects' = [Effects EXCEPT ![t] = 1]
           /\ UNCHANGED Outcomes
<1> USE DEF OrderParts
<1>0. FreshInv /\ t \in Tasks
    BY DEF StreamParts, Tasks
<1>1. Pending(t) /\ executed[t] = 0 /\ executed'[t] = 1
    BY <1>0, EffectOnce
<1>2. PICK d \in Conns : Serve(d) /\ UNCHANGED <<sessionVars, clientVars>>
    BY <1>0, EffectMoves
<1>3. \A s \in Tasks : s # t => executed'[s] = executed[s]
    BY <1>0, <1>2 DEF Serve
<1>4. Effects' = [Effects EXCEPT ![t] = 1]
    BY <1>1, <1>3 DEF Effects, Tasks
<1>5. UNCHANGED Outcomes
    BY <1>2 DEF Outcomes, ToldOf, sessionVars
<1>6. pc[t] = "done" => reply[t] \in {"refused", "unsure", "protocol", "io"}
    BY <1>1, ToldParts DEF Told, Error
<1>7. ToldOf(t) \in {"pending", "unknown"}
    BY <1>6 DEF ToldOf, TaskReply
<1>8. QED
    BY <1>1, <1>4, <1>5, <1>7

\* When a command returns, its caller is told what is true.
LEMMA TellRefines ==
    ASSUME TypeOK, OrderParts, [Next]_vars, ~Pushes, NEW t \in Commands, Task(t),
           UNCHANGED executed
    PROVE  \/ UNCHANGED Outcomes
           \/ /\ ToldOf(t) = "pending"
              /\ ToldOf(t)' \in {"confirmed", "unsent", "unknown"}
              /\ ToldOf(t)' = "confirmed" => executed[t] = 1
              /\ ToldOf(t)' = "unsent" => executed[t] = 0
              /\ Outcomes' = [Outcomes EXCEPT ![t] = ToldOf(t)']
<1>1. \A s \in Commands : s # t => ToldOf(s)' = ToldOf(s)
    BY OthersStay DEF ToldOf, Tasks
<1>2. pc[t] # "done"
    BY CommandSteps DEF CommandMoves, OrderParts
<1>3. ToldOf(t) = "pending"
    BY <1>2 DEF ToldOf
<1>4. Outcomes' = [Outcomes EXCEPT ![t] = ToldOf(t)']
    BY <1>1 DEF Outcomes
<1>5. CASE pc'[t] # "done"
    <2>1. ToldOf(t)' = "pending"
        BY <1>5 DEF ToldOf
    <2>2. QED
        BY <1>1, <1>3, <2>1 DEF Outcomes
<1>6. CASE pc'[t] = "done"
    <2>1. OrderParts'
        BY OrderStep
    <2>2. /\ reply'[t] \in {"ok", "refused", "unsure"} \cup Error \cup TaskReply
          /\ reply'[t] = "ok" => executed[t] = 1
          /\ reply'[t] \in {"closed"} \cup TaskReply => executed[t] = 0
        BY <1>6, <2>1 DEF OrderParts, ToldInv
    <2>3. /\ ToldOf(t)' \in {"confirmed", "unsent", "unknown"}
          /\ ToldOf(t)' = "confirmed" => reply'[t] = "ok"
          /\ ToldOf(t)' = "unsent" => reply'[t] \in {"closed"} \cup TaskReply
        BY <1>6 DEF ToldOf
    <2>4. QED
        BY <1>3, <1>4, <2>2, <2>3 DEF Error, TaskReply
<1>7. QED
    BY <1>5, <1>6

\* Every step of the client is a step of Orders or none.
LEMMA StepRefines ==
    ASSUME TypeOK, OrderParts, [Next]_vars, ~Pushes
    PROVE  [Promise!OrdersNext]_(Promise!orderVars)
<1> USE DEF Promise!orderVars, Effects, Outcomes
<1>1. CASE \E t \in Commands : executed'[t] # executed[t]
    <2>1. PICK t \in Commands : executed'[t] # executed[t]
        BY <1>1
    <2>2. Promise!TakeEffect(t)
        BY <2>1, EffectRefines DEF Promise!TakeEffect
    <2>3. QED
        BY <2>2 DEF Promise!OrdersNext
<1>2. CASE \A t \in Commands : executed'[t] = executed[t]
    <2>0. UNCHANGED Effects
        BY <1>2
    <2>1. CASE \A t \in Commands : ~Task(t)
        <3>1. \A t \in Commands : ToldOf(t)' = ToldOf(t)
            BY <2>1, OneTaskMoves DEF ToldOf, Tasks
        <3>2. QED
            BY <2>0, <3>1
    <2>2. ASSUME NEW t \in Commands, Task(t)
          PROVE  [Promise!OrdersNext]_(Promise!orderVars)
        <3>0. UNCHANGED executed
            <4>1. pc'[t] # pc[t]
                BY <2>2, CommandSteps DEF CommandMoves, OrderParts
            <4>2. QED
                BY <4>1, EffectMoves DEF sessionVars, OrderParts, StreamParts
        <3>1. CASE UNCHANGED Outcomes
            BY <2>0, <3>1
        <3>2. CASE ~UNCHANGED Outcomes
            <4> DEFINE told == ToldOf(t)'
            <4>1. Promise!Tell(t, told)
                BY <2>0, <2>2, <3>0, <3>2, TellRefines DEF Promise!Tell
            <4>2. told \in {"confirmed", "unsent", "unknown"}
                BY <2>2, <3>0, <3>2, TellRefines
            <4>3. QED
                BY <4>1, <4>2 DEF Promise!OrdersNext
        <3>3. QED
            BY <3>1, <3>2
    <2>3. QED
        BY <2>1, <2>2
<1>3. QED
    BY <1>1, <1>2

\* Without notifications the client implements Orders: a command takes effect at
\* most once, a success is reported only after the effect, and a call that failed
\* in connecting, in its parameters or on a closed session never takes effect.
\* All other errors leave it open, also an answer with a retType other than 0,
\* and a request still on its way may take effect after its call ended
\* (opend.rs:110-134, 269-326; server.rs:1525-1542).
THEOREM OrdersPromise ==
    ASSUME ~Pushes
    PROVE  Spec => OrdersKept
<1>1. Init => Promise!OrdersInit
    BY LinkAssumption DEF Init, LinkInit, Promise!OrdersInit, ToldOf, Actors, Tasks
<1>2. TypeOK /\ OrderParts /\ [Next]_vars => [Promise!OrdersNext]_(Promise!orderVars)
    BY StepRefines
<1>3. QED
    BY <1>1, <1>2, OrderInit, OrderStep, TypeCorrect, PTL
       DEF Spec, OrdersKept, Promise!OrdersSpec

=============================================================================
