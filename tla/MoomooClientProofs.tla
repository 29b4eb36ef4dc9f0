-------------------------- MODULE MoomooClientProofs --------------------------
(***************************************************************************)
(* Proofs about MoomooClient for any number of calls and sessions: type    *)
(* correctness, one current session, and answers that reach their callers. *)
(*                                                                         *)
(* Each invariant is preserved by the few actions that touch what it is    *)
(* about; a frame lemma (SlotFrame, StreamFrame) says once that all the    *)
(* others leave it alone.                                                  *)
(***************************************************************************)
EXTENDS ClientInvariants, TLAPS, SequenceTheorems

\* The serial counter stays within its width.
LEMMA Modulo == \A n \in Nat : n % SerialMod \in 0..(SerialMod - 1)
BY SerialAssumption

\* Every variable has its type at the start.
LEMMA TypeInit == Init => TypeOK
<1> SUFFICES ASSUME Init PROVE TypeOK
    OBVIOUS
<1> USE LinkAssumption DEF Init, Actors, Tasks
<1>1. LinkTypeOK
    BY DEF LinkInit, LinkTypeOK
<1>2. SessionTypeOK
    BY Modulo, SerialAssumption DEF SessionInit, SessionTypeOK
<1>3. pc \in [Actors -> KeepAlivePc \cup ExchangePc \cup TaskPc]
    BY DEF KeepAlivePc, ExchangePc, TaskPc
<1>4. \A c \in Conns : sess[c] = c /\ pc[c] \in KeepAlivePc \cup ExchangePc
    BY DEF SessionInit, KeepAlivePc
<1>5. \A t \in Tasks : pc[t] = "ensure"
    OBVIOUS
<1>6. reply \in [Actors -> Verdicts \cup Error \cup TaskReply \cup {"none"}]
    BY DEF SessionInit
<1>7. slot = None /\ slotOwner = None /\ first \in [Tasks -> Conns \cup {None}]
    OBVIOUS
<1>8. QED
    BY <1>1, <1>2, <1>3, <1>4, <1>5, <1>6, <1>7 DEF TypeOK, ControlTypeOK, TaskPc

-----------------------------------------------------------------------------
\* Sequences: the only operations on them are Append, Tail and taking a prefix.

\* A sequence is empty exactly when its length is zero.
LEMMA Empty ==
    ASSUME NEW S, NEW s \in Seq(S)
    PROVE  s = <<>> <=> Len(s) = 0
BY EmptySeq

\* What Tail leaves of a stream after its first packet was read.
LEMMA Rest ==
    ASSUME NEW S, NEW s \in Seq(S), s # <<>>
    PROVE  /\ Head(s) = s[1]
           /\ Len(Tail(s)) = Len(s) - 1
           /\ Len(s) \in Nat \ {0}
           /\ \A i \in 1..Len(Tail(s)) : Tail(s)[i] = s[i + 1]
BY HeadTailProperties, EmptySeq, LenProperties

\* Arithmetic that the provers find on a number, not on a length.
LEMMA One ==
    ASSUME NEW n \in Nat, n # 0, n <= 1
    PROVE  n = 1
OBVIOUS

\* The same for a stream whose two directions hold one packet between them.
LEMMA OneOfTwo ==
    ASSUME NEW m \in Nat, NEW n \in Nat, m # 0, m + n <= 1
    PROVE  m = 1 /\ n = 0
OBVIOUS

\* What SubSeq leaves of a stream when the connection is lost.
LEMMA Prefix ==
    ASSUME NEW S, NEW s \in Seq(S), NEW n \in 0..Len(s)
    PROVE  /\ SubSeq(s, 1, n) \in Seq(S)
           /\ Len(SubSeq(s, 1, n)) = n
           /\ \A i \in 1..n : SubSeq(s, 1, n)[i] = s[i]
<1>1. \A i \in 1..n : s[i] \in S
    BY ElementOfSeq, LenProperties
<1>2. QED
    BY <1>1, SubSeqProperties, LenProperties

-----------------------------------------------------------------------------
\* Type correctness

\* A step of OpenD or of the network keeps the types.
LEMMA TypeLink ==
    ASSUME TypeOK, NEW c \in Conns, Serve(c) \/ Push(c) \/ Drop(c),
           UNCHANGED <<sessionVars, clientVars>>
    PROVE  TypeOK'
<1> USE DEF TypeOK, LinkTypeOK, SessionTypeOK, ControlTypeOK, sessionVars, clientVars
<1>1. CASE Serve(c)
    <2>1. PICK o \in Outcome :
            /\ inbox' = IF conn[c] = "up"
                        THEN [inbox EXCEPT ![c] =
                                Append(@, [to |-> Head(outbox[c]), verdict |-> o.verdict])]
                        ELSE inbox
            /\ executed' = [t \in Tasks |->
                                IF t = Head(outbox[c]) /\ o.applied
                                THEN executed[t] + 1
                                ELSE executed[t]]
        BY <1>1 DEF Serve
    <2>2. Head(outbox[c]) \in Actors /\ Tail(outbox[c]) \in Seq(Actors)
        BY <1>1, HeadTailProperties DEF Serve
    <2>3. [to |-> Head(outbox[c]), verdict |-> o.verdict] \in Message
        BY <2>2 DEF Outcome, Message
    <2>4. inbox' \in [Conns -> Seq(Message)]
        BY <2>1, <2>3, AppendProperties
    <2>5. QED
        BY <1>1, <2>1, <2>2, <2>4 DEF Serve
<1>2. CASE Push(c)
    <2>1. Append(inbox[c], Notification) \in Seq(Message)
        BY AppendProperties DEF Message
    <2>2. QED
        BY <1>2, <2>1 DEF Push
<1>3. CASE Drop(c)
    <2>1. PICK i \in 0..Len(outbox[c]) :
            outbox' = [outbox EXCEPT ![c] = SubSeq(@, 1, i)]
        BY <1>3 DEF Drop
    <2>2. PICK j \in 0..Len(inbox[c]) :
            inbox' = [inbox EXCEPT ![c] = SubSeq(@, 1, j)]
        BY <1>3 DEF Drop
    <2>3. SubSeq(outbox[c], 1, i) \in Seq(Actors)
        BY Prefix
    <2>4. SubSeq(inbox[c], 1, j) \in Seq(Message)
        BY Prefix
    <2>5. QED
        BY <1>3, <2>1, <2>2, <2>3, <2>4 DEF Drop
<1>4. QED
    BY <1>1, <1>2, <1>3

\* One actor moves and keeps its session.
LEMMA ControlStep ==
    ASSUME TypeOK, NEW a \in Actors, NEW p, pc' = [pc EXCEPT ![a] = p], UNCHANGED sess,
           a \in Conns => p \in KeepAlivePc \cup ExchangePc,
           a \in Tasks => /\ p \in ExchangePc \cup TaskPc
                          /\ p \in {"ensure", "connect", "done"} \/ sess[a] \in Conns
    PROVE  ControlTypeOK'
BY DEF TypeOK, ControlTypeOK, Actors

\* roundtrip always has a session under it.
LEMMA HasSession ==
    ASSUME TypeOK, NEW a \in Actors,
           pc[a] \in ExchangePc \cup {"prepare", "prepared", "invalidate"}
    PROVE  sess[a] \in Conns
BY DEF TypeOK, ControlTypeOK, Actors, ExchangePc

\* So does drawing a serial number (opend.rs:161-163).
LEMMA SerialStep ==
    ASSUME SessionTypeOK, NEW a \in Actors, NextSerial(a)
    PROVE  serial' \in 0..(SerialMod - 1) /\ mine' \in [Actors -> 0..(SerialMod - 1)]
<1>1. serial \in 0..(SerialMod - 1) /\ mine \in [Actors -> 0..(SerialMod - 1)]
    BY DEF SessionTypeOK
<1>2. serial + 1 \in Nat
    BY <1>1, SerialAssumption
<1>3. (serial + 1) % SerialMod \in 0..(SerialMod - 1)
    BY <1>2, Modulo
<1>4. QED
    BY <1>1, <1>3 DEF NextSerial

\* So does a step of roundtrip (opend.rs:269-326).
LEMMA TypeRoundtrip ==
    ASSUME TypeOK, NEW a \in Actors, Call(a) \/ Exchange(a), UNCHANGED clientVars
    PROVE  TypeOK'
<1> USE DEF TypeOK, LinkTypeOK, SessionTypeOK, clientVars
<1>0. pc[a] \in ExchangePc /\ sess[a] \in Conns
    BY HasSession DEF Call, Exchange, Send, SendFails, Receive, ReceiveFails, ExchangePc
<1>1. ControlTypeOK'
    <2>1. PICK p \in ExchangePc : pc' = [pc EXCEPT ![a] = p]
        BY DEF Call, Admit, Exchange, Send, SendFails, Receive, ReceiveFails, IoError,
               ExchangePc
    <2>2. UNCHANGED sess
        BY DEF Call, Exchange, Send, SendFails, Receive, ReceiveFails, IoError
    <2>3. QED
        BY <1>0, <2>1, <2>2, ControlStep
<1>2. CASE Call(a)
    <2>1. serial' \in 0..(SerialMod - 1) /\ mine' \in [Actors -> 0..(SerialMod - 1)]
        BY <1>2, SerialStep DEF Call
    <2>2. QED
        BY <1>1, <1>2, <2>1 DEF Call, Admit, linkVars, Error
<1>3. CASE Send(a)
    <2>1. Append(outbox[sess[a]], a) \in Seq(Actors)
        BY <1>0, AppendProperties
    <2>2. outbox' \in [Conns -> Seq(Actors)]
        BY <1>3, <2>1 DEF Send
    <2>3. QED
        BY <1>1, <1>3, <2>2 DEF Send
<1>4. CASE SendFails(a)
    BY <1>1, <1>4 DEF SendFails, IoError, linkVars, Error
<1>5. CASE Receive(a)
    <2>1. /\ Head(inbox[sess[a]]) \in Message
          /\ Tail(inbox[sess[a]]) \in Seq(Message)
        BY <1>0, <1>5, HeadTailProperties DEF Receive
    <2>2. Accepts(a, Head(inbox[sess[a]])) =>
            /\ Head(inbox[sess[a]]).verdict \in Verdicts
            /\ Head(inbox[sess[a]]).to \in Actors
        BY <2>1 DEF Accepts, Message, Notification
    <2>3. reply' \in [Actors -> Verdicts \cup Error \cup TaskReply \cup {"none"}]
        BY <1>5, <2>2 DEF Receive, Error
    <2>4. got' \in [Actors -> Actors \cup {None}]
        BY <1>5, <2>2 DEF Receive
    <2>5. inbox' \in [Conns -> Seq(Message)]
        BY <1>5, <2>1 DEF Receive
    <2>6. QED
        BY <1>1, <1>5, <2>3, <2>4, <2>5 DEF Receive
<1>6. CASE ReceiveFails(a)
    BY <1>1, <1>6 DEF ReceiveFails, IoError, linkVars, Error
<1>7. QED
    BY <1>2, <1>3, <1>4, <1>5, <1>6 DEF Exchange

\* So does a step of a keep-alive loop (opend.rs:234-267).
LEMMA TypeKeepAlive ==
    ASSUME TypeOK, NEW c \in Conns, KeepAlive(c), UNCHANGED clientVars
    PROVE  TypeOK'
<1>1. CASE Call(c) \/ Exchange(c)
    BY <1>1, TypeRoundtrip DEF Actors
<1>2. CASE KeepAliveTop(c) \/ KeepAliveInterval(c) \/ KeepAliveWake(c) \/ KeepAliveReturn(c)
    <2>1. PICK p \in KeepAlivePc \cup ExchangePc : pc' = [pc EXCEPT ![c] = p]
        BY <1>2 DEF KeepAliveTop, KeepAliveInterval, KeepAliveWake, KeepAliveReturn,
                    KeepAlivePc, ExchangePc
    <2>2. UNCHANGED sess
        BY <1>2 DEF KeepAliveTop, KeepAliveInterval, KeepAliveWake, KeepAliveReturn
    <2>3. c \in Actors /\ c \notin Tasks
        BY LinkAssumption DEF Actors
    <2>4. ControlTypeOK'
        BY <2>1, <2>2, <2>3, ControlStep
    <2>5. QED
        BY <1>2, <2>3, <2>4
           DEF KeepAliveTop, KeepAliveInterval, KeepAliveWake, KeepAliveReturn, Forget,
               TypeOK, LinkTypeOK, SessionTypeOK, linkVars, clientVars
<1>3. QED
    BY <1>1, <1>2 DEF KeepAlive

\* So does a step of query, prepare_command or execute_command (opend.rs:90-159).
LEMMA TypeTask ==
    ASSUME TypeOK, NEW t \in Tasks, Task(t)
    PROVE  TypeOK'
<1> USE DEF TypeOK, LinkTypeOK, SessionTypeOK, linkVars, clientVars
<1>0. t \in Actors /\ t \notin Conns
    BY LinkAssumption DEF Actors
<1>a. Ensured(t) \in ExchangePc \cup TaskPc
    BY DEF Ensured, ExchangePc, TaskPc
<1>1. CASE Ensure(t)
    <2>1. ControlTypeOK'
        <3>1. PICK p \in ExchangePc \cup TaskPc :
                /\ pc' = [pc EXCEPT ![t] = p]
                /\ \/ UNCHANGED sess /\ p = "connect"
                   \/ slot \in Conns /\ sess' = [sess EXCEPT ![t] = slot]
            BY <1>a, <1>1 DEF Ensure, TaskPc
        <3>2. QED
            BY <1>0, <3>1 DEF ControlTypeOK, Actors
    <2>2. QED
        BY <1>0, <1>1, <2>1 DEF Ensure
<1>2. CASE ConnectOk(t)
    <2>1. PICK c \in Conns :
            /\ conn' = [conn EXCEPT ![c] = "up"]
            /\ pc' = [pc EXCEPT ![c] = "top", ![t] = Ensured(t)]
            /\ sess' = [sess EXCEPT ![t] = c]
            /\ slot' = c
        BY <1>2 DEF ConnectOk
    <2>2. ControlTypeOK'
        <3>1. \A d \in Conns : pc'[d] \in KeepAlivePc \cup ExchangePc /\ sess'[d] = d
            BY <1>0, <2>1 DEF ControlTypeOK, Actors, KeepAlivePc
        <3>2. \A s \in Tasks \ {t} : pc'[s] = pc[s] /\ sess'[s] = sess[s]
            BY <2>1, LinkAssumption DEF ControlTypeOK, Actors
        <3>3. pc'[t] = Ensured(t) /\ sess'[t] = c
            BY <1>0, <2>1 DEF ControlTypeOK
        <3>4. pc' \in [Actors -> KeepAlivePc \cup ExchangePc \cup TaskPc]
            BY <1>0, <1>a, <2>1 DEF ControlTypeOK, Actors, KeepAlivePc
        <3>5. QED
            BY <1>a, <3>1, <3>2, <3>3, <3>4 DEF ControlTypeOK
    <2>3. QED
        BY <1>0, <1>2, <2>1, <2>2 DEF ConnectOk
<1>3. CASE (Call(t) \/ Exchange(t)) /\ UNCHANGED clientVars
    BY <1>0, <1>3, TypeRoundtrip
<1>4. CASE \/ ConnectFails(t) \/ Prepare(t) \/ RejectParams(t) \/ Submit(t)
           \/ CommandReturn(t) \/ QueryReturn(t) \/ Invalidate(t)
    <2> USE DEF ConnectFails, Prepare, RejectParams, Submit, Admit, CommandReturn,
                QueryReturn, Invalidate
    <2>1. PICK p \in ExchangePc \cup TaskPc : pc' = [pc EXCEPT ![t] = p]
        BY <1>4 DEF ExchangePc, TaskPc
    <2>2. UNCHANGED sess
        BY <1>4
    <2>3. p \in {"ensure", "connect", "done"} \/ sess[t] \in Conns
        <3>1. CASE p = "done"
            BY <3>1
        <3>2. CASE p = "ensure"
            BY <3>2
        <3>3. CASE p \notin {"done", "ensure"}
            <4>1. pc'[t] = p
                BY <1>0, <2>1 DEF ControlTypeOK
            <4>2. Prepare(t) \/ Submit(t) \/ QueryReturn(t)
                BY <1>0, <1>4, <3>3, <4>1 DEF ControlTypeOK
            <4>3. QED
                BY <1>0, <4>2, HasSession DEF ExchangePc
        <3>4. QED
            BY <3>1, <3>2, <3>3
    <2>4. ControlTypeOK'
        BY <1>0, <2>1, <2>2, <2>3, ControlStep
    <2>5. QED
        <3>1. CASE Prepare(t)
            BY <1>0, <2>4, <3>1, SerialStep
        <3>2. CASE ConnectFails(t) \/ RejectParams(t)
            BY <1>0, <2>4, <3>2 DEF TaskReply
        <3>3. CASE Submit(t) \/ CommandReturn(t)
            BY <1>0, <2>4, <3>3 DEF Error
        <3>4. CASE QueryReturn(t) \/ Invalidate(t)
            BY <1>0, <2>4, <3>4 DEF Forget
        <3>5. QED
            BY <1>4, <3>1, <3>2, <3>3, <3>4
<1>5. QED
    BY <1>1, <1>2, <1>3, <1>4 DEF Task

\* Every step keeps the types.
LEMMA TypeStep == TypeOK /\ [Next]_vars => TypeOK'
<1> SUFFICES ASSUME TypeOK, [Next]_vars PROVE TypeOK'
    OBVIOUS
<1>1. CASE \E t \in Tasks : Task(t)
    BY <1>1, TypeTask
<1>2. CASE \E c \in Conns : KeepAlive(c) /\ UNCHANGED clientVars
    BY <1>2, TypeKeepAlive
<1>3. CASE \E c \in Conns : Release(c)
    BY <1>3 DEF Release, TypeOK, LinkTypeOK, SessionTypeOK, ControlTypeOK, sessionVars, clientVars
<1>4. CASE LinkNext /\ UNCHANGED <<sessionVars, clientVars>>
    BY <1>4, TypeLink DEF LinkNext
<1>5. CASE UNCHANGED vars
    BY <1>5 DEF vars, linkVars, sessionVars, clientVars, TypeOK, LinkTypeOK, SessionTypeOK,
               ControlTypeOK
<1>6. QED
    BY <1>1, <1>2, <1>3, <1>4, <1>5 DEF Next, Idle

\* Type correctness: every variable keeps its type, and a task that is past
\* ensure_session has a session (opend.rs:77-173).
THEOREM TypeCorrect == Spec => []TypeOK
<1>1. Init => TypeOK
    BY TypeInit
<1>2. TypeOK /\ [Next]_vars => TypeOK'
    BY TypeStep
<1>3. QED
    BY <1>1, <1>2, PTL DEF Spec

-----------------------------------------------------------------------------
\* The slot

\* The steps that touch the slot or the connections' lives.
SlotStep(t) == Ensure(t) \/ ConnectOk(t) \/ ConnectFails(t) \/ Invalidate(t)

\* The steps of roundtrip, of the keep-alive loop and of a task move one
\* actor, and leave the connections, the closed flags and the sessions alone.
Still == <<conn, closed, sess>>

\* A step of roundtrip moves its actor forward and opens or closes nothing.
LEMMA RoundtripMoves ==
    ASSUME NEW a \in Actors, Call(a) \/ Exchange(a)
    PROVE  /\ pc[a] \in {"call", "wait", "recv"}
           /\ \E p \in {"wait", "recv", "returned"} : pc' = [pc EXCEPT ![a] = p]
           /\ UNCHANGED Still
BY DEF Call, Admit, Exchange, Send, SendFails, Receive, ReceiveFails, IoError, linkVars, Still

\* A step of a keep-alive loop moves a session that was opened.
LEMMA KeepAliveMoves ==
    ASSUME NEW c \in Conns, KeepAlive(c)
    PROVE  /\ pc[c] # "off"
           /\ \E p \in (KeepAlivePc \ {"off"}) \cup ExchangePc : pc' = [pc EXCEPT ![c] = p]
           /\ UNCHANGED Still
<1>1. CASE Call(c) \/ Exchange(c)
    BY <1>1, RoundtripMoves DEF Actors, ExchangePc
<1>2. CASE KeepAliveTop(c) \/ KeepAliveInterval(c) \/ KeepAliveWake(c) \/ KeepAliveReturn(c)
    BY <1>2 DEF KeepAliveTop, KeepAliveInterval, KeepAliveWake, KeepAliveReturn, linkVars,
                Still, KeepAlivePc, ExchangePc
<1>3. QED
    BY <1>1, <1>2 DEF KeepAlive

\* A step of a task that does not touch the slot.
LEMMA TaskMoves ==
    ASSUME NEW t \in Tasks, Task(t), ~SlotStep(t)
    PROVE  /\ pc[t] \in {"call", "wait", "recv", "returned", "prepare", "prepared"}
           /\ \E p \in {"wait", "recv", "returned", "prepared", "invalidate", "done"} :
                pc' = [pc EXCEPT ![t] = p]
           /\ UNCHANGED Still
           /\ UNCHANGED <<slot, slotOwner>>
<1>1. CASE (Call(t) \/ Exchange(t)) /\ UNCHANGED clientVars
    BY <1>1, RoundtripMoves DEF Actors, clientVars
<1>2. CASE Prepare(t) \/ RejectParams(t) \/ Submit(t) \/ CommandReturn(t) \/ QueryReturn(t)
    BY <1>2 DEF Prepare, RejectParams, Submit, Admit, CommandReturn, QueryReturn, linkVars,
                clientVars, Still
<1>3. QED
    BY <1>1, <1>2 DEF Task, SlotStep

\* The steps of the system, by who takes them.
LEMMA StepCases ==
    ASSUME [Next]_vars
    PROVE  \/ \E t \in Tasks : Task(t)
           \/ \E c \in Conns : KeepAlive(c) /\ UNCHANGED clientVars
           \/ \E c \in Conns : Release(c)
           \/ LinkNext /\ UNCHANGED <<sessionVars, clientVars>>
           \/ UNCHANGED vars
BY DEF Next, Idle

\* What the steps outside SlotStep keep.
SlotUntouched ==
    /\ UNCHANGED <<slot, slotOwner, closed>>
    /\ \A c \in Conns : Opened(c)' <=> Opened(c)
    /\ \A t \in Tasks : pc'[t] = "connect" <=> pc[t] = "connect"

\* All steps but those leave the slot alone.
LEMMA SlotFrame ==
    ASSUME TypeOK, [Next]_vars, ~\E t \in Tasks : SlotStep(t)
    PROVE  SlotUntouched
<1> USE DEF TypeOK, ControlTypeOK, Opened, SlotUntouched
<1>1. ASSUME NEW t \in Tasks, Task(t) PROVE SlotUntouched
    BY <1>1, TaskMoves DEF Still, Actors
<1>2. ASSUME NEW c \in Conns, KeepAlive(c), UNCHANGED clientVars PROVE SlotUntouched
    <2>1. \A t \in Tasks : t # c
        BY LinkAssumption
    <2>2. QED
        BY <1>2, <2>1, KeepAliveMoves DEF Still, clientVars, Actors
<1>3. CASE \E c \in Conns : Release(c)
    BY <1>3 DEF Release, LinkTypeOK, sessionVars, clientVars
<1>4. CASE LinkNext /\ UNCHANGED <<sessionVars, clientVars>>
    BY <1>4 DEF LinkNext, LinkTypeOK, Serve, Push, Drop, sessionVars, clientVars
<1>5. CASE UNCHANGED vars
    BY <1>5 DEF vars, linkVars, sessionVars, clientVars
<1> HIDE DEF TypeOK, ControlTypeOK, Opened, SlotUntouched
<1>6. QED
    BY StepCases, <1>1, <1>2, <1>3, <1>4, <1>5

\* ensure_session and invalidate_session (opend.rs:136-159) keep SlotInv.
LEMMA SlotPreserved == TypeOK /\ SlotInv /\ [Next]_vars => SlotInv'
<1> SUFFICES ASSUME TypeOK, SlotInv, [Next]_vars PROVE SlotInv'
    OBVIOUS
<1> USE DEF SlotInv, OneCurrentSession, Opened
<1>1. CASE ~\E t \in Tasks : SlotStep(t)
    BY <1>1, SlotFrame DEF SlotUntouched
<1>2. ASSUME NEW t \in Tasks, SlotStep(t) PROVE SlotInv'
    <2> USE DEF TypeOK, LinkTypeOK, SessionTypeOK, ControlTypeOK, linkVars
    <2>0. t \in Actors /\ t \notin Conns /\ t # None
        BY LinkAssumption DEF Actors
    <2>1. CASE Ensure(t)
        <3>1. CASE slot # None /\ ~IsBroken(slot)
            <4>1. UNCHANGED <<slot, slotOwner, closed, conn>> /\ slotOwner = None
                BY <2>1, <3>1 DEF Ensure
            <4>2. pc' = [pc EXCEPT ![t] = Ensured(t)] /\ pc[t] = "ensure"
                BY <2>1, <3>1 DEF Ensure
            <4>3. \A s \in Tasks : pc'[s] = "connect" <=> pc[s] = "connect"
                BY <2>0, <4>2 DEF Ensured, Actors
            <4>4. QED
                BY <4>1, <4>3
        <3>2. CASE ~(slot # None /\ ~IsBroken(slot))
            <4>1. /\ slotOwner = None /\ slotOwner' = t /\ slot' = None
                  /\ closed' = [c \in Conns |-> closed[c] \/ c = slot]
                  /\ pc' = [pc EXCEPT ![t] = "connect"] /\ conn' = conn
                BY <2>1, <3>2 DEF Ensure
            <4>2. \A s \in Tasks : pc'[s] = "connect" <=> s = t
                BY <2>0, <4>1, LinkAssumption DEF Actors
            <4>3. \A c \in Conns : closed'[c] => Opened(c)
                BY <4>1
            <4>4. \A c \in Conns : Opened(c) => closed'[c]
                BY <4>1
            <4>5. QED
                BY <2>0, <4>1, <4>2, <4>3, <4>4, LinkAssumption DEF Actors
        <3>3. QED
            BY <3>1, <3>2
    <2>2. CASE ConnectOk(t)
        <3>1. PICK c \in Conns :
                /\ conn[c] = "unopened"
                /\ conn' = [conn EXCEPT ![c] = "up"]
                /\ pc' = [pc EXCEPT ![c] = "top", ![t] = Ensured(t)]
                /\ slot' = c
            BY <2>2 DEF ConnectOk
        <3>2. slotOwner = t /\ slot = None /\ slotOwner' = None /\ closed' = closed
            BY <2>0, <2>2 DEF ConnectOk
        <3>3. \A s \in Tasks : pc'[s] = "connect" => FALSE
            BY <2>0, <3>1, <3>2, LinkAssumption DEF Ensured, Actors
        <3>4. OneCurrentSession'
            BY <3>1, <3>2, LinkAssumption DEF Actors
        <3>5. QED
            BY <3>1, <3>2, <3>3, <3>4, LinkAssumption DEF Actors
    <2>3. CASE ConnectFails(t)
        BY <2>0, <2>3, LinkAssumption DEF ConnectFails, Actors
    <2>4. CASE Invalidate(t)
        BY <2>0, <2>4, LinkAssumption DEF Invalidate, Actors
    <2>5. QED
        BY <1>2, <2>1, <2>2, <2>3, <2>4 DEF SlotStep
<1>3. QED
    BY <1>1, <1>2

\* Every session that was opened and is not closed is the one in the slot:
\* ensure_session and invalidate_session leak no session (opend.rs:136-159).
THEOREM OneSession == Spec => []OneCurrentSession
<1>1. Init => SlotInv
    BY LinkAssumption
       DEF Init, LinkInit, SessionInit, SlotInv, OneCurrentSession, Opened, Actors
<1>2. TypeOK /\ SlotInv /\ [Next]_vars => SlotInv'
    BY SlotPreserved
<1>3. SlotInv => OneCurrentSession
    BY DEF SlotInv
<1>4. QED
    BY <1>1, <1>2, <1>3, TypeCorrect, PTL DEF Spec

-----------------------------------------------------------------------------
\* Sessions that are not open yet

\* An exchange reaches no session but its own.
LEMMA RoundtripLocal ==
    ASSUME TypeOK, NEW a \in Actors, Call(a) \/ Exchange(a)
    PROVE  /\ sess[a] \in Conns
           /\ \A d \in Conns : d # sess[a] =>
                /\ broken'[d] = broken[d]
                /\ outbox'[d] = outbox[d]
                /\ inbox'[d] = inbox[d]
<1>1. sess[a] \in Conns
    BY HasSession DEF Call, Exchange, Send, SendFails, Receive, ReceiveFails, ExchangePc
<1>2. QED
    BY <1>1 DEF Call, Exchange, Send, SendFails, Receive, ReceiveFails, IoError, linkVars,
                TypeOK, LinkTypeOK, SessionTypeOK

\* No step touches a session before ConnectOk opens it.
LEMMA FreshPreserved == TypeOK /\ FreshInv /\ [Next]_vars => FreshInv'
<1> SUFFICES ASSUME TypeOK, FreshInv, [Next]_vars,
                    NEW d \in Conns, ~Opened(d)'
             PROVE  /\ ~broken'[d] /\ ~closed'[d]
                    /\ pc'[d] = "off"
                    /\ outbox'[d] = <<>> /\ inbox'[d] = <<>>
                    /\ slot' # d
                    /\ \A t \in Tasks : sess'[t] # d /\ first'[t] # d
    BY DEF FreshInv
<1> DEFINE Fresh == /\ ~broken[d] /\ ~closed[d]
                    /\ pc[d] = "off"
                    /\ outbox[d] = <<>> /\ inbox[d] = <<>>
                    /\ slot # d
                    /\ \A t \in Tasks : sess[t] # d /\ first[t] # d
<1>0. ~Opened(d) => Fresh
    BY DEF FreshInv
<1>1. ASSUME NEW t \in Tasks, Task(t) PROVE Fresh'
    <2>0. t \in Actors /\ t # d /\ d \in Actors
        BY LinkAssumption DEF Actors
    <2>1. CASE Ensure(t)
        <3>1. UNCHANGED <<conn, outbox, inbox, broken, first>> /\ Fresh
            BY <1>0, <2>1 DEF Ensure, linkVars, Opened
        <3>2. slot' # d /\ ~closed'[d]
            BY <2>1, <3>1, LinkAssumption DEF Ensure, Actors
        <3>3. \A s \in Tasks : sess'[s] # d
            <4>1. sess' = sess \/ sess' = [sess EXCEPT ![t] = slot]
                BY <2>1 DEF Ensure
            <4>2. QED
                BY <2>0, <3>1, <4>1 DEF TypeOK, SessionTypeOK, Actors
        <3>4. pc'[d] = pc[d]
            BY <2>0, <2>1 DEF Ensure, TypeOK, ControlTypeOK
        <3>5. QED
            BY <3>1, <3>2, <3>3, <3>4
    <2>2. CASE ConnectOk(t)
        <3>1. PICK c \in Conns :
                /\ conn' = [conn EXCEPT ![c] = "up"]
                /\ pc' = [pc EXCEPT ![c] = "top", ![t] = Ensured(t)]
                /\ sess' = [sess EXCEPT ![t] = c]
                /\ slot' = c
            BY <2>2 DEF ConnectOk
        <3>2. c # d /\ ~Opened(d)
            BY <3>1 DEF Opened, TypeOK, LinkTypeOK
        <3>3. Fresh /\ UNCHANGED <<outbox, inbox, broken, closed, first>>
            BY <1>0, <2>2, <3>2 DEF ConnectOk
        <3>4. pc'[d] = pc[d]
            BY <2>0, <3>1, <3>2 DEF TypeOK, ControlTypeOK
        <3>5. \A s \in Tasks : sess'[s] # d
            BY <3>1, <3>2, <3>3 DEF TypeOK, SessionTypeOK
        <3>6. QED
            BY <3>1, <3>2, <3>3, <3>4, <3>5
    <2>3. CASE ConnectFails(t) \/ Invalidate(t)
        <3>1. UNCHANGED <<conn, outbox, inbox, broken, sess, first>> /\ Fresh
            BY <1>0, <2>3 DEF ConnectFails, Invalidate, linkVars, Opened
        <3>2. slot' # d /\ ~closed'[d]
            BY <2>3, <3>1, LinkAssumption DEF ConnectFails, Invalidate, Actors
        <3>3. pc'[d] = pc[d]
            BY <2>0, <2>3 DEF ConnectFails, Invalidate, TypeOK, ControlTypeOK
        <3>4. QED
            BY <3>1, <3>2, <3>3
    <2>4. CASE (Call(t) \/ Exchange(t)) /\ UNCHANGED clientVars
        <3>1. /\ pc'[d] = pc[d] /\ UNCHANGED Still
              /\ d # sess[t] => UNCHANGED <<broken[d], outbox[d], inbox[d]>>
            BY <2>0, <2>4, RoundtripMoves, RoundtripLocal DEF TypeOK, ControlTypeOK
        <3>2. QED
            BY <1>0, <2>4, <3>1 DEF Still, Opened, clientVars
    <2>5. CASE Prepare(t) \/ RejectParams(t) \/ Submit(t) \/ CommandReturn(t)
        BY <1>0, <2>0, <2>5 DEF Prepare, RejectParams, Submit, Admit, CommandReturn, linkVars,
                                clientVars, Opened, TypeOK, ControlTypeOK
    <2>6. CASE QueryReturn(t)
        BY <1>0, <2>0, <2>6 DEF QueryReturn, linkVars, Opened, TypeOK, ControlTypeOK
    <2>7. QED
        BY <1>1, <2>1, <2>2, <2>3, <2>4, <2>5, <2>6 DEF Task
<1>2. ASSUME NEW c \in Conns, KeepAlive(c), UNCHANGED clientVars PROVE Fresh'
    <2>0. c \in Actors /\ d \in Actors
        BY DEF Actors
    <2>1. UNCHANGED Still /\ pc[c] # "off"
        BY <1>2, KeepAliveMoves
    <2>2. ~Opened(d) /\ Fresh /\ c # d
        BY <1>0, <2>1 DEF Still, Opened
    <2>3. pc'[d] = pc[d]
        BY <1>2, <2>0, <2>2, KeepAliveMoves DEF TypeOK, ControlTypeOK
    <2>4. UNCHANGED <<broken[d], outbox[d], inbox[d]>>
        <3>1. CASE Call(c) \/ Exchange(c)
            BY <2>0, <2>2, <3>1, RoundtripLocal DEF TypeOK, ControlTypeOK
        <3>2. CASE \/ KeepAliveTop(c) \/ KeepAliveInterval(c) \/ KeepAliveWake(c)
                   \/ KeepAliveReturn(c)
            BY <2>2, <3>2 DEF KeepAliveTop, KeepAliveInterval, KeepAliveWake, KeepAliveReturn,
                              linkVars, TypeOK, SessionTypeOK
        <3>3. QED
            BY <1>2, <3>1, <3>2 DEF KeepAlive
    <2>5. QED
        BY <1>2, <2>1, <2>2, <2>3, <2>4 DEF Still, clientVars
<1>3. CASE \E c \in Conns : Release(c)
    BY <1>0, <1>3 DEF Release, sessionVars, clientVars, Opened, TypeOK, LinkTypeOK
<1>4. CASE LinkNext /\ UNCHANGED <<sessionVars, clientVars>>
    <2>1. PICK c \in Conns : Serve(c) \/ Push(c) \/ Drop(c)
        BY <1>4 DEF LinkNext
    <2>2. ~Opened(d) /\ Fresh
        BY <1>0, <2>1 DEF Serve, Push, Drop, Opened, TypeOK, LinkTypeOK
    <2>3. c # d
        BY <2>1, <2>2 DEF Serve, Push, Drop, Opened
    <2>4. UNCHANGED <<outbox[d], inbox[d]>>
        BY <2>1, <2>3 DEF Serve, Push, Drop, TypeOK, LinkTypeOK
    <2>5. QED
        BY <1>4, <2>2, <2>4 DEF sessionVars, clientVars
<1>5. CASE UNCHANGED vars
    BY <1>0, <1>5 DEF vars, linkVars, sessionVars, clientVars, Opened
<1>6. QED
    BY StepCases, <1>1, <1>2, <1>3, <1>4, <1>5

-----------------------------------------------------------------------------
\* The stream

\* The steps that touch a stream: an exchange, a step of the link, or the end
\* of a session.
StreamStep ==
    \/ \E a \in Actors : Exchange(a)
    \/ LinkNext /\ UNCHANGED <<sessionVars, clientVars>>
    \/ \E c \in Conns : Release(c)

\* What the steps outside StreamStep keep; ConnectOk opens a connection.
StreamUntouched ==
    /\ UNCHANGED <<lock, inbox, outbox, executed>>
    /\ \A c \in Conns : conn'[c] = conn[c] \/ (conn[c] = "unopened" /\ conn'[c] = "up")
    /\ \A a \in Actors : pc'[a] = "recv" <=> pc[a] = "recv"
    /\ \A a \in Actors : pc[a] = "recv" => sess'[a] = sess[a]
    /\ \A a \in Actors : got'[a] \in {got[a], None}

\* One actor moves outside the exchange.
QuietMove(a) ==
    /\ pc[a] # "recv"
    /\ \E p \in (KeepAlivePc \cup ExchangePc \cup TaskPc) \ {"recv"} :
            pc' = [pc EXCEPT ![a] = p]
    /\ UNCHANGED sess \/ \E c \in Conns : sess' = [sess EXCEPT ![a] = c]
    /\ UNCHANGED got \/ got' = [got EXCEPT ![a] = None]
    /\ UNCHANGED <<conn, lock, inbox, outbox, executed>>

\* Such a move leaves the streams alone.
LEMMA QuietMoves ==
    ASSUME TypeOK, NEW a \in Actors, QuietMove(a)
    PROVE  StreamUntouched
<1> USE DEF TypeOK, SessionTypeOK, ControlTypeOK, QuietMove
<1>1. \A b \in Actors : (pc'[b] = "recv" <=> pc[b] = "recv")
    OBVIOUS
<1>2. \A b \in Actors : pc[b] = "recv" => sess'[b] = sess[b]
    OBVIOUS
<1>3. \A b \in Actors : got'[b] \in {got[b], None}
    OBVIOUS
<1>4. UNCHANGED <<conn, lock, inbox, outbox, executed>>
    OBVIOUS
<1> HIDE DEF TypeOK, SessionTypeOK, ControlTypeOK, QuietMove
<1>5. QED
    BY <1>1, <1>2, <1>3, <1>4 DEF StreamUntouched

\* Every step but the exchange, the link and the end of a session leaves the
\* streams alone.
LEMMA StreamFrame ==
    ASSUME TypeOK, FreshInv, [Next]_vars, ~StreamStep
    PROVE  StreamUntouched
<1> USE DEF linkVars, KeepAlivePc, ExchangePc, TaskPc
<1>1. ASSUME NEW t \in Tasks, Task(t) PROVE StreamUntouched
    <2>0. t \in Actors /\ t \notin Conns
        BY LinkAssumption DEF Actors
    <2>1. CASE Ensure(t)
        <3>1. QuietMove(t)
            BY <2>1 DEF Ensure, Ensured, QuietMove, TypeOK
        <3>2. QED
            BY <2>0, <3>1, QuietMoves
    <2>2. CASE ConnectOk(t)
        <3>1. PICK c \in Conns :
                /\ conn[c] = "unopened"
                /\ conn' = [conn EXCEPT ![c] = "up"]
                /\ pc' = [pc EXCEPT ![c] = "top", ![t] = Ensured(t)]
                /\ sess' = [sess EXCEPT ![t] = c]
            BY <2>2 DEF ConnectOk
        <3>2. pc[c] = "off" /\ pc[t] = "connect" /\ c \in Actors
            BY <2>2, <3>1 DEF ConnectOk, FreshInv, Opened, Actors
        <3>3. \A a \in Actors : (pc'[a] = "recv" <=> pc[a] = "recv")
            BY <2>0, <3>1, <3>2 DEF TypeOK, ControlTypeOK, Ensured
        <3>4. \A a \in Actors : pc[a] = "recv" => sess'[a] = sess[a]
            BY <2>0, <3>1, <3>2 DEF TypeOK, SessionTypeOK
        <3>5. QED
            BY <2>2, <3>1, <3>3, <3>4 DEF ConnectOk, StreamUntouched, TypeOK, LinkTypeOK
    <2>3. CASE ConnectFails(t) \/ Prepare(t) \/ RejectParams(t) \/ CommandReturn(t)
        <3>1. QuietMove(t)
            BY <2>3 DEF ConnectFails, Prepare, RejectParams, CommandReturn, QuietMove
        <3>2. QED
            BY <2>0, <3>1, QuietMoves
    <2>4. CASE Submit(t) \/ Call(t)
        <3>1. QuietMove(t)
            BY <2>4 DEF Submit, Call, Admit, QuietMove
        <3>2. QED
            BY <2>0, <3>1, QuietMoves
    <2>5. CASE QueryReturn(t) \/ Invalidate(t)
        <3>1. QuietMove(t)
            BY <2>5 DEF QueryReturn, Invalidate, Forget, QuietMove
        <3>2. QED
            BY <2>0, <3>1, QuietMoves
    <2>6. ~Exchange(t)
        BY <2>0 DEF StreamStep
    <2>7. QED
        BY <1>1, <2>1, <2>2, <2>3, <2>4, <2>5, <2>6 DEF Task
<1>2. ASSUME NEW c \in Conns, KeepAlive(c), UNCHANGED clientVars PROVE StreamUntouched
    <2>0. c \in Actors
        BY DEF Actors
    <2>1. ~Exchange(c)
        BY <2>0 DEF StreamStep
    <2>2. QuietMove(c)
        BY <1>2, <2>1 DEF KeepAlive, KeepAliveTop, KeepAliveInterval, KeepAliveWake,
                          KeepAliveReturn, Call, Admit, Forget, QuietMove
    <2>3. QED
        BY <2>0, <2>2, QuietMoves
<1>3. CASE UNCHANGED vars
    BY <1>3 DEF vars, sessionVars, StreamUntouched
<1>4. QED
    BY StepCases, <1>1, <1>2, <1>3 DEF StreamStep

\* roundtrip holds the stream lock exactly while it waits for its answer
\* (opend.rs:285-326).
LEMMA LockPreserved == TypeOK /\ FreshInv /\ LockInv /\ [Next]_vars => LockInv'
<1> SUFFICES ASSUME TypeOK, FreshInv, LockInv, [Next]_vars PROVE LockInv'
    OBVIOUS
<1>1. CASE ~StreamStep
    BY <1>1, StreamFrame DEF LockInv, StreamUntouched, TypeOK, SessionTypeOK
<1>2. ASSUME NEW a \in Actors, Exchange(a) PROVE LockInv'
    <2> USE DEF TypeOK, SessionTypeOK, ControlTypeOK, LockInv
    <2>0. sess[a] \in Conns /\ a # None
        BY <1>2, HasSession, LinkAssumption
           DEF Exchange, Send, SendFails, Receive, ReceiveFails, ExchangePc
    <2>1. CASE Send(a)
        BY <2>0, <2>1, LinkAssumption DEF Send
    <2>2. CASE SendFails(a)
        BY <2>0, <2>2 DEF SendFails, IoError
    <2>3. CASE Receive(a)
        BY <2>0, <2>3, LinkAssumption DEF Receive
    <2>4. CASE ReceiveFails(a)
        BY <2>0, <2>4, LinkAssumption DEF ReceiveFails, IoError
    <2>5. QED
        BY <1>2, <2>1, <2>2, <2>3, <2>4 DEF Exchange
<1>3. CASE LinkNext /\ UNCHANGED <<sessionVars, clientVars>>
    BY <1>3 DEF sessionVars, LockInv
<1>4. CASE \E c \in Conns : Release(c)
    BY <1>4 DEF Release, sessionVars, LockInv
<1>5. QED
    BY <1>1, <1>2, <1>3, <1>4 DEF StreamStep

\* What a step of the link does to one connection.
LEMMA LinkMoves ==
    ASSUME TypeOK, NEW c \in Conns, Serve(c) \/ Push(c) \/ Drop(c)
    PROVE  \A d \in Conns : d # c => UNCHANGED <<conn[d], outbox[d], inbox[d]>>
BY DEF Serve, Push, Drop, TypeOK, LinkTypeOK

\* The part of StreamInv about one connection.
StreamOK(c) ==
    /\ Len(inbox[c]) <= 1
    /\ lock[c] = None => Len(inbox[c]) = 0
    /\ \A i \in 1..Len(inbox[c]) : inbox[c][i].to = lock[c]
    /\ conn[c] # "down" =>
        /\ Len(outbox[c]) + Len(inbox[c]) <= 1
        /\ lock[c] = None => Len(outbox[c]) = 0
        /\ \A i \in 1..Len(outbox[c]) : outbox[c][i] = lock[c]

\* Without notifications every step keeps the one packet in flight the lock
\* holder's.
LEMMA StreamPreserved ==
    ASSUME TypeOK, FreshInv, LockInv, StreamInv, [Next]_vars, ~Pushes, NEW c \in Conns
    PROVE  StreamOK(c)'
<1>0. StreamOK(c)
    BY DEF StreamInv, StreamOK
<1>a. outbox[c] \in Seq(Actors) /\ inbox[c] \in Seq(Message)
    BY DEF TypeOK, LinkTypeOK
<1>b. Len(outbox[c]) \in Nat /\ Len(inbox[c]) \in Nat
    BY <1>a, LenProperties
<1>1. CASE ~StreamStep
    BY <1>0, <1>1, StreamFrame DEF StreamUntouched, StreamOK
<1>2. ASSUME NEW a \in Actors, Exchange(a) PROVE StreamOK(c)'
    <2>0. sess[a] \in Conns /\ a # None
        BY <1>2, HasSession, LinkAssumption
           DEF Exchange, Send, SendFails, Receive, ReceiveFails, ExchangePc
    <2>1. CASE sess[a] # c
        <3>1. UNCHANGED <<conn[c], outbox[c], inbox[c], lock[c]>>
            BY <1>2, <2>0, <2>1 DEF Exchange, Send, SendFails, Receive, ReceiveFails, IoError,
                                    linkVars, TypeOK, LinkTypeOK, SessionTypeOK
        <3>2. QED
            BY <1>0, <3>1 DEF StreamOK
    <2>2. CASE sess[a] = c /\ Send(a)
        <3>1. /\ lock[c] = None /\ lock'[c] = a
              /\ UNCHANGED <<conn, inbox>>
              /\ outbox'[c] = IF conn[c] = "up" THEN Append(outbox[c], a) ELSE outbox[c]
            BY <2>0, <2>2 DEF Send, TypeOK, LinkTypeOK, SessionTypeOK
        <3>2. Len(inbox[c]) = 0 /\ (conn[c] # "down" => Len(outbox[c]) = 0)
            BY <1>0, <3>1 DEF StreamOK
        <3>3. CASE conn[c] = "up"
            <4>1. Len(outbox'[c]) = 1 /\ outbox'[c][1] = a
                BY <1>a, <3>1, <3>2, <3>3, AppendProperties
            <4>2. QED
                BY <2>0, <3>1, <3>2, <4>1 DEF StreamOK
        <3>4. CASE conn[c] # "up"
            BY <3>1, <3>2, <3>4 DEF StreamOK
        <3>5. QED
            BY <3>3, <3>4
    <2>3. CASE sess[a] = c /\ SendFails(a)
        BY <1>0, <2>3 DEF SendFails, IoError, linkVars, StreamOK
    <2>4. CASE sess[a] = c /\ Receive(a)
        <3>1. /\ inbox[c] # <<>> /\ inbox'[c] = Tail(inbox[c]) /\ lock'[c] = None
              /\ UNCHANGED <<conn, outbox>>
            BY <2>0, <2>4 DEF Receive, TypeOK, LinkTypeOK, SessionTypeOK
        <3>2. Len(inbox[c]) = 1 /\ Len(inbox'[c]) = 0
            <4>1. Len(inbox[c]) # 0
                BY <1>a, <3>1, Empty
            <4>2. Len(inbox[c]) = 1
                BY <1>0, <1>b, <4>1, One DEF StreamOK
            <4>3. QED
                BY <1>a, <3>1, <4>2, Rest
        <3>3. conn[c] # "down" => Len(outbox[c]) = 0
            BY <1>0, <1>b, <3>2 DEF StreamOK
        <3>4. QED
            <4>1. /\ Len(outbox'[c]) = Len(outbox[c]) /\ conn'[c] = conn[c]
                  /\ conn'[c] # "down" => Len(outbox'[c]) = 0
                BY <3>1, <3>3
            <4>2. lock'[c] = None /\ Len(inbox'[c]) = 0
                BY <3>1, <3>2
            <4>3. QED
                BY <4>1, <4>2 DEF StreamOK
    <2>5. CASE sess[a] = c /\ ReceiveFails(a)
        <3>1. /\ inbox[c] = <<>> /\ conn[c] = "down" /\ lock'[c] = None
              /\ UNCHANGED <<conn, outbox, inbox>>
            BY <2>0, <2>5 DEF ReceiveFails, IoError, linkVars, TypeOK, SessionTypeOK
        <3>2. QED
            <4>1. Len(inbox'[c]) = 0
                BY <1>a, <3>1, Empty
            <4>2. conn'[c] = "down" /\ lock'[c] = None
                BY <3>1
            <4>3. QED
                BY <4>1, <4>2 DEF StreamOK
    <2>6. QED
        BY <1>2, <2>1, <2>2, <2>3, <2>4, <2>5 DEF Exchange
<1>3. CASE LinkNext /\ UNCHANGED <<sessionVars, clientVars>>
    <2>0. lock' = lock
        BY <1>3 DEF sessionVars
    <2>1. PICK d \in Conns : Serve(d) \/ Push(d) \/ Drop(d)
        BY <1>3 DEF LinkNext
    <2>2. CASE d # c
        BY <1>0, <2>0, <2>1, <2>2, LinkMoves DEF StreamOK
    <2>3. CASE d = c /\ Serve(c)
        <3>1. /\ outbox[c] # <<>> /\ outbox'[c] = Tail(outbox[c]) /\ conn' = conn
              /\ conn[c] # "up" => inbox'[c] = inbox[c]
              /\ conn[c] = "up" => \E v \in Verdicts :
                    inbox'[c] = Append(inbox[c], [to |-> Head(outbox[c]), verdict |-> v])
            BY <2>3 DEF Serve, Outcome, TypeOK, LinkTypeOK
        <3>2. CASE conn[c] = "down"
            BY <1>0, <2>0, <3>1, <3>2 DEF StreamOK
        <3>3. CASE conn[c] # "down"
            <4>1. Len(outbox[c]) = 1 /\ Len(inbox[c]) = 0
                <5>1. Len(outbox[c]) # 0
                    BY <1>a, <3>1, Empty
                <5>2. QED
                    BY <1>0, <1>b, <3>3, <5>1, OneOfTwo DEF StreamOK
            <4>2. Len(outbox'[c]) = 0
                BY <1>a, <3>1, <4>1, Rest
            <4>3. Head(outbox[c]) = lock[c] /\ lock[c] # None
                BY <1>0, <1>a, <3>1, <3>3, <4>1, Rest DEF StreamOK
            <4>4. CASE conn[c] = "up"
                <5>1. PICK m \in Message : m.to = lock[c] /\ inbox'[c] = Append(inbox[c], m)
                    <6>1. PICK v \in Verdicts :
                            inbox'[c] = Append(inbox[c], [to |-> Head(outbox[c]), verdict |-> v])
                        BY <3>1, <4>4
                    <6>2. [to |-> Head(outbox[c]), verdict |-> v] \in Message
                        BY <1>a, <3>1, HeadTailProperties DEF Message
                    <6>3. QED
                        BY <4>3, <6>1, <6>2
                <5>2. Len(inbox'[c]) = 1 /\ inbox'[c][1] = m
                    BY <1>a, <4>1, <5>1, AppendProperties
                <5>3. QED
                    BY <2>0, <4>2, <4>3, <5>1, <5>2 DEF StreamOK
            <4>5. CASE conn[c] # "up"
                <5>1. Len(inbox'[c]) = 0 /\ Len(outbox'[c]) = 0
                    BY <3>1, <4>1, <4>2, <4>5
                <5>2. QED
                    BY <5>1 DEF StreamOK
            <4>6. QED
                BY <4>4, <4>5
        <3>4. QED
            BY <3>2, <3>3
    <2>4. CASE d = c /\ Drop(c)
        <3>1. PICK j \in 0..Len(inbox[c]) :
                /\ conn'[c] = "down"
                /\ inbox'[c] = SubSeq(inbox[c], 1, j)
            BY <2>4 DEF Drop, TypeOK, LinkTypeOK
        <3>2. /\ Len(inbox'[c]) = j
              /\ \A i \in 1..j : inbox'[c][i] = inbox[c][i]
              /\ inbox'[c] \in Seq(Message)
            BY <1>a, <3>1, Prefix
        <3>3. Len(inbox[c]) \in Nat
            BY <1>a, LenProperties
        <3>4. \A i \in 1..Len(inbox'[c]) : inbox'[c][i].to = lock[c]
            BY <1>0, <3>2, <3>3 DEF StreamOK
        <3>5. Len(inbox'[c]) <= 1 /\ (lock[c] = None => Len(inbox'[c]) = 0)
            BY <1>0, <3>2, <3>3 DEF StreamOK
        <3>6. conn'[c] = "down"
            BY <3>1
        <3>7. lock'[c] = lock[c]
            BY <2>0
        <3>8. QED
            BY <3>4, <3>5, <3>6, <3>7 DEF StreamOK
    <2>5. ~Push(d)
        BY DEF Push
    <2>6. QED
        BY <2>1, <2>2, <2>3, <2>4, <2>5
<1>4. CASE \E d \in Conns : Release(d)
    <2>1. UNCHANGED <<outbox, inbox, lock>> /\ conn'[c] \in {conn[c], "down"}
        BY <1>4 DEF Release, sessionVars, TypeOK, LinkTypeOK
    <2>2. QED
        BY <1>0, <2>1 DEF StreamOK
<1>5. QED
    BY <1>1, <1>2, <1>3, <1>4 DEF StreamStep

\* What the lock holder reads is therefore the answer to its own request.
LEMMA MatchPreserved ==
    ASSUME TypeOK, FreshInv, LockInv, StreamInv, ReplyMatchesRequest, [Next]_vars, ~Pushes
    PROVE  ReplyMatchesRequest'
<1>1. CASE ~StreamStep
    BY <1>1, StreamFrame DEF StreamUntouched, ReplyMatchesRequest
<1>2. ASSUME NEW a \in Actors, Exchange(a) PROVE ReplyMatchesRequest'
    <2>1. CASE Send(a) \/ SendFails(a) \/ ReceiveFails(a)
        BY <2>1 DEF Send, SendFails, ReceiveFails, IoError, ReplyMatchesRequest
    <2>2. CASE Receive(a)
        <3>1. sess[a] \in Conns
            BY <2>2, HasSession DEF Receive, ExchangePc
        <3>2. lock[sess[a]] = a
            BY <2>2, <3>1 DEF Receive, LockInv
        <3>3. inbox[sess[a]] \in Seq(Message) /\ inbox[sess[a]] # <<>>
            BY <2>2, <3>1 DEF Receive, TypeOK, LinkTypeOK
        <3>4. /\ Head(inbox[sess[a]]) = inbox[sess[a]][1]
              /\ Len(inbox[sess[a]]) \in Nat \ {0}
            BY <3>3, Rest
        <3>5. 1 \in 1..Len(inbox[sess[a]])
            BY <3>4
        <3>6. Head(inbox[sess[a]]).to = a
            BY <3>1, <3>2, <3>4, <3>5 DEF StreamInv
        <3>7. got' = got \/ got' = [got EXCEPT ![a] = a]
            BY <2>2, <3>6 DEF Receive, TypeOK, SessionTypeOK
        <3>8. QED
            BY <3>7 DEF ReplyMatchesRequest, TypeOK, SessionTypeOK
    <2>3. QED
        BY <1>2, <2>1, <2>2 DEF Exchange
<1>3. CASE LinkNext /\ UNCHANGED <<sessionVars, clientVars>>
    BY <1>3 DEF sessionVars, ReplyMatchesRequest
<1>4. CASE \E c \in Conns : Release(c)
    BY <1>4 DEF Release, sessionVars, ReplyMatchesRequest
<1>5. QED
    BY <1>1, <1>2, <1>3, <1>4 DEF StreamStep

\* The inductive invariant of RepliesMatch.
StreamParts == FreshInv /\ LockInv /\ StreamInv /\ (~Pushes => ReplyMatchesRequest)

\* It holds at the start.
LEMMA StreamInit == Init => StreamParts
<1> SUFFICES ASSUME Init PROVE StreamParts
    OBVIOUS
<1> USE LinkAssumption DEF Init, LinkInit, SessionInit, Actors
<1>1. FreshInv
    BY DEF FreshInv, Opened
<1>2. LockInv
    BY DEF LockInv
<1>3. ASSUME NEW c \in Conns PROVE StreamOK(c)
    <2>1. Len(inbox[c]) = 0 /\ Len(outbox[c]) = 0
        OBVIOUS
    <2>2. QED
        BY <2>1 DEF StreamOK
<1>4. StreamInv
    BY <1>3 DEF StreamInv, StreamOK
<1>5. ReplyMatchesRequest
    BY DEF ReplyMatchesRequest
<1>6. QED
    BY <1>1, <1>2, <1>4, <1>5 DEF StreamParts

\* And every step keeps it.
LEMMA StreamKept == TypeOK /\ StreamParts /\ [Next]_vars => StreamParts'
<1> SUFFICES ASSUME TypeOK, StreamParts, [Next]_vars PROVE StreamParts'
    OBVIOUS
<1> USE DEF StreamParts
<1>1. FreshInv' /\ LockInv'
    BY FreshPreserved, LockPreserved
<1>2. ~Pushes => \A c \in Conns : StreamOK(c)'
    BY StreamPreserved
<1>3. StreamInv'
    BY <1>2 DEF StreamInv, StreamOK
<1>4. ~Pushes => ReplyMatchesRequest'
    BY MatchPreserved
<1>5. QED
    BY <1>1, <1>3, <1>4

\* Without notifications no caller gets another caller's answer, although
\* roundtrip never compares serial numbers: the stream lock is held from the
\* write to the read (opend.rs:269-326).
THEOREM RepliesMatch ==
    ASSUME ~Pushes
    PROVE  Spec => []ReplyMatchesRequest
<1>1. StreamParts => ReplyMatchesRequest
    BY DEF StreamParts
<1>2. QED
    BY <1>1, StreamInit, StreamKept, TypeCorrect, PTL DEF Spec

=============================================================================
