----------------------------- MODULE SerialProofs -----------------------------
(***************************************************************************)
(* Proofs about WireSerials: until the counter wraps, a serial number      *)
(* drawn from it is used once, for any number of calls, connections and    *)
(* values of it, and is never that of InitConnect.                         *)
(***************************************************************************)
EXTENDS WireSerials, CommandProofs

-----------------------------------------------------------------------------
\* Where serial numbers are drawn

\* a draws a number; everything written stays as it is.
Draw(a) ==
    /\ NextSerial(a)
    /\ pc[a] \in {"call", "prepare"}
    /\ \E p : pc' = [pc EXCEPT ![a] = p]
    /\ UNCHANGED outbox

\* A number is drawn already.
HasDrawn(a) == pc[a] \in {"wait", "prepared"}

\* Nobody draws: nobody gets to the stream or to its parameters anew.
NobodyDraws ==
    /\ UNCHANGED <<serial, mine>>
    /\ \A a \in Actors : HasDrawn(a)' => HasDrawn(a)

\* An actor that moves to none of these places.
LEMMA MovesOn ==
    ASSUME TypeOK, NEW a \in Actors, NEW p, pc' = [pc EXCEPT ![a] = p],
           p \in {"wait", "prepared"} => HasDrawn(a)
    PROVE  \A b \in Actors : HasDrawn(b)' => HasDrawn(b)
<1> SUFFICES ASSUME NEW b \in Actors, HasDrawn(b)' PROVE HasDrawn(b)
    OBVIOUS
<1>1. b # a => pc'[b] = pc[b]
    BY DEF TypeOK, ControlTypeOK
<1>2. b = a => pc'[b] = p
    BY DEF TypeOK, ControlTypeOK
<1>3. QED
    BY <1>1, <1>2 DEF HasDrawn

\* A connection is made without the counter (opend.rs:365).
LEMMA ConnectQuiet ==
    ASSUME TypeOK, NEW t \in Tasks, ConnectOk(t)
    PROVE  NobodyDraws
<1>0. t \in Actors /\ t \notin Conns
    BY LinkAssumption DEF Actors
<1>1. PICK c \in Conns :
        /\ conn[c] = "unopened"
        /\ pc' = [pc EXCEPT ![c] = "top", ![t] = Ensured(t)]
    BY DEF ConnectOk
<1>2. \A b \in Actors : HasDrawn(b)' => HasDrawn(b)
    BY <1>0, <1>1 DEF HasDrawn, Ensured, TypeOK, ControlTypeOK
<1>3. QED
    BY <1>2 DEF ConnectOk, NobodyDraws

\* Every step draws one number or none (opend.rs:91, 113, 261).
LEMMA Draws ==
    ASSUME TypeOK, FreshInv, [Next]_vars
    PROVE  NobodyDraws \/ \E a \in Actors : Draw(a)
<1>1. ASSUME NEW a \in Actors, Call(a) PROVE Draw(a)
    BY <1>1 DEF Call, Admit, Draw, linkVars
<1>2. ASSUME NEW a \in Actors, Exchange(a) PROVE NobodyDraws
    <2>1. UNCHANGED <<serial, mine>>
        BY <1>2 DEF Exchange, Send, SendFails, Receive, ReceiveFails, IoError
    <2>2. \E p \in {"recv", "returned"} : pc' = [pc EXCEPT ![a] = p]
        BY <1>2 DEF Exchange, Send, SendFails, Receive, ReceiveFails, IoError
    <2>3. QED
        BY <2>1, <2>2, MovesOn DEF NobodyDraws
<1>3. ASSUME NEW t \in Tasks, Task(t) PROVE NobodyDraws \/ \E a \in Actors : Draw(a)
    <2>0. t \in Actors /\ t \notin Conns
        BY LinkAssumption DEF Actors
    <2>1. CASE Prepare(t)
        <3>1. Draw(t)
            BY <2>1 DEF Prepare, Draw, linkVars
        <3>2. QED
            BY <2>0, <3>1
    <2>2. CASE ConnectOk(t)
        BY <2>2, ConnectQuiet
    <2>3. CASE Ensure(t) \/ ConnectFails(t) \/ RejectParams(t) \/ CommandReturn(t)
               \/ QueryReturn(t) \/ Invalidate(t)
        <3>1. \E p \in {"prepare", "call", "connect", "done", "invalidate", "ensure"} :
                pc' = [pc EXCEPT ![t] = p]
            BY <2>3 DEF Ensure, Ensured, ConnectFails, RejectParams, CommandReturn, QueryReturn,
                 Invalidate
        <3>2. UNCHANGED <<serial, mine>>
            BY <2>3 DEF Ensure, ConnectFails, RejectParams, CommandReturn, QueryReturn, Invalidate
        <3>3. QED
            BY <2>0, <3>1, <3>2, MovesOn DEF NobodyDraws
    <2>4. CASE Submit(t)
        <3>1. HasDrawn(t) /\ \E p : pc' = [pc EXCEPT ![t] = p]
            BY <2>4 DEF Submit, Admit, HasDrawn
        <3>2. QED
            BY <2>0, <2>4, <3>1, MovesOn DEF Submit, NobodyDraws
    <2>5. QED
        BY <1>1, <1>2, <1>3, <2>0, <2>1, <2>2, <2>3, <2>4 DEF Task
<1>4. ASSUME NEW c \in Conns, KeepAlive(c) PROVE NobodyDraws \/ \E a \in Actors : Draw(a)
    <2>0. c \in Actors
        BY DEF Actors
    <2>1. CASE KeepAliveTop(c) \/ KeepAliveInterval(c) \/ KeepAliveWake(c) \/ KeepAliveReturn(c)
        <3>1. \E p \in {"top", "ended", "interval", "sleep", "call"} : pc' = [pc EXCEPT ![c] = p]
            BY <2>1 DEF KeepAliveTop, KeepAliveInterval, KeepAliveWake, KeepAliveReturn
        <3>2. UNCHANGED <<serial, mine>>
            BY <2>1 DEF KeepAliveTop, KeepAliveInterval, KeepAliveWake, KeepAliveReturn
        <3>3. QED
            BY <2>0, <3>1, <3>2, MovesOn DEF NobodyDraws
    <2>2. QED
        BY <1>1, <1>2, <1>4, <2>0, <2>1 DEF KeepAlive
<1>5. ASSUME UNCHANGED <<serial, mine, pc>> PROVE NobodyDraws
    BY <1>5 DEF NobodyDraws, HasDrawn
<1>6. QED
    BY <1>3, <1>4, <1>5, StepCases DEF Release, vars, sessionVars

\* A command that has gone past prepare_command came from there.
HasGone(t) == pc[t] \in {"recv", "returned"} \/ (pc[t] = "done" /\ reply[t] # "connect")

LEMMA CommandGoes ==
    ASSUME TypeOK, KindInv, [Next]_vars, NEW t \in Commands, HasGone(t)'
    PROVE  HasGone(t) \/ HasDrawn(t)
<1>1. t \in Tasks
    BY DEF Tasks
<1>2. CASE Task(t)
    BY <1>2, CommandSteps DEF CommandMoves, HasGone, HasDrawn
<1>3. CASE ~Task(t)
    BY <1>1, <1>3, OneTaskMoves DEF HasGone
<1>4. QED
    BY <1>2, <1>3

-----------------------------------------------------------------------------
\* What is written

Packet == [from : Actors \cup {None}, serial : 0..(SerialMod - 1)]

\* The packet a writes.
PacketOf(a) == [from |-> a, serial |-> mine[a]]

\* No connection is made.
OpenedKept == \A c \in Conns : Opened(c)' <=> Opened(c)

\* d is made, and nothing else happens on the streams or to the counter.
Opens(d) ==
    /\ ~Opened(d) /\ Opened(d)'
    /\ \A c \in Conns : c # d => (Opened(c)' <=> Opened(c))
    /\ UNCHANGED outbox
    /\ NobodyDraws

\* A step makes one connection at most, in ensure_session (opend.rs:148).
LEMMA Opening ==
    ASSUME TypeOK, [Next]_vars
    PROVE  OpenedKept \/ \E d \in Conns : Opens(d)
<1>1. CASE ~\E t \in Tasks : SlotStep(t)
    BY <1>1, SlotFrame DEF SlotUntouched, OpenedKept
<1>2. ASSUME NEW t \in Tasks, Ensure(t) \/ ConnectFails(t) \/ Invalidate(t) PROVE OpenedKept
    BY <1>2 DEF Ensure, ConnectFails, Invalidate, linkVars, OpenedKept, Opened
<1>3. ASSUME NEW t \in Tasks, ConnectOk(t) PROVE \E d \in Conns : Opens(d)
    <2>1. PICK d \in Conns : conn[d] = "unopened" /\ conn' = [conn EXCEPT ![d] = "up"]
        BY <1>3 DEF ConnectOk
    <2>2. /\ ~Opened(d) /\ Opened(d)'
          /\ \A c \in Conns : c # d => (Opened(c)' <=> Opened(c))
        BY <2>1 DEF Opened, TypeOK, LinkTypeOK
    <2>3. UNCHANGED outbox /\ NobodyDraws
        BY <1>3, ConnectQuiet DEF ConnectOk
    <2>4. QED
        BY <2>2, <2>3 DEF Opens
<1>4. QED
    BY <1>1, <1>2, <1>3 DEF SlotStep

\* Nothing but a write makes a stream to OpenD longer.
LEMMA NoWrite ==
    ASSUME TypeOK, FreshInv, [Next]_vars, ~\E a \in Actors : Send(a), NEW c \in Conns
    PROVE  ~(Len(outbox'[c]) > Len(outbox[c]))
<1>0. outbox[c] \in Seq(Actors) /\ Len(outbox[c]) \in Nat
    BY DEF TypeOK, LinkTypeOK
<1>1. CASE UNCHANGED outbox
    BY <1>0, <1>1
<1>2. CASE ~StreamStep
    BY <1>1, <1>2, StreamFrame DEF StreamUntouched
<1>3. CASE \E a \in Actors : Exchange(a)
    BY <1>1, <1>3 DEF Exchange, SendFails, Receive, ReceiveFails, IoError, linkVars
<1>4. CASE LinkNext /\ UNCHANGED <<sessionVars, clientVars>>
    <2>1. PICK d \in Conns : Serve(d) \/ Push(d) \/ Drop(d)
        BY <1>4 DEF LinkNext
    <2>2. CASE d # c
        BY <1>0, <2>1, <2>2, LinkMoves
    <2>3. CASE d = c /\ Push(c)
        BY <1>1, <2>3 DEF Push
    <2>4. CASE d = c /\ Serve(c)
        <3>1. outbox[c] # <<>> /\ outbox'[c] = Tail(outbox[c])
            BY <2>4 DEF Serve, TypeOK, LinkTypeOK
        <3>2. Len(outbox'[c]) = Len(outbox[c]) - 1
            BY <1>0, <3>1, Rest
        <3>3. QED
            BY <1>0, <3>2
    <2>5. CASE d = c /\ Drop(c)
        <3>1. PICK n \in 0..Len(outbox[c]) : outbox'[c] = SubSeq(outbox[c], 1, n)
            BY <2>5 DEF Drop, TypeOK, LinkTypeOK
        <3>2. Len(outbox'[c]) = n
            BY <1>0, <3>1, Prefix
        <3>3. QED
            BY <1>0, <3>1, <3>2
    <2>6. QED
        BY <2>1, <2>2, <2>3, <2>4, <2>5
<1>5. CASE \E d \in Conns : Release(d)
    BY <1>1, <1>5 DEF Release
<1>6. QED
    BY <1>2, <1>3, <1>4, <1>5 DEF StreamStep

\* The record of the wire grows by the packet that is written: by InitConnect on a new
\* connection, otherwise by one with the number its writer holds.
LEMMA Writes ==
    ASSUME TypeOK, FreshInv, [Next]_vars, wire \in [Conns -> Seq(Packet)],
           wire' = [c \in Conns |-> Written(c)]
    PROVE  \/ OpenedKept /\ UNCHANGED wire
           \/ OpenedKept /\ \E a \in Actors :
                /\ Send(a) /\ sess[a] \in Conns /\ Opened(sess[a])
                /\ wire' = [wire EXCEPT ![sess[a]] = Append(@, PacketOf(a))]
           \/ \E d \in Conns :
                /\ Opens(d)
                /\ wire' = [wire EXCEPT ![d] = Append(@, InitConnect)]
<1>0. ASSUME NEW d \in Conns, Opens(d)
      PROVE  wire' = [wire EXCEPT ![d] = Append(@, InitConnect)]
    <2>1. \A c \in Conns : ~(Len(outbox'[c]) > Len(outbox[c]))
        BY <1>0 DEF Opens, TypeOK, LinkTypeOK
    <2>2. Written(d) = Append(wire[d], InitConnect)
        BY <1>0 DEF Opens, Written
    <2>3. \A c \in Conns : c # d => Written(c) = wire[c]
        BY <1>0, <2>1 DEF Opens, Written
    <2>4. QED
        BY <2>2, <2>3
<1>1. CASE OpenedKept /\ ~\E a \in Actors : Send(a)
    <2>1. \A c \in Conns : Written(c) = wire[c]
        BY <1>1, NoWrite DEF Written, OpenedKept
    <2>2. QED
        BY <1>1, <2>1
<1>2. ASSUME OpenedKept, NEW a \in Actors, Send(a)
      PROVE  \/ UNCHANGED wire
             \/ /\ Opened(sess[a])
                /\ wire' = [wire EXCEPT ![sess[a]] = Append(@, PacketOf(a))]
    <2>d. sess[a] \in Conns
        BY <1>2, HasSession DEF Send, ExchangePc
    <2>e. PICK d \in Conns : d = sess[a]
        BY <2>d
    <2>0. d \in Conns /\ \A c \in Conns : outbox[c] \in Seq(Actors) /\ Len(outbox[c]) \in Nat
        BY DEF TypeOK, LinkTypeOK
    <2>1. CASE conn[d] # "up"
        <3>1. UNCHANGED outbox
            BY <1>2, <2>1, <2>e DEF Send
        <3>2. \A c \in Conns : Written(c) = wire[c]
            BY <1>2, <2>0, <3>1 DEF Written, OpenedKept
        <3>3. QED
            BY <3>2
    <2>2. CASE conn[d] = "up"
        <3>1. outbox' = [outbox EXCEPT ![d] = Append(@, a)]
            BY <1>2, <2>2, <2>e DEF Send
        <3>2. \A c \in Conns : c # d => Written(c) = wire[c]
            BY <1>2, <2>0, <3>1 DEF Written, OpenedKept, TypeOK, LinkTypeOK
        <3>3. outbox'[d] = Append(outbox[d], a)
            BY <2>0, <3>1 DEF TypeOK, LinkTypeOK
        <3>4. Len(outbox'[d]) = Len(outbox[d]) + 1 /\ outbox'[d][Len(outbox'[d])] = a
            BY <2>0, <3>3, AppendProperties
        <3>5. Len(outbox'[d]) > Len(outbox[d])
            BY <2>0, <3>4
        <3>6. Written(d) = Append(wire[d], PacketOf(a))
            BY <1>2, <2>0, <3>4, <3>5 DEF Written, OpenedKept, PacketOf
        <3>7. wire' = [wire EXCEPT ![d] = Append(@, PacketOf(a))]
            BY <2>0, <3>2, <3>6
        <3>8. QED
            BY <2>2, <2>e, <3>7 DEF Opened
    <2>3. QED
        BY <2>1, <2>2
<1>3. ASSUME NEW a \in Actors, Send(a) PROVE sess[a] \in Conns
    BY <1>3, HasSession DEF Send, ExchangePc
<1>4. QED
    BY <1>0, <1>1, <1>2, <1>3, Opening

-----------------------------------------------------------------------------
\* The invariant

\* Each connection begins with its one InitConnect.
Headed ==
    \A c \in Conns :
        /\ ~Opened(c) => wire[c] = <<>>
        /\ Opened(c) => wire[c] # <<>>
        /\ \A i \in DOMAIN wire[c] : wire[c][i] = InitConnect <=> i = 1

\* n is on the wire.
OnWire(n) == \E c \in Conns : \E i \in DOMAIN wire[c] : wire[c][i].serial = n

\* The numbers in use, until the counter wraps.
Ahead ==
    /\ serial > 1
    /\ \A a \in Actors : mine[a] < serial /\ mine[a] # 1
    /\ \A a, b \in Actors : mine[a] = mine[b] /\ mine[a] # 0 => a = b
    /\ \A c \in Conns : \A i \in DOMAIN wire[c] :
        /\ wire[c][i].serial < serial
        /\ wire[c][i].serial = 1 => wire[c][i] = InitConnect
    /\ \A a \in Actors : HasDrawn(a) => mine[a] # 0 /\ ~OnWire(mine[a])
    /\ \A t \in Commands : HasGone(t) => mine[t] # 0

\* SerialInv is its parts.
LEMMA SerialParts ==
    /\ SerialInv <=> wire \in [Conns -> Seq(Packet)] /\ Headed /\ (~wrapped => Ahead)
    /\ SerialInv' <=> wire' \in [Conns -> Seq(Packet)] /\ Headed' /\ (~wrapped' => Ahead')
BY DEF SerialInv, Packet, Headed, Ahead, HasDrawn, HasGone, OnWire

\* The counter counts until it reaches its last value.
LEMMA SmallModulo ==
    ASSUME NEW m \in Nat \ {0}, NEW n \in 0..(m - 1)
    PROVE  n % m = n
OBVIOUS

\* The number drawn is new, and the next one is beyond it.
LEMMA DrawKeeps ==
    ASSUME TypeOK, KindInv, [Next]_vars, Ahead, NEW a \in Actors, Draw(a),
           UNCHANGED wire, ~(serial' < serial), wire \in [Conns -> Seq(Packet)]
    PROVE  Ahead'
<1>0. serial \in 0..(SerialMod - 1) /\ \A b \in Actors : mine[b] \in 0..(SerialMod - 1)
    BY DEF TypeOK, SessionTypeOK
<1>1. serial' = (serial + 1) % SerialMod /\ mine' = [mine EXCEPT ![a] = serial]
    BY DEF Draw, NextSerial
<1>2. serial' = serial + 1
    <2>1. CASE serial = SerialMod - 1
        <3>1. serial' = 0
            BY <1>1, <2>1, SerialAssumption
        <3>2. QED
            BY <1>0, <3>1 DEF Ahead
    <2>2. CASE serial # SerialMod - 1
        <3>1. serial + 1 \in 0..(SerialMod - 1)
            BY <1>0, <2>2, SerialAssumption
        <3>2. QED
            BY <1>1, <3>1, SerialAssumption, SmallModulo
    <2>3. QED
        BY <2>1, <2>2
<1>3. mine'[a] = serial /\ \A b \in Actors : b # a => mine'[b] = mine[b]
    BY <1>1 DEF TypeOK, SessionTypeOK
<1>4. serial' > 1 /\ \A b \in Actors : mine'[b] < serial' /\ mine'[b] # 1
    BY <1>0, <1>2, <1>3 DEF Ahead
<1>5. \A b \in Actors : mine[b] # serial
    BY <1>0 DEF Ahead
<1>6. \A b, d \in Actors : mine'[b] = mine'[d] /\ mine'[b] # 0 => b = d
    BY <1>3, <1>5 DEF Ahead
<1>7. \A c \in Conns : \A i \in DOMAIN wire[c] :
        wire[c][i].serial \in Nat /\ wire[c][i].serial < serial
    <2>1. \A c \in Conns : \A i \in DOMAIN wire[c] : wire[c][i] \in Packet
        OBVIOUS
    <2>2. QED
        BY <2>1, SerialAssumption DEF Ahead, Packet
<1>8. \A c \in Conns : \A i \in DOMAIN wire[c] :
        wire[c][i].serial < serial' /\ (wire[c][i].serial = 1 => wire[c][i] = InitConnect)
    BY <1>0, <1>2, <1>7 DEF Ahead
<1>9. ~OnWire(serial)
    BY <1>0, <1>7 DEF OnWire
<1>10. ASSUME NEW b \in Actors, HasDrawn(b)' PROVE mine'[b] # 0 /\ ~OnWire(mine'[b])
    <2>1. CASE b = a
        BY <1>0, <1>3, <1>9, <2>1 DEF Ahead
    <2>2. CASE b # a
        <3>1. HasDrawn(b)
            BY <1>10, <2>2 DEF HasDrawn, Draw, TypeOK, ControlTypeOK
        <3>2. QED
            BY <1>3, <2>2, <3>1 DEF Ahead
    <2>3. QED
        BY <2>1, <2>2
<1>11. ASSUME NEW t \in Commands, HasGone(t)' PROVE mine'[t] # 0
    <2>1. mine[t] # 0
        BY <1>11, CommandGoes DEF Ahead, Actors, Tasks
    <2>2. t \in Actors /\ serial # 0
        BY <1>0 DEF Ahead, Actors, Tasks
    <2>3. QED
        BY <1>3, <2>1, <2>2
<1>12. \A n : OnWire(n)' <=> OnWire(n)
    BY DEF OnWire
<1>13. \A b \in Actors : HasDrawn(b)' => mine'[b] # 0 /\ ~OnWire(mine[b])'
    BY <1>10 DEF OnWire
<1>14. QED
    BY <1>4, <1>6, <1>8, <1>11, <1>13 DEF Ahead

\* The written number was its writer's alone, and is on the wire from now on.
LEMMA WriteKeeps ==
    ASSUME TypeOK, KindInv, [Next]_vars, Ahead, NobodyDraws, wire \in [Conns -> Seq(Packet)],
           NEW a \in Actors, Send(a), sess[a] \in Conns, Opened(sess[a]), OpenedKept, Headed,
           wire' = [wire EXCEPT ![sess[a]] = Append(@, PacketOf(a))]
    PROVE  /\ Ahead' /\ Headed' /\ wire' \in [Conns -> Seq(Packet)]
           /\ SerialsDistinct => SerialsDistinct'
<1> DEFINE d == sess[a]
           n == Len(wire[d])
<1>0. UNCHANGED <<serial, mine>> /\ mine[a] \in 0..(SerialMod - 1) /\ d \in Conns
    BY DEF NobodyDraws, TypeOK, SessionTypeOK
<1>1. PacketOf(a) \in Packet /\ PacketOf(a).serial = mine[a]
    BY <1>0 DEF Packet, PacketOf
<1>2. wire' \in [Conns -> Seq(Packet)]
    BY <1>1
<1>3. /\ pc[a] = "wait" /\ pc'[a] = "recv"
      /\ mine[a] # 0 /\ mine[a] # 1 /\ ~OnWire(mine[a])
    BY DEF Send, TypeOK, ControlTypeOK, Ahead, HasDrawn
<1>4. n \in Nat /\ DOMAIN wire[d] = 1..n
    BY <1>0
<1>5. /\ DOMAIN wire'[d] = 1..(n + 1) /\ wire'[d][n + 1] = PacketOf(a)
      /\ \A i \in 1..n : wire'[d][i] = wire[d][i]
    <2>1. wire'[d] = Append(wire[d], PacketOf(a)) /\ wire[d] \in Seq(Packet)
        BY <1>0
    <2> HIDE DEF d
    <2>2. QED
        BY <1>1, <2>1, AppendProperties DEF d
<1>6. \A c \in Conns : c # d => wire'[c] = wire[c]
    OBVIOUS
<1>7. 1..(n + 1) = (1..n) \cup {n + 1} /\ n + 1 \notin 1..n
    BY <1>4, Places
<1> HIDE DEF n, d
<1>8. ASSUME NEW c \in Conns, NEW i \in DOMAIN wire'[c]
      PROVE  \/ i \in DOMAIN wire[c] /\ wire'[c][i] = wire[c][i]
             \/ c = d /\ i = n + 1 /\ wire'[c][i].serial = mine[a]
    BY <1>1, <1>4, <1>5, <1>6, <1>7
<1>9. \A c \in Conns : \A i \in DOMAIN wire'[c] :
        /\ wire'[c][i].serial < serial'
        /\ wire'[c][i].serial = 1 => wire'[c][i] = InitConnect
    BY <1>0, <1>3, <1>8 DEF Ahead
<1>10. ASSUME NEW b \in Actors, HasDrawn(b)' PROVE mine'[b] # 0 /\ ~OnWire(mine[b])'
    <2>1. HasDrawn(b) /\ b # a
        BY <1>3, <1>10 DEF NobodyDraws, HasDrawn
    <2>2. mine[b] # 0 /\ ~OnWire(mine[b]) /\ mine[b] # mine[a]
        BY <2>1 DEF Ahead
    <2>3. \A c \in Conns : \A i \in DOMAIN wire'[c] : wire'[c][i].serial # mine[b]
        BY <1>8, <2>2 DEF OnWire
    <2>4. QED
        BY <1>0, <2>2, <2>3 DEF OnWire
<1>11. ASSUME NEW t \in Commands, HasGone(t)' PROVE mine'[t] # 0
    BY <1>0, <1>11, CommandGoes DEF Ahead, Actors, Tasks
<1>12. Ahead'
    BY <1>0, <1>9, <1>10, <1>11 DEF Ahead
<1>13. ASSUME SerialsDistinct PROVE SerialsDistinct'
    <2> SUFFICES ASSUME NEW c \in Conns, NEW e \in Conns, NEW i \in DOMAIN wire'[c],
                        NEW j \in DOMAIN wire'[e], wire'[c][i].serial = wire'[e][j].serial
                 PROVE  IF c = e THEN i = j
                        ELSE wire'[c][i] = InitConnect /\ wire'[e][j] = InitConnect
        BY DEF SerialsDistinct
    <2>1. \A f \in Conns : \A k \in DOMAIN wire[f] : wire[f][k].serial # mine[a]
        BY <1>3 DEF OnWire
    <2>2. \/ /\ i \in DOMAIN wire[c] /\ j \in DOMAIN wire[e]
             /\ wire'[c][i] = wire[c][i] /\ wire'[e][j] = wire[e][j]
          \/ c = d /\ e = d /\ i = n + 1 /\ j = n + 1
        BY <1>8, <2>1
    <2>3. QED
        BY <1>13, <2>2 DEF SerialsDistinct
<1>14. ASSUME NEW c \in Conns
       PROVE  /\ ~Opened(c)' => wire'[c] = <<>>
              /\ Opened(c)' => wire'[c] # <<>>
              /\ \A i \in DOMAIN wire'[c] : wire'[c][i] = InitConnect <=> i = 1
    <2>1. CASE c # d
        BY <1>6, <2>1 DEF Headed, OpenedKept
    <2>2. CASE c = d
        <3>1. Opened(c) /\ Opened(c)'
            BY <2>2 DEF d, OpenedKept
        <3>2. wire'[d] # <<>>
            <4>1. n + 1 \in DOMAIN wire'[d]
                BY <1>4, <1>5
            <4>2. DOMAIN <<>> = {}
                OBVIOUS
            <4>3. QED
                BY <4>1, <4>2
        <3>3. n # 0 /\ n + 1 # 1
            <4>1. wire[d] \in Seq(Packet) /\ wire[d] # <<>>
                BY <1>0, <2>2, <3>1 DEF Headed
            <4>2. QED
                BY <1>4, <4>1, EmptySeq DEF n
        <3>4. PacketOf(a) # InitConnect
            BY LinkAssumption DEF PacketOf, InitConnect
        <3>5. \A i \in 1..n : wire'[d][i] = InitConnect <=> i = 1
            BY <1>0, <1>4, <1>5 DEF Headed
        <3>6. QED
            BY <1>5, <1>7, <2>2, <3>1, <3>2, <3>3, <3>4, <3>5
    <2>3. QED
        BY <2>1, <2>2
<1>15. QED
    BY <1>2, <1>12, <1>13, <1>14 DEF Headed

\* InitConnect opens a connection that nothing was written to yet.
LEMMA OpenKeeps ==
    ASSUME TypeOK, KindInv, [Next]_vars, wire \in [Conns -> Seq(Packet)], Headed, Ahead,
           NEW d \in Conns, Opens(d), wire' = [wire EXCEPT ![d] = Append(@, InitConnect)]
    PROVE  /\ Ahead' /\ Headed' /\ wire' \in [Conns -> Seq(Packet)]
           /\ SerialsDistinct => SerialsDistinct'
<1>0. UNCHANGED <<serial, mine>>
    BY DEF Opens, NobodyDraws
<1>1. InitConnect \in Packet /\ InitConnect.serial = 1
    BY SerialAssumption, WideSerial DEF InitConnect, Packet
<1>2. wire[d] = <<>>
    BY DEF Opens, Headed
<1>3. wire'[d] = <<InitConnect>>
    BY <1>2
<1>4. wire'[d] # <<>> /\ DOMAIN wire'[d] = {1} /\ wire'[d][1] = InitConnect
    BY <1>3, Empty, One
<1>5. \A c \in Conns : c # d => wire'[c] = wire[c]
    OBVIOUS
<1>6. wire' \in [Conns -> Seq(Packet)]
    BY <1>1
<1>7. Headed'
    BY <1>4, <1>5 DEF Headed, Opens
<1>8. ASSUME NEW c \in Conns, NEW i \in DOMAIN wire'[c]
      PROVE  \/ c # d /\ i \in DOMAIN wire[c] /\ wire'[c][i] = wire[c][i]
             \/ c = d /\ i = 1 /\ wire'[c][i] = InitConnect
    BY <1>4, <1>5
<1>9. \A c \in Conns : \A i \in DOMAIN wire'[c] :
        /\ wire'[c][i].serial < serial'
        /\ wire'[c][i].serial = 1 => wire'[c][i] = InitConnect
    BY <1>0, <1>1, <1>8 DEF Ahead
<1>10. ASSUME NEW b \in Actors, HasDrawn(b)' PROVE mine'[b] # 0 /\ ~OnWire(mine[b])'
    <2>1. mine[b] # 0 /\ mine[b] # 1 /\ ~OnWire(mine[b])
        BY <1>10 DEF Opens, NobodyDraws, Ahead
    <2>2. \A c \in Conns : \A i \in DOMAIN wire'[c] : wire'[c][i].serial # mine[b]
        BY <1>1, <1>8, <2>1 DEF OnWire
    <2>3. QED
        BY <1>0, <2>1, <2>2 DEF OnWire
<1>11. \A t \in Commands : HasGone(t)' => mine'[t] # 0
    BY <1>0, CommandGoes DEF Ahead, Actors, Tasks
<1>12. Ahead'
    BY <1>0, <1>9, <1>10, <1>11 DEF Ahead
<1>13. ASSUME SerialsDistinct PROVE SerialsDistinct'
    <2> SUFFICES ASSUME NEW c \in Conns, NEW e \in Conns, NEW i \in DOMAIN wire'[c],
                        NEW j \in DOMAIN wire'[e], wire'[c][i].serial = wire'[e][j].serial
                 PROVE  IF c = e THEN i = j
                        ELSE wire'[c][i] = InitConnect /\ wire'[e][j] = InitConnect
        BY DEF SerialsDistinct
    <2>1. CASE c = d \/ e = d
        BY <1>1, <1>8, <1>9, <2>1
    <2>2. CASE c # d /\ e # d
        BY <1>8, <1>13, <2>2 DEF SerialsDistinct
    <2>3. QED
        BY <2>1, <2>2
<1>14. QED
    BY <1>6, <1>7, <1>12, <1>13

\* Other steps leave the numbers alone.
LEMMA QuietKeeps ==
    ASSUME TypeOK, KindInv, [Next]_vars, Ahead, NobodyDraws, UNCHANGED wire
    PROVE  Ahead'
<1>1. UNCHANGED <<serial, mine>>
    BY DEF NobodyDraws
<1>2. \A b \in Actors : HasDrawn(b)' => mine'[b] # 0 /\ ~OnWire(mine[b])'
    BY <1>1 DEF NobodyDraws, Ahead, OnWire
<1>3. \A t \in Commands : HasGone(t)' => mine'[t] # 0
    BY <1>1, CommandGoes DEF Ahead, Actors, Tasks
<1>4. QED
    BY <1>1, <1>2, <1>3 DEF Ahead

\* All of it, with what it rests on.
WireParts == TypeOK /\ FreshInv /\ KindInv /\ SerialInv /\ SerialsDistinct

LEMMA WireStart == WireInit => WireParts
<1> SUFFICES ASSUME WireInit PROVE WireParts
    OBVIOUS
<1>1. Init
    BY DEF WireInit
<1>2. TypeOK /\ FreshInv /\ KindInv
    BY <1>1, TypeInit, StreamInit, OnceInit DEF StreamParts, OnceParts
<1>3. \A c \in Conns : DOMAIN wire[c] = {}
    <2>1. DOMAIN <<>> = {}
        OBVIOUS
    <2>2. QED
        BY <2>1 DEF WireInit
<1>4. wire \in [Conns -> Seq(Packet)]
    BY DEF WireInit
<1>5. serial = 2 /\ \A a \in Actors : mine[a] = 0
    <2>1. 2 \in 0..(SerialMod - 1)
        BY SerialAssumption, WideSerial
    <2>2. QED
        BY <1>1, <2>1, SmallModulo, SerialAssumption DEF Init, SessionInit
<1>6. \A a \in Actors : ~HasDrawn(a)
    BY <1>1 DEF Init, HasDrawn
<1>7. \A t \in Commands : ~HasGone(t)
    <2>1. \A t \in Commands : pc[t] = "ensure"
        BY <1>1, LinkAssumption DEF Init, Actors, Tasks
    <2>2. QED
        BY <2>1 DEF HasGone
<1>8. Ahead
    BY <1>3, <1>5, <1>6, <1>7 DEF Ahead
<1>9. Headed
    BY <1>1, <1>3 DEF Headed, Opened, Init, LinkInit, WireInit
<1>10. QED
    BY <1>2, <1>3, <1>4, <1>8, <1>9, SerialParts DEF WireParts, SerialsDistinct

LEMMA WireStep == WireParts /\ [WireNext]_wireVars => WireParts'
<1> SUFFICES ASSUME WireParts, [WireNext]_wireVars PROVE WireParts'
    OBVIOUS
<1>0. TypeOK /\ FreshInv /\ KindInv /\ SerialsDistinct /\ wire \in [Conns -> Seq(Packet)]
      /\ Headed /\ (~wrapped => Ahead)
    BY SerialParts DEF WireParts
<1>1. CASE UNCHANGED wireVars
    <2>1. [Next]_vars
        BY <1>1 DEF wireVars
    <2>2. TypeOK' /\ FreshInv' /\ KindInv'
        BY <1>0, <2>1, TypeStep, FreshPreserved, KindPreserved
    <2>a. UNCHANGED <<conn, serial, mine, pc, reply, wire, wrapped>>
        BY <1>1 DEF wireVars, vars, linkVars, sessionVars
    <2>b. SerialsDistinct' /\ Headed'
        BY <1>0, <2>a DEF SerialsDistinct, Headed, Opened
    <2>c. Ahead <=> Ahead'
        BY <2>a DEF Ahead, HasDrawn, HasGone, OnWire
    <2>3. SerialInv' /\ SerialsDistinct'
        BY <1>0, <2>a, <2>b, <2>c, SerialParts
    <2>4. QED
        BY <2>2, <2>3 DEF WireParts
<1>2. CASE /\ ~wrapped /\ Next
           /\ wrapped' = (serial' < serial)
           /\ wire' = [c \in Conns |-> Written(c)]
    <2>0. Ahead /\ [Next]_vars
        BY <1>0, <1>2
    <2>1. TypeOK' /\ FreshInv' /\ KindInv'
        BY <1>0, <2>0, TypeStep, FreshPreserved, KindPreserved
    <2>2. CASE OpenedKept /\ UNCHANGED wire
        <3>1. SerialsDistinct' /\ Headed' /\ wire' \in [Conns -> Seq(Packet)]
            BY <1>0, <2>2 DEF SerialsDistinct, Headed, OpenedKept
        <3>2. ~wrapped' => Ahead'
            BY <1>0, <1>2, <2>0, <2>2, Draws, DrawKeeps, QuietKeeps
        <3>3. QED
            BY <2>1, <3>1, <3>2, SerialParts DEF WireParts
    <2>3. ASSUME OpenedKept, NEW a \in Actors, Send(a), sess[a] \in Conns, Opened(sess[a]),
                 wire' = [wire EXCEPT ![sess[a]] = Append(@, PacketOf(a))]
          PROVE  WireParts'
        <3>1. NobodyDraws
            <4>1. UNCHANGED <<serial, mine>> /\ pc' = [pc EXCEPT ![a] = "recv"]
                BY <2>3 DEF Send
            <4>2. QED
                BY <1>0, <4>1, MovesOn DEF NobodyDraws
        <3>2. Ahead' /\ Headed' /\ wire' \in [Conns -> Seq(Packet)] /\ SerialsDistinct'
            BY <1>0, <2>0, <2>3, <3>1, WriteKeeps
        <3>3. QED
            BY <2>1, <3>2, SerialParts DEF WireParts
    <2>4. ASSUME NEW d \in Conns, Opens(d), wire' = [wire EXCEPT ![d] = Append(@, InitConnect)]
          PROVE  WireParts'
        <3>1. Ahead' /\ Headed' /\ wire' \in [Conns -> Seq(Packet)] /\ SerialsDistinct'
            BY <1>0, <2>0, <2>4, OpenKeeps
        <3>2. QED
            BY <2>1, <3>1, SerialParts DEF WireParts
    <2>5. QED
        BY <1>0, <1>2, <2>0, <2>2, <2>3, <2>4, Writes
<1>3. QED
    BY <1>1, <1>2 DEF WireNext

-----------------------------------------------------------------------------
\* The properties

\* The counter stays ahead of all numbers in use until it wraps, no two holders
\* share one, and each connection begins with its one InitConnect.
THEOREM SerialInvariant == WireSpec => []SerialInv
<1>1. WireParts => SerialInv
    BY DEF WireParts
<1>2. QED
    BY <1>1, WireStart, WireStep, PTL DEF WireSpec

\* No number but the 1 of InitConnect is written twice, on one connection or on several,
\* whatever calls, retries and keep-alives run beside each other, and none of them
\* writes that 1: next_serial is one atomic step on a counter that starts at 2, though
\* it comes before the stream is locked (opend.rs:85, 117, 161-163, 285, 365).
THEOREM SerialsNeverRepeat == WireSpec => []SerialsDistinct
<1>1. WireParts => SerialsDistinct
    BY DEF WireParts
<1>2. QED
    BY <1>1, WireStart, WireStep, PTL DEF WireSpec

\* Commands whose contexts are prepared at the same time get different packet ids
\* (prepare_command, opend.rs:110-118).
THEOREM PacketIdsNeverShared == WireSpec => []PacketIdsDistinct
<1>1. ASSUME WireParts, ~wrapped, NEW s \in Commands,
             pc[s] \notin {"ensure", "connect", "prepare"}, reply[s] # "connect"
      PROVE  mine[s] # 0
    <2>1. Ahead /\ s \in Tasks /\ s \in Actors
        BY <1>1, SerialParts DEF WireParts, Tasks, Actors
    <2>2. pc[s] \in ExchangePc \cup TaskPc /\ pc[s] \notin {"call", "invalidate"}
        BY <1>1, <2>1 DEF WireParts, TypeOK, ControlTypeOK, KindInv
    <2>3. HasDrawn(s) \/ HasGone(s)
        BY <1>1, <2>2 DEF HasDrawn, HasGone, ExchangePc, TaskPc
    <2>4. QED
        BY <2>1, <2>3 DEF Ahead
<1>2. ASSUME WireParts, ~wrapped, NEW s \in Commands, NEW t \in Commands,
             mine[s] = mine[t], mine[s] # 0
      PROVE  s = t
    BY <1>2, SerialParts DEF WireParts, Ahead, Tasks, Actors
<1>3. WireParts => PacketIdsDistinct
    BY <1>1, <1>2 DEF PacketIdsDistinct
<1>4. QED
    BY <1>3, WireStart, WireStep, PTL DEF WireSpec

=============================================================================
