-------------------------- MODULE SubscriptionProofs --------------------------
(***************************************************************************)
(* Proofs about Subscriptions, for any number of calls, codes and          *)
(* sessions: a subscription reported to its caller lives as long as its    *)
(* connection, and nothing but a reconnect makes OpenD refuse a quote      *)
(* asked for after it.  Without notifications, under which an answer may   *)
(* reach another caller.                                                   *)
(***************************************************************************)
EXTENDS Subscriptions, SessionProofs

\* What the argument needs to know of the sessions under the calls.
Below == TypeOK /\ SlotInv /\ StreamParts

-----------------------------------------------------------------------------
\* A call without codes

\* It ends alone, and touches neither a session nor a stream.
LEMMA RejectMoves ==
    ASSUME TypeOK, NEW t \in Queries, RejectEmpty(t)
    PROVE  /\ pc[t] = "ensure" /\ pc'[t] = "done"
           /\ reply'[t] = "invalid"
           /\ \A a \in Actors : a # t => pc'[a] = pc[a] /\ reply'[a] = reply[a]
           /\ UNCHANGED <<conn, outbox, inbox, executed, broken, closed, lock, sess,
                          slot, slotOwner, first, got>>
BY DEF RejectEmpty, TypeOK, ControlTypeOK, Actors, Tasks, linkVars, clientVars

\* So it keeps what is known of them.
LEMMA RejectKeeps ==
    ASSUME Below, NEW t \in Queries, RejectEmpty(t)
    PROVE  Below'
<1>0. t \in Tasks /\ t \in Actors /\ t \notin Conns
    BY LinkAssumption DEF Actors, Tasks
<1>1. TypeOK'
    <2>1. ControlTypeOK'
        BY <1>0, ControlStep DEF RejectEmpty, Below, TaskPc
    <2>2. QED
        BY <1>0, <2>1 DEF RejectEmpty, Below, TypeOK, LinkTypeOK, SessionTypeOK, linkVars,
                          clientVars, TaskReply
<1>2. SlotInv'
    BY <1>0, RejectMoves DEF Below, SlotInv, OneCurrentSession, Opened, Actors
<1>3. FreshInv'
    BY <1>0, RejectMoves DEF Below, StreamParts, FreshInv, Opened, Actors
<1>4. LockInv'
    BY <1>0, RejectMoves DEF Below, StreamParts, LockInv
<1>5. StreamInv' /\ (~Pushes => ReplyMatchesRequest')
    BY RejectMoves DEF Below, StreamParts, StreamInv, ReplyMatchesRequest
<1>6. QED
    BY <1>1, <1>2, <1>3, <1>4, <1>5 DEF Below, StreamParts

\* A step of the quote tools is one of the client, or such an end.
LEMMA SubCases ==
    ASSUME [SubNext]_subVars
    PROVE  [Next]_vars \/ \E t \in Queries : RejectEmpty(t)
BY DEF SubNext, subVars

\* What is known of the sessions stays true.
LEMMA BelowPreserved == Below /\ [SubNext]_subVars => Below'
<1> SUFFICES ASSUME Below, [SubNext]_subVars PROVE Below'
    OBVIOUS
<1>1. CASE [Next]_vars
    BY <1>1, TypeStep, SlotPreserved, StreamKept DEF Below
<1>2. QED
    BY <1>1, SubCases, RejectKeeps

\* It holds at the start.
LEMMA BelowInit == Init => Below
BY TypeInit, CauseInit, StreamInit DEF Below, CauseParts

-----------------------------------------------------------------------------
\* What a step may do to a call, its session and its effects

\* A call that is done stays so, with its answer and its session.
LEMMA DoneStays ==
    ASSUME Below, [SubNext]_subVars, NEW t \in Queries, pc[t] = "done"
    PROVE  UNCHANGED <<pc[t], reply[t], sess[t]>>
<1>0. t \in Tasks /\ t \in Actors
    BY DEF Actors, Tasks
<1>1. CASE [Next]_vars
    <2>1. ~Task(t)
        BY DEF Task, Ensure, ConnectOk, ConnectFails, Prepare, RejectParams, Submit,
               CommandReturn, QueryReturn, Invalidate, Call, Exchange, Send, SendFails, Receive,
               ReceiveFails
    <2>2. QED
        BY <1>0, <1>1, <2>1, OneTaskMoves, SessionKept DEF Below
<1>2. CASE \E s \in Queries : RejectEmpty(s)
    BY <1>0, <1>2, RejectMoves DEF Below
<1>3. QED
    BY <1>1, <1>2, SubCases

\* A task that takes a step moves on.
LEMMA TaskProgress ==
    ASSUME TypeOK, NEW t \in Tasks, Task(t)
    PROVE  pc'[t] # pc[t]
<1> USE DEF TypeOK, ControlTypeOK
<1>0. t \in Actors /\ t \notin Conns
    BY LinkAssumption DEF Actors
<1>1. CASE Ensure(t) \/ ConnectFails(t) \/ Invalidate(t)
    BY <1>0, <1>1 DEF Ensure, Ensured, ConnectFails, Invalidate
<1>2. CASE ConnectOk(t)
    BY <1>0, <1>2 DEF ConnectOk, Ensured
<1>3. CASE Prepare(t) \/ RejectParams(t) \/ Submit(t) \/ CommandReturn(t) \/ QueryReturn(t)
    BY <1>0, <1>3 DEF Prepare, RejectParams, Submit, Admit, CommandReturn, QueryReturn
<1>4. CASE Call(t) \/ Exchange(t)
    BY <1>0, <1>4 DEF Call, Admit, Exchange, Send, SendFails, Receive, ReceiveFails, IoError
<1>5. QED
    BY <1>1, <1>2, <1>3, <1>4 DEF Task

\* Only a step of its own gives a call a session, and not before the calls it
\* waits for are done.
LEMMA SessionMoves ==
    ASSUME Below, [SubNext]_subVars, NEW g \in Queries, sess'[g] # sess[g]
    PROVE  /\ Ensure(g) \/ ConnectOk(g)
           /\ \A s \in Before[g] : pc[s] = "done"
           /\ [Next]_vars
<1>0. g \in Tasks /\ g \in Actors
    BY DEF Actors, Tasks
<1>1. ~\E s \in Queries : RejectEmpty(s)
    BY RejectMoves DEF Below
<1>2. [Next]_vars /\ Task(g)
    BY <1>0, <1>1, SubCases, SessionKept DEF Below
<1>3. pc'[g] # pc[g]
    BY <1>0, <1>2, TaskProgress DEF Below
<1>4. ~Held(g)
    BY <1>1, <1>3 DEF SubNext, subVars, vars, sessionVars
<1>5. SlotStep(g)
    BY <1>0, <1>2, TaskMoves DEF Still
<1>6. Ensure(g) \/ ConnectOk(g)
    BY <1>5 DEF SlotStep, ConnectFails, Invalidate
<1>7. QED
    BY <1>2, <1>4, <1>6 DEF Held

\* The packet that a query reads is the answer to it.
LEMMA OwnAnswer ==
    ASSUME Below, ~Pushes, NEW t \in Queries, Receive(t), reply'[t] \in {"ok", "refused"}
    PROVE  /\ sess[t] \in Conns
           /\ 1 \in 1..Len(inbox[sess[t]])
           /\ inbox[sess[t]][1] = [to |-> t, verdict |-> reply'[t]]
<1> DEFINE q == inbox[sess[t]]
           m == Head(q)
<1>0. t \in Actors /\ t # None
    BY LinkAssumption DEF Actors, Tasks
<1>1. sess[t] \in Conns
    BY <1>0, HasSession DEF Receive, ExchangePc, Below
<1>2. q \in Seq(Message) /\ q # <<>>
    BY <1>1 DEF Receive, Below, TypeOK, LinkTypeOK
<1>3. m = q[1] /\ Len(q) \in Nat \ {0} /\ m \in Message
    BY <1>2, Rest, HeadTailProperties
<1>4. 1 \in 1..Len(q)
    BY <1>3
<1>5. lock[sess[t]] = t
    BY <1>0, <1>1 DEF Receive, Below, StreamParts, LockInv
<1>6. m.to = t
    BY <1>1, <1>3, <1>4, <1>5 DEF Below, StreamParts, StreamInv
<1>7. m \in [to : Actors, verdict : Verdicts]
    BY <1>0, <1>3, <1>6 DEF Message, Notification
<1>8. m.verdict = reply'[t]
    BY <1>0 DEF Receive, Below, TypeOK
<1>9. QED
    BY <1>1, <1>3, <1>4, <1>6, <1>7, <1>8

\* How a query comes to an answer of OpenD's, and how it keeps one.
LEMMA AnswerMoves ==
    ASSUME Below, AnsweredInv, ~Pushes, [SubNext]_subVars, NEW t \in Queries,
           reply'[t] \in {"ok", "refused"}
    PROVE  /\ pc'[t] \in {"returned", "done"}
           /\ sess'[t] = sess[t] /\ sess[t] \in Conns
           /\ reply[t] = reply'[t] \/ Receive(t)
<1>0. t \in Tasks /\ t \in Actors /\ t \notin Conns
    BY LinkAssumption DEF Actors, Tasks
<1>1. reply[t] \in {"ok", "refused"} => pc[t] \in {"returned", "done"} /\ sess[t] \in Conns
    BY DEF AnsweredInv
<1>2. CASE \E s \in Queries : RejectEmpty(s)
    <2>1. PICK s \in Queries : RejectEmpty(s)
        BY <1>2
    <2>2. s # t
        BY <2>1, RejectMoves DEF Below
    <2>3. QED
        BY <1>0, <1>1, <2>1, <2>2, RejectMoves DEF Below
<1>3. CASE [Next]_vars /\ Task(t)
    <2> USE DEF TypeOK, SessionTypeOK, ControlTypeOK, Below
    <2>1. ~SlotStep(t)
        <3>1. CASE Ensure(t) \/ Invalidate(t)
            BY <1>1, <3>1 DEF Ensure, Invalidate
        <3>2. CASE ConnectOk(t) \/ ConnectFails(t)
            BY <1>0, <1>1, <3>2 DEF ConnectOk, ConnectFails
        <3>3. QED
            BY <3>1, <3>2 DEF SlotStep
    <2>2. sess' = sess
        BY <1>0, <1>3, <2>1, TaskMoves DEF Still
    <2>3. CASE Receive(t)
        BY <1>0, <2>2, <2>3, OwnAnswer DEF Receive
    <2>4. CASE SendFails(t) \/ ReceiveFails(t) \/ Send(t) \/ Call(t)
        BY <1>0, <1>1, <2>4 DEF SendFails, ReceiveFails, IoError, Send, Call, Admit
    <2>5. CASE Prepare(t) \/ RejectParams(t) \/ Submit(t)
        BY <1>0, <1>1, <2>5 DEF Prepare, RejectParams, Submit, Admit
    <2>6. CASE QueryReturn(t) \/ CommandReturn(t)
        BY <1>0, <1>1, <2>2, <2>6 DEF QueryReturn, CommandReturn, Forget
    <2>7. QED
        BY <1>3, <2>1, <2>3, <2>4, <2>5, <2>6 DEF Task, SlotStep, Exchange
<1>4. CASE [Next]_vars /\ ~Task(t)
    BY <1>0, <1>1, <1>4, OneTaskMoves, SessionKept DEF Below
<1>5. QED
    BY <1>2, <1>3, <1>4, SubCases

\* What OpenD carried out stays carried out.
LEMMA EffectGrows ==
    ASSUME Below, [SubNext]_subVars, NEW t \in Tasks
    PROVE  executed'[t] = 0 => executed[t] = 0
<1>1. CASE UNCHANGED executed
    BY <1>1
<1>2. CASE \E d \in Conns : Serve(d)
    BY <1>2 DEF Serve, Below, TypeOK, LinkTypeOK
<1>3. CASE \E s \in Queries : RejectEmpty(s)
    BY <1>1, <1>3, RejectMoves DEF Below
<1>4. QED
    BY <1>1, <1>2, <1>3, SubCases, EffectMoves DEF Below, StreamParts

\* What nobody takes back now, nobody took back before.
LEMMA KeptBefore ==
    ASSUME Below, [SubNext]_subVars, NEW s \in Queries, KeepsBasic(s)'
    PROVE  KeepsBasic(s)
<1>1. ask' = ask
    BY DEF SubNext, subVars
<1>2. \A u \in Queries : executed'[u] = 0 => executed[u] = 0
    BY EffectGrows DEF Tasks
<1>3. QED
    BY <1>1, <1>2 DEF KeepsBasic, Needs, Topics

\* OpenD keeps a subscription that nobody takes back, as long as the connection.
LEMMA SubsKept ==
    ASSUME Below, [SubNext]_subVars, NEW s \in Queries, NEW c \in Conns,
           KeepsBasic(s)', Needs(s) \subseteq subs[c], conn'[c] = "up"
    PROVE  Needs(s)' \subseteq subs'[c]
<1>0. ask' = ask
    BY DEF SubNext, subVars
<1>1. Needs(s)' = Needs(s)
    BY <1>0 DEF Needs
<1>2. CASE UNCHANGED subVars
    BY <1>1, <1>2 DEF subVars
<1>3. CASE SubNext
    <2> DEFINE u == Head(outbox[c])
    <2>1. subs'[c] = Subscribed(c)
        BY <1>3 DEF SubNext
    <2>2. CASE Applied(c) /\ ask[u].op = "unsubscribe"
        <3>1. u \in Queries /\ executed'[u] # executed[u]
            BY <2>2 DEF Applied
        <3>2. executed'[u] # 0
            BY <3>1, EffectGrows DEF Tasks
        <3>3. Needs(s) \cap Topics(u) = {}
            BY <1>0, <2>2, <3>1, <3>2 DEF KeepsBasic, Needs, Topics
        <3>4. subs'[c] = subs[c] \ Topics(u)
            BY <2>1, <2>2 DEF Subscribed
        <3>5. QED
            BY <1>1, <3>3, <3>4
    <2>3. CASE ~(Applied(c) /\ ask[u].op = "unsubscribe")
        <3>1. subs[c] \subseteq subs'[c]
            BY <2>1, <2>3 DEF Subscribed
        <3>2. QED
            BY <1>1, <3>1
    <2>4. QED
        BY <2>2, <2>3
<1>4. QED
    BY <1>2, <1>3

\* Neither a lost connection nor a closed session comes back.
LEMMA Gone ==
    ASSUME Below, [SubNext]_subVars, NEW c \in Conns
    PROVE  (conn[c] = "down" => conn'[c] = "down") /\ (closed[c] => closed'[c])
BY SubCases, OneWay, RejectMoves DEF Below

\* What the client can still read was there before, or OpenD just sent it.
LEMMA PacketMoves ==
    ASSUME Below, [SubNext]_subVars, NEW c \in Conns, NEW i \in 1..Len(inbox'[c]),
           inbox'[c][i].verdict \in {"ok", "refused"}
    PROVE  \/ \E j \in 1..Len(inbox[c]) : inbox'[c][i] = inbox[c][j]
           \/ /\ Serve(c)
              /\ \E o \in Outcome :
                    /\ inbox'[c][i] = [to |-> Head(outbox[c]), verdict |-> o.verdict]
                    /\ executed' = [t \in Tasks |->
                                        IF t = Head(outbox[c]) /\ o.applied
                                        THEN executed[t] + 1
                                        ELSE executed[t]]
<1>1. inbox'[c][i] # Notification
    BY DEF Notification
<1>2. CASE \E s \in Queries : RejectEmpty(s)
    BY <1>2, RejectMoves DEF Below
<1>3. CASE [Next]_vars
    BY <1>1, <1>3, InboxMoves DEF Below, StreamParts
<1>4. QED
    BY <1>2, <1>3, SubCases

\* When OpenD answers over a connection that is up, it serves the first request.
LEMMA ServedFirst ==
    ASSUME Below, NEW c \in Conns, Serve(c)
    PROVE  Served(c) /\ 1 \in 1..Len(outbox[c]) /\ Head(outbox[c]) = outbox[c][1]
<1>1. outbox[c] \in Seq(Actors) /\ outbox[c] # <<>> /\ outbox'[c] = Tail(outbox[c])
    BY DEF Serve, Below, TypeOK, LinkTypeOK
<1>2. /\ Len(outbox[c]) \in Nat \ {0} /\ Len(Tail(outbox[c])) = Len(outbox[c]) - 1
      /\ Head(outbox[c]) = outbox[c][1]
    BY <1>1, Rest
<1>3. Len(outbox'[c]) < Len(outbox[c])
    BY <1>1, <1>2
<1>4. conn'[c] = conn[c]
    BY DEF Serve
<1>5. QED
    BY <1>2, <1>3, <1>4 DEF Served

-----------------------------------------------------------------------------
\* The parts of the invariant

\* An answer of OpenD's ends an exchange (opend.rs:90-108, 269-326).
LEMMA AnsweredPreserved ==
    Below /\ AnsweredInv /\ ~Pushes /\ [SubNext]_subVars => AnsweredInv'
BY AnswerMoves DEF AnsweredInv

\* A call gets the session that is current when those before it are done
\* (opend.rs:136-150).
LEMMA AwaitedPreserved == Below /\ AwaitedInv /\ [SubNext]_subVars => AwaitedInv'
<1> SUFFICES ASSUME Below, AwaitedInv, [SubNext]_subVars,
                    NEW g \in Queries, NEW s \in Queries, s \in Before[g], sess'[g] \in Conns
             PROVE  /\ pc'[s] = "done"
                    /\ sess'[s] \in Conns /\ sess'[s] # sess'[g] => closed'[sess'[s]]
    BY DEF AwaitedInv
<1>0. g \in Tasks /\ g \in Actors /\ s \in Tasks
    BY DEF Actors, Tasks
<1>1. pc[s] = "done"
    BY SessionMoves DEF AwaitedInv
<1>2. pc'[s] = "done" /\ sess'[s] = sess[s]
    BY <1>1, DoneStays
<1>3. CASE sess'[g] = sess[g]
    BY <1>2, <1>3, Gone DEF AwaitedInv
<1>4. ASSUME sess'[g] # sess[g], sess[s] \in Conns, sess[s] # sess'[g]
      PROVE  closed'[sess[s]]
    <2>1. (Ensure(g) \/ ConnectOk(g)) /\ [Next]_vars
        BY <1>4, SessionMoves
    <2>2. Opened(sess[s])
        BY <1>0, <1>4 DEF Below, StreamParts, FreshInv
    <2>3. CASE Ensure(g)
        <3>1. sess'[g] = slot
            BY <1>0, <1>4, <2>3 DEF Ensure, Below, TypeOK, SessionTypeOK
        <3>2. closed[sess[s]]
            BY <1>4, <2>2, <3>1 DEF Below, SlotInv, OneCurrentSession
        <3>3. QED
            BY <1>4, <3>2, Gone
    <2>4. CASE ConnectOk(g)
        <3>1. slotOwner = g
            BY <1>0, <2>4 DEF ConnectOk, Below, SlotInv
        <3>2. slot = None /\ None \notin Conns
            BY <1>0, <3>1, LinkAssumption DEF Below, SlotInv, Actors
        <3>3. closed[sess[s]]
            BY <1>4, <2>2, <3>2 DEF Below, SlotInv, OneCurrentSession
        <3>4. QED
            BY <1>4, <3>3, Gone
    <2>5. QED
        BY <2>1, <2>3, <2>4
<1>5. QED
    BY <1>2, <1>3, <1>4

\* A confirmation is true when OpenD sends it, and stays so.
LEMMA ConfirmedPreserved ==
    ASSUME Below, OnTheWayInv, [SubNext]_subVars, NEW c \in Conns, NEW s \in Queries,
           NEW i \in 1..Len(inbox'[c]), inbox'[c][i] = [to |-> s, verdict |-> "ok"],
           KeepsBasic(s)', conn'[c] = "up"
    PROVE  Needs(s)' \subseteq subs'[c]
<1>1. KeepsBasic(s)
    BY KeptBefore
<1>2. CASE \E j \in 1..Len(inbox[c]) : inbox'[c][i] = inbox[c][j]
    <2>1. PICK j \in 1..Len(inbox[c]) : inbox'[c][i] = inbox[c][j]
        BY <1>2
    <2>2. Len(inbox[c]) # 0
        BY <2>1
    <2>3. conn[c] # "unopened"
        BY <2>2 DEF Below, StreamParts, FreshInv, Opened
    <2>4. conn[c] = "up"
        BY <2>3, Gone DEF Below, TypeOK, LinkTypeOK
    <2>5. Needs(s) \subseteq subs[c]
        BY <1>1, <2>1, <2>4 DEF OnTheWayInv
    <2>6. QED
        BY <2>5, SubsKept
<1>3. ASSUME Serve(c), NEW o \in Outcome,
             inbox'[c][i] = [to |-> Head(outbox[c]), verdict |-> o.verdict],
             executed' = [t \in Tasks |-> IF t = Head(outbox[c]) /\ o.applied
                                          THEN executed[t] + 1
                                          ELSE executed[t]]
      PROVE  Needs(s)' \subseteq subs'[c]
    <2>1. Head(outbox[c]) = s /\ o.verdict = "ok"
        BY <1>3
    <2>2. o.applied
        BY <2>1 DEF Outcome
    <2>3. executed'[s] = executed[s] + 1 /\ executed[s] \in Nat
        BY <1>3, <2>1, <2>2 DEF Tasks, Below, TypeOK, LinkTypeOK
    <2>4. executed'[s] # executed[s]
        BY <2>3
    <2>5. Applied(c)
        BY <1>3, <2>1, <2>4, ServedFirst DEF Applied
    <2>6. SubNext
        BY <2>4 DEF subVars, vars, linkVars
    <2>7. subs'[c] = subs[c] \cup Topics(s) /\ ask' = ask
        BY <1>1, <2>1, <2>5, <2>6 DEF SubNext, Subscribed, KeepsBasic
    <2>8. Needs(s) \subseteq Topics(s)
        BY <1>1 DEF KeepsBasic, Needs, Topics, BuildSubTypes
    <2>9. QED
        BY <2>7, <2>8 DEF Needs
<1>4. inbox'[c][i].verdict \in {"ok", "refused"}
    OBVIOUS
<1>5. QED
    BY <1>2, <1>3, <1>4, PacketMoves

\* A packet to a query is in the stream or about to be: the query waits for it.
LEMMA Waits ==
    ASSUME Below, ~Pushes, NEW c \in Conns, NEW g \in Queries, lock[c] = g
    PROVE  pc[g] = "recv" /\ sess[g] = c
BY DEF Below, StreamParts, LockInv, Actors, Tasks

\* OpenD refuses no quote over the connection of a subscription made before,
\* neither now nor by an answer on its way.
LEMMA RefusedPreserved ==
    ASSUME Below, SubscriptionInv, ~Pushes, [SubNext]_subVars, NEW c \in Conns,
           NEW s \in Queries, NEW g \in Queries, NEW i \in 1..Len(inbox'[c]),
           inbox'[c][i] = [to |-> g, verdict |-> "refused"],
           HasBasic(s)', QuotesAfter(g, s)'
    PROVE  sess'[s] # c
<1> USE DEF SubscriptionInv
<1>0. ask' = ask
    BY DEF SubNext, subVars
<1>1. QuotesAfter(g, s) /\ KeepsBasic(s)
    BY <1>0, KeptBefore DEF QuotesAfter, HasBasic
<1>2. ASSUME lock[c] = g PROVE HasBasic(s) /\ sess'[s] = sess[s]
    <2>1. sess[g] = c
        BY <1>2, Waits
    <2>2. pc[s] = "done"
        BY <1>1, <2>1 DEF AwaitedInv, QuotesAfter
    <2>3. QED
        BY <1>1, <2>2, DoneStays DEF HasBasic
<1>3. CASE \E j \in 1..Len(inbox[c]) : inbox'[c][i] = inbox[c][j]
    <2>1. PICK j \in 1..Len(inbox[c]) : inbox'[c][i] = inbox[c][j]
        BY <1>3
    <2>2. inbox[c][j].to = lock[c]
        BY <2>1 DEF Below, StreamParts, StreamInv
    <2>3. lock[c] = g
        BY <2>1, <2>2
    <2>4. QED
        BY <1>1, <1>2, <2>1, <2>3 DEF OnTheWayInv
<1>4. ASSUME Serve(c), NEW o \in Outcome,
             inbox'[c][i] = [to |-> Head(outbox[c]), verdict |-> o.verdict],
             executed' = [t \in Tasks |-> IF t = Head(outbox[c]) /\ o.applied
                                          THEN executed[t] + 1
                                          ELSE executed[t]]
      PROVE  sess'[s] # c
    <2>1. Head(outbox[c]) = g /\ o.verdict = "refused"
        BY <1>4
    <2>2. ~o.applied
        BY <2>1 DEF Outcome
    <2>3. executed'[g] = executed[g]
        BY <1>4, <2>2 DEF Tasks
    <2>4. CASE conn[c] = "up"
        <3>1. lock[c] = g
            BY <1>4, <2>1, <2>4, ServedFirst DEF Below, StreamParts, StreamInv
        <3>2. HasBasic(s) /\ sess'[s] = sess[s]
            BY <1>2, <3>1
        <3>3. SubNext
            BY <1>4, ServedFirst DEF Served, subVars, vars, linkVars
        <3>4. ~(Needs(g) \subseteq subs[c])
            BY <1>1, <1>4, <2>1, <2>3, <3>3, ServedFirst
               DEF SubNext, QuotesAsSubscribed, Applied, QuotesAfter
        <3>5. Needs(g) \subseteq Needs(s)
            BY <1>1 DEF QuotesAfter, Needs
        <3>6. sess[s] # c
            BY <2>4, <3>2, <3>4, <3>5 DEF SubscriptionLives
        <3>7. QED
            BY <3>2, <3>6
    <2>5. CASE conn[c] # "up"
        <3>1. inbox' = inbox
            BY <1>4, <2>5 DEF Serve
        <3>2. QED
            BY <1>3, <3>1
    <2>6. QED
        BY <2>4, <2>5
<1>5. inbox'[c][i].verdict \in {"ok", "refused"}
    OBVIOUS
<1>6. QED
    BY <1>3, <1>4, <1>5, PacketMoves

\* So the answers on their way tell the truth.
LEMMA OnTheWayPreserved ==
    Below /\ SubscriptionInv /\ ~Pushes /\ [SubNext]_subVars => OnTheWayInv'
<1> SUFFICES ASSUME Below, SubscriptionInv, ~Pushes, [SubNext]_subVars PROVE OnTheWayInv'
    OBVIOUS
<1>1. ASSUME NEW c \in Conns, NEW s \in Queries, NEW i \in 1..Len(inbox'[c]),
             KeepsBasic(s)', conn'[c] = "up", inbox'[c][i] = [to |-> s, verdict |-> "ok"]
      PROVE  Needs(s)' \subseteq subs'[c]
    BY <1>1, ConfirmedPreserved DEF SubscriptionInv
<1>2. ASSUME NEW c \in Conns, NEW s \in Queries, NEW i \in 1..Len(inbox'[c]),
             NEW g \in Queries, HasBasic(s)', QuotesAfter(g, s)',
             inbox'[c][i] = [to |-> g, verdict |-> "refused"]
      PROVE  sess'[s] # c
    BY <1>2, RefusedPreserved
<1>3. QED
    BY <1>1, <1>2 DEF OnTheWayInv

\* What its caller was told of is subscribed, from the answer on.
LEMMA LivesPreserved ==
    Below /\ SubscriptionInv /\ ~Pushes /\ [SubNext]_subVars => SubscriptionLives'
<1> SUFFICES ASSUME Below, SubscriptionInv, ~Pushes, [SubNext]_subVars,
                    NEW s \in Queries, HasBasic(s)', conn'[sess'[s]] = "up"
             PROVE  Needs(s)' \subseteq subs'[sess'[s]]
    BY DEF SubscriptionLives
<1> DEFINE c == sess[s]
<1>1. sess'[s] = c /\ c \in Conns /\ (reply[s] = "ok" \/ Receive(s))
    BY AnswerMoves DEF SubscriptionInv, HasBasic
<1>2. KeepsBasic(s) /\ KeepsBasic(s)'
    BY KeptBefore DEF HasBasic
<1>3. conn[c] = "up"
    <2>1. conn[c] # "unopened"
        BY <1>1 DEF Below, StreamParts, FreshInv, Opened, Tasks
    <2>2. QED
        BY <1>1, <2>1, Gone DEF Below, TypeOK, LinkTypeOK
<1>4. Needs(s) \subseteq subs[c]
    <2>1. CASE reply[s] = "ok"
        BY <1>2, <1>3, <2>1 DEF SubscriptionInv, SubscriptionLives, HasBasic
    <2>2. CASE Receive(s)
        <3>1. 1 \in 1..Len(inbox[c]) /\ inbox[c][1] = [to |-> s, verdict |-> "ok"]
            BY <2>2, OwnAnswer DEF HasBasic
        <3>2. QED
            BY <1>1, <1>2, <1>3, <3>1 DEF SubscriptionInv, OnTheWayInv
    <2>3. QED
        BY <1>1, <2>1, <2>2
<1>5. QED
    BY <1>1, <1>2, <1>3, <1>4, SubsKept

\* A quote is refused over another connection than that of the subscription.
LEMMA ReplacedPreserved ==
    Below /\ SubscriptionInv /\ ~Pushes /\ [SubNext]_subVars => RefusedMeansReplaced'
<1> SUFFICES ASSUME Below, SubscriptionInv, ~Pushes, [SubNext]_subVars,
                    NEW s \in Queries, NEW g \in Queries,
                    HasBasic(s)', QuotesAfter(g, s)', reply'[g] = "refused"
             PROVE  closed'[sess'[s]] /\ sess'[g] # sess'[s]
    BY DEF RefusedMeansReplaced
<1>1. /\ sess'[g] = sess[g] /\ sess[g] \in Conns
      /\ reply[g] = "refused" \/ Receive(g)
    BY AnswerMoves DEF SubscriptionInv
<1>2. QuotesAfter(g, s) /\ KeepsBasic(s)
    BY KeptBefore DEF SubNext, subVars, QuotesAfter, HasBasic
<1>3. pc[s] = "done"
    BY <1>1, <1>2 DEF SubscriptionInv, AwaitedInv, QuotesAfter
<1>4. HasBasic(s) /\ sess'[s] = sess[s]
    BY <1>2, <1>3, DoneStays DEF HasBasic
<1>5. sess[s] \in Conns
    BY <1>4 DEF SubscriptionInv, AnsweredInv, HasBasic
<1>6. sess[g] # sess[s]
    <2>1. CASE reply[g] = "refused"
        BY <1>2, <1>4, <2>1 DEF SubscriptionInv, RefusedMeansReplaced
    <2>2. CASE Receive(g)
        <3>1. /\ 1 \in 1..Len(inbox[sess[g]])
              /\ inbox[sess[g]][1] = [to |-> g, verdict |-> "refused"]
            BY <2>2, OwnAnswer
        <3>2. QED
            BY <1>1, <1>2, <1>4, <3>1 DEF SubscriptionInv, OnTheWayInv
    <2>3. QED
        BY <1>1, <2>1, <2>2
<1>7. closed[sess[s]]
    BY <1>1, <1>2, <1>5, <1>6 DEF SubscriptionInv, AwaitedInv, QuotesAfter
<1>8. QED
    BY <1>1, <1>4, <1>5, <1>6, <1>7, Gone

-----------------------------------------------------------------------------
\* The theorems

\* It holds at the start.
LEMMA SubscriptionInit == SubInit => Below /\ SubscriptionInv
<1> SUFFICES ASSUME SubInit PROVE Below /\ SubscriptionInv
    OBVIOUS
<1>1. Below
    BY BelowInit DEF SubInit
<1>2. \A t \in Queries : reply[t] = "none" /\ sess[t] = None
    BY LinkAssumption DEF SubInit, Init, SessionInit, Actors, Tasks
<1>3. \A c \in Conns : inbox[c] = <<>> /\ Len(inbox[c]) = 0
    BY DEF SubInit, Init, LinkInit
<1>4. AnsweredInv /\ SubscriptionLives /\ RefusedMeansReplaced
    BY <1>2 DEF AnsweredInv, SubscriptionLives, RefusedMeansReplaced, HasBasic
<1>5. AwaitedInv
    BY <1>2, LinkAssumption DEF AwaitedInv, Actors
<1>6. OnTheWayInv
    BY <1>3 DEF OnTheWayInv
<1>7. QED
    BY <1>1, <1>4, <1>5, <1>6 DEF SubscriptionInv

\* The invariant behind the two properties holds for any number of calls: a call
\* knows that those before it are done, works on their session or finds it closed,
\* and the answers on their way are true of what OpenD holds.
THEOREM SubscriptionInvariant ==
    ASSUME ~Pushes
    PROVE  SubSpec => []SubscriptionInv
<1> DEFINE Inv == Below /\ SubscriptionInv
<1>1. Inv /\ [SubNext]_subVars => Inv'
    <2> SUFFICES ASSUME Inv, [SubNext]_subVars PROVE Inv'
        OBVIOUS
    <2>1. Below' /\ AnsweredInv' /\ AwaitedInv'
        BY BelowPreserved, AnsweredPreserved, AwaitedPreserved DEF SubscriptionInv
    <2>2. OnTheWayInv' /\ SubscriptionLives' /\ RefusedMeansReplaced'
        BY OnTheWayPreserved, LivesPreserved, ReplacedPreserved
    <2>3. QED
        BY <2>1, <2>2 DEF SubscriptionInv
<1>2. Inv => SubscriptionInv
    OBVIOUS
<1>3. QED
    BY <1>1, <1>2, SubscriptionInit, PTL DEF SubSpec

\* A subscription that was reported to its caller stays with OpenD for as long as the
\* connection it was made on, whatever other calls, failures and reconnects there
\* are (server.rs:274-303, opend.rs:90-108).
THEOREM SubscriptionsLive ==
    ASSUME ~Pushes
    PROVE  SubSpec => []SubscriptionLives
<1>1. SubscriptionInv => SubscriptionLives
    BY DEF SubscriptionInv
<1>2. QED
    BY <1>1, SubscriptionInvariant, PTL

\* A quote that OpenD refuses to a caller who subscribed before went over a session
\* that replaced the one with the subscription: only the silent reconnect of query
\* loses it (opend.rs:97-104).
THEOREM OnlyReconnectsRefuse ==
    ASSUME ~Pushes
    PROVE  SubSpec => []RefusedMeansReplaced
<1>1. SubscriptionInv => RefusedMeansReplaced
    BY DEF SubscriptionInv
<1>2. QED
    BY <1>1, SubscriptionInvariant, PTL

=============================================================================
