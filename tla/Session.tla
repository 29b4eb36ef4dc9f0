------------------------------- MODULE Session -------------------------------
(***************************************************************************)
(* One Session of src/src/opend.rs: the stream behind a tokio mutex, the   *)
(* broken and closed flags, the request/response exchange of roundtrip,    *)
(* and the keep-alive loop spawned for it.                                 *)
(*                                                                         *)
(* An action is the code between two points where another task can make a  *)
(* difference: an await, or a shared flag read or written.                 *)
(***************************************************************************)
EXTENDS OpenDLink

CONSTANT SerialMod   \* the serial counter is modulo this; 2^32 in the code

ASSUME SerialAssumption == SerialMod \in Nat \ {0}

VARIABLES
    broken,     \* Session::broken
    closed,     \* Session::closed
    lock,       \* lock[c]: who holds Session::state across awaits, or None
    serial,     \* MoomooClient::serial, shared with every keep-alive loop
    pc,         \* where each actor is
    sess,       \* the session each actor works on
    mine,       \* the serial number each actor drew last
    reply,      \* what its last roundtrip returned
    got         \* whose answer that was: a history variable

sessionVars == <<broken, closed, lock, serial, pc, sess, mine, reply, got>>

KeepAlivePc == {"off", "top", "interval", "sleep", "ended"}
ExchangePc == {"call", "wait", "recv", "returned"}
Error == {"protocol", "io", "closed"}

SessionTypeOK ==
    /\ broken \in [Conns -> BOOLEAN]
    /\ closed \in [Conns -> BOOLEAN]
    /\ lock \in [Conns -> Actors \cup {None}]
    /\ serial \in 0..(SerialMod - 1)
    /\ sess \in [Actors -> Conns \cup {None}]
    /\ mine \in [Actors -> 0..(SerialMod - 1)]
    /\ got \in [Actors -> Actors \cup {None}]

\* Mutant: the counter starts with the number of InitConnect.
SessionInitAtOne ==
    /\ broken = [c \in Conns |-> FALSE]
    /\ closed = [c \in Conns |-> FALSE]
    /\ lock = [c \in Conns |-> None]
    /\ serial = 1 % SerialMod
    /\ sess = [a \in Actors |-> IF a \in Conns THEN a ELSE None]
    /\ mine = [a \in Actors |-> 0]
    /\ reply = [a \in Actors |-> "none"]
    /\ got = [a \in Actors |-> None]

\* The serial 1 is that of InitConnect.
SessionInit ==
    /\ broken = [c \in Conns |-> FALSE]
    /\ closed = [c \in Conns |-> FALSE]
    /\ lock = [c \in Conns |-> None]
    /\ serial = 2 % SerialMod
    /\ sess = [a \in Actors |-> IF a \in Conns THEN a ELSE None]
    /\ mine = [a \in Actors |-> 0]
    /\ reply = [a \in Actors |-> "none"]
    /\ got = [a \in Actors |-> None]

IsBroken(c) == broken[c] \/ closed[c]

\* Mutant: load and store instead of fetch_add, the store lost.
NextSerialLost(a) ==
    /\ mine' = [mine EXCEPT ![a] = serial]
    /\ UNCHANGED serial

\* fetch_add on the shared counter: the caller gets the old value.
NextSerial(a) ==
    /\ mine' = [mine EXCEPT ![a] = serial]
    /\ serial' = (serial + 1) % SerialMod

\* The result of a roundtrip goes out of scope.
Forget(a) ==
    /\ reply' = [reply EXCEPT ![a] = "none"]
    /\ got' = [got EXCEPT ![a] = None]

-----------------------------------------------------------------------------
\* roundtrip

\* The closed flag is read once, before the stream is locked.
Admit(a) ==
    IF closed[sess[a]]
    THEN /\ reply' = [reply EXCEPT ![a] = "closed"]
         /\ pc' = [pc EXCEPT ![a] = "returned"]
    ELSE /\ pc' = [pc EXCEPT ![a] = "wait"]
         /\ UNCHANGED reply

\* next_serial and the entry of roundtrip, for a query or a keep-alive.
Call(a) ==
    /\ pc[a] = "call"
    /\ NextSerial(a)
    /\ Admit(a)
    /\ UNCHANGED <<linkVars, broken, closed, lock, sess, got>>

\* Mutant: the lock is dropped after the write, before the answer is read.
SendUnlocked(a) ==
    /\ pc[a] = "wait"
    /\ lock[sess[a]] = None
    /\ outbox' = IF conn[sess[a]] = "up"
                 THEN [outbox EXCEPT ![sess[a]] = Append(@, a)]
                 ELSE outbox
    /\ pc' = [pc EXCEPT ![a] = "recv"]
    /\ UNCHANGED <<conn, inbox, executed, broken, closed, lock, serial, sess, mine, reply, got>>

\* The stream is locked and the packet written.  A lost connection may still
\* accept it into the socket buffer, from where it goes nowhere.
Send(a) ==
    /\ pc[a] = "wait"
    /\ lock[sess[a]] = None
    /\ lock' = [lock EXCEPT ![sess[a]] = a]
    /\ outbox' = IF conn[sess[a]] = "up"
                 THEN [outbox EXCEPT ![sess[a]] = Append(@, a)]
                 ELSE outbox
    /\ pc' = [pc EXCEPT ![a] = "recv"]
    /\ UNCHANGED <<conn, inbox, executed, broken, closed, serial, sess, mine, reply, got>>

\* An I/O error breaks the session and releases the stream.
IoError(a) ==
    /\ broken' = [broken EXCEPT ![sess[a]] = TRUE]
    /\ reply' = [reply EXCEPT ![a] = "io"]
    /\ pc' = [pc EXCEPT ![a] = "returned"]
    /\ UNCHANGED <<linkVars, closed, serial, sess, mine, got>>

\* write_all or flush fails.
SendFails(a) ==
    /\ pc[a] = "wait"
    /\ lock[sess[a]] = None
    /\ conn[sess[a]] = "down"
    /\ IoError(a)
    /\ UNCHANGED lock

\* Mutant: a read of zero bytes is taken for "not yet" and tried again.
ReceiveSpins(a) ==
    /\ pc[a] = "recv"
    /\ inbox[sess[a]] = <<>>
    /\ conn[sess[a]] = "down"
    /\ UNCHANGED <<linkVars, sessionVars>>

\* read_exact fails: end of stream, after what had arrived was read.
ReceiveFails(a) ==
    /\ pc[a] = "recv"
    /\ inbox[sess[a]] = <<>>
    /\ conn[sess[a]] = "down"
    /\ IoError(a)
    /\ lock' = [lock EXCEPT ![sess[a]] = None]

\* A packet passes if its protocol id is the one asked for and its body
\* decodes.  Its serial number is not looked at.
Accepts(a, m) ==
    /\ m.to # None
    /\ Proto[m.to] = Proto[a]
    /\ m.verdict # "garbled"

\* Mutant: a packet that does not pass breaks the session.
ReceiveBreaks(a) ==
    LET m == Head(inbox[sess[a]]) IN
    /\ pc[a] = "recv"
    /\ inbox[sess[a]] # <<>>
    /\ inbox' = [inbox EXCEPT ![sess[a]] = Tail(@)]
    /\ reply' = [reply EXCEPT ![a] = IF Accepts(a, m) THEN m.verdict ELSE "protocol"]
    /\ broken' = [broken EXCEPT ![sess[a]] = @ \/ ~Accepts(a, m)]
    /\ got' = [got EXCEPT ![a] = IF Accepts(a, m) THEN m.to ELSE @]
    /\ lock' = [lock EXCEPT ![sess[a]] = None]
    /\ pc' = [pc EXCEPT ![a] = "returned"]
    /\ UNCHANGED <<conn, outbox, executed, closed, serial, sess, mine>>

\* Mutant: the closed flag is looked at again once the answer is there.
ReceiveClosed(a) ==
    LET m == Head(inbox[sess[a]]) IN
    /\ pc[a] = "recv"
    /\ inbox[sess[a]] # <<>>
    /\ inbox' = [inbox EXCEPT ![sess[a]] = Tail(@)]
    /\ reply' = [reply EXCEPT ![a] =
                    IF closed[sess[a]] THEN "closed"
                    ELSE IF Accepts(a, m) THEN m.verdict ELSE "protocol"]
    /\ got' = [got EXCEPT ![a] = IF Accepts(a, m) THEN m.to ELSE @]
    /\ lock' = [lock EXCEPT ![sess[a]] = None]
    /\ pc' = [pc EXCEPT ![a] = "returned"]
    /\ UNCHANGED <<conn, outbox, executed, broken, closed, serial, sess, mine>>

\* The next packet of the stream is taken for the answer.  Neither a foreign
\* packet nor a garbled one breaks the session.
Receive(a) ==
    LET m == Head(inbox[sess[a]]) IN
    /\ pc[a] = "recv"
    /\ inbox[sess[a]] # <<>>
    /\ inbox' = [inbox EXCEPT ![sess[a]] = Tail(@)]
    /\ reply' = [reply EXCEPT ![a] = IF Accepts(a, m) THEN m.verdict ELSE "protocol"]
    /\ got' = [got EXCEPT ![a] = IF Accepts(a, m) THEN m.to ELSE @]
    /\ lock' = [lock EXCEPT ![sess[a]] = None]
    /\ pc' = [pc EXCEPT ![a] = "returned"]
    /\ UNCHANGED <<conn, outbox, executed, broken, closed, serial, sess, mine>>

Exchange(a) == Send(a) \/ SendFails(a) \/ Receive(a) \/ ReceiveFails(a)

-----------------------------------------------------------------------------
\* spawn_keepalive: the loop of session c is the actor c

\* keep_alive_interval reads the flags, then locks the stream for the interval.
KeepAliveTop(c) ==
    /\ pc[c] = "top"
    /\ pc' = [pc EXCEPT ![c] = IF IsBroken(c) THEN "ended" ELSE "interval"]
    /\ UNCHANGED <<linkVars, broken, closed, lock, serial, sess, mine, reply, got>>

KeepAliveInterval(c) ==
    /\ pc[c] = "interval"
    /\ lock[c] = None
    /\ pc' = [pc EXCEPT ![c] = "sleep"]
    /\ UNCHANGED <<linkVars, broken, closed, lock, serial, sess, mine, reply, got>>

\* The sleep is over; only the closed flag is looked at.
KeepAliveWake(c) ==
    /\ pc[c] = "sleep"
    /\ pc' = [pc EXCEPT ![c] = IF closed[c] THEN "ended" ELSE "call"]
    /\ UNCHANGED <<linkVars, broken, closed, lock, serial, sess, mine, reply, got>>

\* Mutant: the loop ends with its first roundtrip, whatever came of it.
KeepAliveReturnOnce(c) ==
    /\ pc[c] = "returned"
    /\ broken' = [broken EXCEPT ![c] = @ \/ reply[c] \in Error]
    /\ pc' = [pc EXCEPT ![c] = "ended"]
    /\ UNCHANGED <<linkVars, closed, lock, serial, sess, mine, reply, got>>

\* Mutant: only an I/O error breaks the session.
KeepAliveReturnLenient(c) ==
    /\ pc[c] = "returned"
    /\ IF reply[c] \in {"io", "closed"}
       THEN /\ broken' = [broken EXCEPT ![c] = TRUE]
            /\ pc' = [pc EXCEPT ![c] = "ended"]
            /\ UNCHANGED <<reply, got>>
       ELSE /\ pc' = [pc EXCEPT ![c] = "top"]
            /\ Forget(c)
            /\ UNCHANGED broken
    /\ UNCHANGED <<linkVars, closed, lock, serial, sess, mine>>

\* Any error breaks the session; no answer of OpenD that decodes is one.  An answer is
\* dropped unread.
KeepAliveReturn(c) ==
    /\ pc[c] = "returned"
    /\ IF reply[c] \in Error
       THEN /\ broken' = [broken EXCEPT ![c] = TRUE]
            /\ pc' = [pc EXCEPT ![c] = "ended"]
            /\ UNCHANGED <<reply, got>>
       ELSE /\ pc' = [pc EXCEPT ![c] = "top"]
            /\ Forget(c)
            /\ UNCHANGED broken
    /\ UNCHANGED <<linkVars, closed, lock, serial, sess, mine>>

KeepAlive(c) ==
    \/ KeepAliveTop(c)
    \/ KeepAliveInterval(c)
    \/ KeepAliveWake(c)
    \/ Call(c)
    \/ Exchange(c)
    \/ KeepAliveReturn(c)
=============================================================================
