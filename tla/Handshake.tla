------------------------------ MODULE Handshake -------------------------------
(***************************************************************************)
(* The set-up of a session in src/src/opend.rs, InitConnect, and what it   *)
(* leaves in SessionState: whether and how later packets are encrypted,    *)
(* and how often the keep-alive loop sends one.  Time passes in seconds.   *)
(*                                                                         *)
(* One caller asks again and again; who shares a session with whom is the  *)
(* matter of MoomooClient, of which Connect is the step that connects.     *)
(* OpenD is external: it may be restarted with other settings.             *)
(***************************************************************************)
EXTENDS Integers

CONSTANTS
    None,
    Intervals,      \* keep-alive intervals OpenD may ask for, in seconds
    Latency,        \* bound on the time OpenD takes to answer
    MaxRestarts     \* bound on the restarts of OpenD

Sessions == [encrypt : BOOLEAN, iv : BOOLEAN, interval : Intervals, broken : BOOLEAN]

ASSUME HandshakeAssumption ==
    /\ Intervals \subseteq Int /\ Latency \in Nat
    /\ None \notin Sessions

VARIABLES
    config,         \* use_encryption, and whether the private key can be read
    opend,          \* settings of OpenD: whom it understands, its answers, its interval
    restarts,
    peer,           \* whether OpenD still has its end of the session's connection
    session,        \* the session of the client: SessionState and broken
    keepalive,      \* what its keep-alive loop waits for, and how much longer
    idle,           \* time since OpenD last heard of the client
    told            \* how the last call ended

vars == <<config, opend, restarts, peer, session, keepalive, idle, told>>

\* Answers to InitConnect: a refusal, s2c missing, a key or an IV that does not have
\* 16 bytes, no IV, or a whole one.
Answers == {"refused", "no s2c", "short key", "short iv", "no iv", "whole"}

\* The algorithms a client may ask for.
Algos == {"AES_CBC", "None"}

\* OpenD understands clients that encrypt, with the same RSA key; clients in the clear,
\* if it has no key; or both, if it takes packetEncAlgo None for a wish although it has
\* a key (InitConnect.proto:13-14).  With another key it understands nobody, which is
\* to one client as if it understood the others alone.
Settings == [reads : SUBSET Algos \ {{}}, answer : Answers, interval : Intervals]

-----------------------------------------------------------------------------
\* init

\* Mutant: the whole interval OpenD asks for.
PeriodWhole(interval) == IF interval > 1 THEN interval ELSE 1

\* Mutant: no lower bound.
PeriodUnbounded(interval) == IF interval > 0 THEN (8 * interval) \div 10 ELSE 0

\* 0.8 of the interval, at least one second, in whole seconds.
Period(interval) ==
    IF (8 * interval) \div 10 > 1 THEN (8 * interval) \div 10 ELSE 1

\* What InitConnect asks for; it is itself encrypted, with RSA, if that is not None.
PacketEncAlgo == IF config.encrypt THEN "AES_CBC" ELSE "None"

\* What connect comes to, step by step.
Outcome ==
    IF config.encrypt /\ ~config.pem THEN "no key"
    ELSE IF PacketEncAlgo \notin opend.reads THEN "unreadable"
    ELSE opend.answer

\* The IV alone may be missing.
Accepted == {"no iv", "whole"}

Healthy == session # None /\ ~session.broken

\* ensure_session: only a broken session or none at all is replaced.
Connect ==
    /\ ~Healthy
    /\ IF Outcome \in Accepted
       THEN /\ session' = [encrypt |-> config.encrypt, iv |-> Outcome = "whole",
                           interval |-> opend.interval, broken |-> FALSE]
            /\ peer' = TRUE
            /\ keepalive' = [phase |-> "sleep", left |-> Period(opend.interval)]
            /\ told' = "connected"
       ELSE /\ told' = Outcome
            /\ peer' = FALSE /\ UNCHANGED <<session, keepalive>>
    /\ idle' = 0 /\ UNCHANGED <<config, opend, restarts>>

\* encode_body: without an IV nothing can be encrypted, and nothing is written.
Encodes == session.encrypt => session.iv

\* What becomes of a packet of a session that is not broken.
Request ==
    /\ Healthy
    /\ told' = IF ~Encodes THEN "crypto" ELSE IF ~peer THEN "io" ELSE "answered"
    /\ session' = [session EXCEPT !.broken = told' = "io"]
    /\ idle' = IF told' = "answered" THEN 0 ELSE idle
    /\ UNCHANGED <<config, opend, restarts, peer, keepalive>>

-----------------------------------------------------------------------------
\* The keep-alive loop

\* Mutant: only an I/O error ends the loop and breaks the session.  (The clock is reset
\* so that it stays finite.)
PingLenient ==
    /\ Healthy /\ keepalive = [phase |-> "sleep", left |-> 0]
    /\ session' = [session EXCEPT !.broken = Encodes /\ ~peer]
    /\ \E l \in 0..Latency : keepalive' =
           IF Encodes THEN [phase |-> "await", left |-> l]
           ELSE [phase |-> "sleep", left |-> Period(session.interval)]
    /\ idle' = 0
    /\ UNCHANGED <<config, opend, restarts, peer, told>>

Ping ==
    /\ Healthy /\ keepalive = [phase |-> "sleep", left |-> 0]
    /\ session' = [session EXCEPT !.broken = ~Encodes \/ ~peer]
    /\ \E l \in 0..Latency : keepalive' = [phase |-> "await", left |-> l]
    /\ idle' = IF Encodes /\ peer THEN 0 ELSE idle
    /\ UNCHANGED <<config, opend, restarts, peer, told>>

\* The loop sleeps for a period again once it has its answer.
Answered ==
    /\ Healthy /\ peer /\ keepalive = [phase |-> "await", left |-> 0]
    /\ keepalive' = [phase |-> "sleep", left |-> Period(session.interval)]
    /\ UNCHANGED <<config, opend, restarts, peer, session, idle, told>>

\* Its read fails when OpenD is gone, at any moment of the wait.
AnswerLost ==
    /\ Healthy /\ ~peer /\ keepalive.phase = "await"
    /\ session' = [session EXCEPT !.broken = TRUE]
    /\ UNCHANGED <<config, opend, restarts, peer, keepalive, idle, told>>

Tick ==
    /\ Healthy /\ keepalive.left > 0
    /\ keepalive' = [keepalive EXCEPT !.left = @ - 1]
    /\ idle' = idle + 1
    /\ UNCHANGED <<config, opend, restarts, peer, session, told>>

Restart ==
    /\ restarts < MaxRestarts /\ restarts' = restarts + 1
    /\ opend' \in Settings /\ peer' = FALSE
    /\ UNCHANGED <<config, session, keepalive, idle, told>>

-----------------------------------------------------------------------------

Init ==
    /\ config \in [encrypt : BOOLEAN, pem : BOOLEAN]
    /\ opend \in Settings /\ restarts = 0
    /\ peer = FALSE /\ session = None
    /\ keepalive = [phase |-> "sleep", left |-> 1]
    /\ idle = 0 /\ told = None

Next == Connect \/ Request \/ Ping \/ Answered \/ AnswerLost \/ Tick \/ Restart

Spec == Init /\ [][Next]_vars

\* The caller goes on asking, and the keep-alive loop of a session goes on.
Fairness ==
    /\ WF_vars(Connect) /\ WF_vars(Request) /\ WF_vars(Tick)
    /\ WF_vars(Ping) /\ WF_vars(Answered) /\ WF_vars(AnswerLost)

LiveSpec == Spec /\ Fairness

-----------------------------------------------------------------------------
\* Properties

\* Types of the variables; every session in the slot has its interval and its flags.
TypeOK ==
    /\ config \in [encrypt : BOOLEAN, pem : BOOLEAN]
    /\ opend \in Settings /\ restarts \in Nat
    /\ peer \in BOOLEAN /\ session \in Sessions \cup {None}
    /\ keepalive \in [phase : {"sleep", "await"}, left : Nat]
    /\ idle \in Nat

\* OpenD hears of an idle client before the interval it asked for is over, if it
\* answers within a fifth of that interval: the loop sleeps only after its answer,
\* so that an interval of the client is its period and the time of an answer.  When
\* OpenD is gone, the loop has found out and broken the session by then.
NeverIdledOut ==
    Healthy /\ Encodes /\ session.interval > 1 /\ session.interval > 5 * Latency
    => idle < session.interval

\* However short the interval OpenD asks for, the loop does not spin.
PingsApart == []<>(~Healthy \/ keepalive.left > 0)

\* A session that can encrypt nothing, because InitConnect came without an IV, does
\* not stay: its own keep-alive, failing like every call, breaks it.
KeylessEnds == Healthy /\ ~Encodes ~> ~Healthy

\* When OpenD ends up with settings that fit, calls are answered again, whatever was
\* in the slot before.
Served ==
    <>[](Outcome = "whole") => []<>(told = "answered")

=============================================================================
