--------------------------- MODULE HandshakeProofs ----------------------------
(***************************************************************************)
(* Proofs about Handshake, for any intervals, any latency and any number   *)
(* of restarts: an idle client is heard of in time.  What is invariant is  *)
(* how long OpenD has not heard of the client and how long that will last  *)
(* together: at most a period and the time of an answer.                   *)
(***************************************************************************)
EXTENDS Handshake, TLAPS

\* Every variable keeps its type.
THEOREM HandshakeTypes == Spec => []TypeOK
<1>1. Init => TypeOK
  <2> SUFFICES ASSUME Init PROVE TypeOK
    OBVIOUS
  <2>1. peer \in BOOLEAN
    BY Zenon DEF Init
  <2> QED
    BY <2>1 DEF Init, TypeOK
<1>2. TypeOK /\ [Next]_vars => TypeOK'
  <2> SUFFICES ASSUME TypeOK, [Next]_vars PROVE TypeOK'
    OBVIOUS
  <2>0. \A i \in Intervals : Period(i) \in Nat
    BY HandshakeAssumption DEF Period
  <2>1. CASE Connect
    <3>1. opend.interval \in Intervals
      BY DEF TypeOK, Settings
    <3>2. CASE Outcome \in Accepted
      <4>1. session' \in Sessions
        <5>1. ASSUME NEW e \in BOOLEAN, NEW v \in BOOLEAN, NEW i \in Intervals
              PROVE  [encrypt |-> e, iv |-> v, interval |-> i, broken |-> FALSE] \in Sessions
          BY DEF Sessions
        <5>2. config.encrypt \in BOOLEAN /\ (Outcome = "whole") \in BOOLEAN
          BY DEF TypeOK
        <5>3. session' = [encrypt |-> config.encrypt, iv |-> Outcome = "whole",
                          interval |-> opend.interval, broken |-> FALSE]
          BY <2>1, <3>2 DEF Connect
        <5> QED
          BY <3>1, <5>1, <5>2, <5>3
      <4>2. keepalive' \in [phase : {"sleep", "await"}, left : Nat]
        BY <2>0, <2>1, <3>1, <3>2 DEF Connect
      <4> QED
        BY <2>1, <3>2, <4>1, <4>2 DEF TypeOK, Connect
    <3>3. CASE Outcome \notin Accepted
      BY <2>1, <3>3 DEF TypeOK, Connect
    <3> QED
      BY <3>2, <3>3
  <2>2. CASE Request
    BY <2>2 DEF TypeOK, Request, Healthy, Sessions
  <2>3. CASE Ping
    <3>1. session' \in Sessions
      BY <2>3 DEF TypeOK, Ping, Healthy, Sessions
    <3>2. keepalive' \in [phase : {"sleep", "await"}, left : Nat]
      BY <2>3, HandshakeAssumption DEF Ping
    <3> QED
      BY <2>3, <3>1, <3>2 DEF TypeOK, Ping
  <2>4. CASE Answered
    BY <2>0, <2>4 DEF TypeOK, Answered, Healthy, Sessions
  <2>5. CASE Tick
    BY <2>5 DEF TypeOK, Tick
  <2>6. CASE AnswerLost
    BY <2>6 DEF TypeOK, AnswerLost, Healthy, Sessions
  <2>7. CASE Restart
    <3>1. peer' \in BOOLEAN
      BY <2>7, Zenon DEF Restart
    <3> QED
      BY <2>7, <3>1 DEF TypeOK, Restart
  <2>8. CASE UNCHANGED vars
    BY <2>8 DEF TypeOK, vars
  <2> QED
    BY <2>1, <2>2, <2>3, <2>4, <2>5, <2>6, <2>7, <2>8 DEF Next
<1> QED
  BY <1>1, <1>2, PTL DEF Spec

-----------------------------------------------------------------------------
\* Keep-alive

\* How long OpenD has not heard of the client, and how long that will still last:
\* while the loop sleeps at most a period and the answer before it, while it waits for
\* an answer at most the latency.
IdleInv ==
    Healthy /\ Encodes =>
      /\ idle + keepalive.left <= Latency + Period(session.interval)
      /\ keepalive.phase = "await" => idle + keepalive.left <= Latency

\* 0.8 of an interval and a fifth of it are not more than the interval.
LEMMA PeriodFits ==
    ASSUME NEW i \in Int, NEW l \in Nat, i > 1, i > 5 * l
    PROVE  Period(i) \in Nat /\ l + Period(i) < i
<1>1. (8 * i) \div 10 \in Int /\ 10 * ((8 * i) \div 10) <= 8 * i
  OBVIOUS
<1>2. CASE (8 * i) \div 10 > 1
  BY <1>1, <1>2 DEF Period
<1>3. CASE ~((8 * i) \div 10 > 1)
  BY <1>3 DEF Period
<1> QED
  BY <1>2, <1>3

\* An idle client is heard of before the interval OpenD asked for is over, whatever
\* that interval, if answers take less than a fifth of it.
THEOREM HeardInTime == Spec => []NeverIdledOut
<1>1. Init => IdleInv
  BY DEF Init, IdleInv, Healthy
<1>2. TypeOK /\ IdleInv /\ [Next]_vars => IdleInv'
  <2> SUFFICES ASSUME TypeOK, IdleInv, [Next]_vars, Healthy', Encodes'
               PROVE  /\ idle' + keepalive'.left <= Latency + Period(session'.interval)
                      /\ keepalive'.phase = "await" => idle' + keepalive'.left <= Latency
    BY DEF IdleInv, Period
  <2>0. \A i \in Intervals : Period(i) \in Nat
    BY HandshakeAssumption DEF Period
  <2>l. Latency \in Nat
    BY HandshakeAssumption
  <2>1. CASE Connect
    <3>1. CASE Outcome \in Accepted
      <4>1. opend.interval \in Intervals
        BY DEF TypeOK, Settings
      <4>2. /\ keepalive' = [phase |-> "sleep", left |-> Period(opend.interval)]
            /\ session'.interval = opend.interval /\ idle' = 0
        BY <2>1, <3>1 DEF Connect
      <4> QED
        BY <2>0, <2>l, <4>1, <4>2
    <3>2. CASE Outcome \notin Accepted
      BY <2>1, <3>2 DEF Connect, Healthy
    <3> QED
      BY <3>1, <3>2
  <2>s. ASSUME Healthy, session' \in Sessions, session'.encrypt = session.encrypt,
               session'.iv = session.iv, session'.interval = session.interval
        PROVE  Encodes /\ Period(session'.interval) = Period(session.interval)
                /\ Period(session.interval) \in Nat
    BY <2>s, <2>0 DEF Encodes, Sessions
  <2>2. CASE Request
    <3>1. Healthy /\ session \in Sessions
      BY <2>2 DEF TypeOK, Request, Healthy
    <3>2. /\ session' \in Sessions /\ session'.encrypt = session.encrypt
          /\ session'.iv = session.iv /\ session'.interval = session.interval
      BY <2>2, <3>1 DEF Request, Sessions
    <3>3. idle' \in {0, idle} /\ keepalive' = keepalive
      BY <2>2 DEF Request
    <3>4. idle' <= idle /\ idle \in Nat /\ idle' \in Nat /\ keepalive.left \in Nat
      BY <3>3 DEF TypeOK
    <3>5. /\ idle + keepalive.left <= Latency + Period(session.interval)
          /\ keepalive.phase = "await" => idle + keepalive.left <= Latency
      BY <2>s, <3>1, <3>2 DEF IdleInv
    <3> QED
      BY <2>l, <2>s, <3>1, <3>2, <3>3, <3>4, <3>5
  <2>3. CASE Ping
    <3>1. Healthy /\ session \in Sessions
      BY <2>3 DEF TypeOK, Ping, Healthy
    <3>2. /\ session' \in Sessions /\ session'.encrypt = session.encrypt
          /\ session'.iv = session.iv /\ session'.interval = session.interval
      BY <2>3, <3>1 DEF Ping, Sessions, Healthy, TypeOK
    <3>3. ~session'.broken
      BY DEF Healthy
    <3>4. idle' = 0
      BY <2>3, <3>1, <3>3 DEF Ping, Sessions
    <3>5. PICK l \in 0..Latency : keepalive' = [phase |-> "await", left |-> l]
      BY <2>3 DEF Ping
    <3>6. keepalive'.left \in Nat /\ keepalive'.left <= Latency
      BY <2>l, <3>5
    <3> QED
      BY <2>l, <2>s, <3>1, <3>2, <3>4, <3>6
  <2>4. CASE Answered
    <3>1. Healthy /\ session \in Sessions /\ session' = session
      BY <2>4 DEF TypeOK, Answered, Healthy
    <3>2. keepalive = [phase |-> "await", left |-> 0] /\ idle' = idle
      BY <2>4 DEF Answered
    <3>3. idle \in Nat /\ idle <= Latency
      BY <2>l, <2>s, <3>1, <3>2 DEF IdleInv, TypeOK
    <3>4. keepalive' = [phase |-> "sleep", left |-> Period(session.interval)]
      BY <2>4 DEF Answered
    <3> QED
      BY <2>l, <2>s, <3>1, <3>2, <3>3, <3>4
  <2>5. CASE Tick
    <3>1. Healthy /\ session \in Sessions /\ session' = session
      BY <2>5 DEF TypeOK, Tick, Healthy
    <3>2. /\ keepalive'.left = keepalive.left - 1 /\ keepalive'.phase = keepalive.phase
          /\ idle' = idle + 1 /\ idle \in Nat /\ keepalive.left \in Nat
      BY <2>5 DEF TypeOK, Tick
    <3>3. /\ idle + keepalive.left <= Latency + Period(session.interval)
          /\ keepalive.phase = "await" => idle + keepalive.left <= Latency
      BY <2>s, <3>1 DEF IdleInv
    <3> QED
      BY <2>l, <2>s, <3>1, <3>2, <3>3
  <2>6. CASE AnswerLost
    <3>1. session \in Sessions
      BY <2>6 DEF TypeOK, AnswerLost, Healthy
    <3> QED
      BY <2>6, <3>1 DEF AnswerLost, Healthy, Sessions
  <2>7. CASE Restart
    BY <2>7 DEF IdleInv, Restart, Healthy, Encodes
  <2>8. CASE UNCHANGED vars
    BY <2>8 DEF IdleInv, vars, Healthy, Encodes
  <2> QED
    BY <2>1, <2>2, <2>3, <2>4, <2>5, <2>6, <2>7, <2>8 DEF Next
<1>3. TypeOK /\ IdleInv => NeverIdledOut
  <2> SUFFICES ASSUME TypeOK, IdleInv, Healthy, Encodes, session.interval > 1,
                      session.interval > 5 * Latency
               PROVE  idle < session.interval
    BY DEF NeverIdledOut
  <2>1. session.interval \in Int /\ Latency \in Nat
    BY HandshakeAssumption DEF TypeOK, Healthy, Sessions
  <2>2. Period(session.interval) \in Nat /\ Latency + Period(session.interval) < session.interval
    BY <2>1, PeriodFits
  <2>3. idle + keepalive.left <= Latency + Period(session.interval)
    BY DEF IdleInv
  <2> QED
    BY <2>1, <2>2, <2>3 DEF TypeOK
<1> QED
  BY <1>1, <1>2, <1>3, HandshakeTypes, PTL DEF Spec

=============================================================================
