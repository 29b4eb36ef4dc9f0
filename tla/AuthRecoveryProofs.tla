-------------------------- MODULE AuthRecoveryProofs --------------------------
(***************************************************************************)
(* Proofs about AuthRecovery: what its answers tell is so, for any number  *)
(* of assistants, any length of reply and any number of mishaps.  One      *)
(* inductive invariant, RecoveryInv, carries them all.                     *)
(***************************************************************************)
EXTENDS AuthRecovery, TLAPS

-----------------------------------------------------------------------------
\* The operators

\* The next place of a call does not depend on its tool.
LEMMA PhaseOrder ==
    ASSUME NEW t
    PROVE  Then(t, "write") = "read" /\ Then(t, "read") = "status" /\ Then(t, "status") = "idle"
BY DEF Then

\* What is recommended can be called.
LEMMA RecommendedTools ==
    ASSUME NEW s
    PROVE  Recommended(s) \in Seq(Tools)
<1>1. /\ <<"req_pic_verify_code", "input_pic_verify_code">> \in Seq(Tools)
      /\ <<"req_phone_verify_code", "input_phone_verify_code">> \in Seq(Tools)
      /\ <<"relogin">> \in Seq(Tools) /\ <<>> \in Seq(Tools)
    BY DEF Tools, Inputs
<1>2. QED
    BY <1>1 DEF Recommended

\* A command leaves OpenD in a state it knows, and its logins alone.
LEMMA CarryKeepsLogin ==
    ASSUME TypeOK, NEW t, NEW right, Carry(t, right)
    PROVE  /\ status' \in ProgramStatus /\ code' \in {None, "phone", "picture"}
           /\ UNCHANGED <<qot, trd>>
BY DEF Carry, TypeOK, ProgramStatus

-----------------------------------------------------------------------------
\* The parts of the invariant

\* RecoveryInv for one call.
CallInv(a) ==
    /\ pc[a] = "write" => line[a] = None
    /\ obeyed[a] = IF line[a] = "taken" THEN 1 ELSE 0
    /\ said[a] > 0 => line[a] = "taken"
    /\ answer[a].output <= said[a]
    /\ pc[a] # "idle" => answer[a].status = None
    /\ answer[a].output > 0 /\ answer[a].status # None => answer[a].obeyed

\* RecoveryInv is its parts, before a step and after it.
LEMMA RecoveryParts ==
    /\ RecoveryInv <=> TypeOK /\ \A a \in Assistants : CallInv(a)
    /\ RecoveryInv' <=> TypeOK' /\ \A a \in Assistants : CallInv(a)'
BY DEF RecoveryInv, CallInv

\* What one assistant's call is.
CallOf(a) == <<pc[a], line[a], said[a], obeyed[a], answer[a]>>

\* A call that does not move keeps its part.
LEMMA CallStays ==
    ASSUME NEW a \in Assistants, CallInv(a), UNCHANGED CallOf(a)
    PROVE  CallInv(a)'
BY DEF CallInv, CallOf

\* The invariant holds at the start.
LEMMA RecoveryInit == Init => RecoveryInv
<1> SUFFICES ASSUME Init PROVE RecoveryInv
    OBVIOUS
<1> USE ChunksAssumption, MishapsAssumption, NoneAssumption
<1>1. TypeOK
    <2>1. /\ Blank \in [output : 0..Chunks, status : ProgramStatus \cup {None},
                        ready : BOOLEAN, obeyed : BOOLEAN]
          /\ 0 \in 0..Chunks /\ 0 \in 0..MaxMishaps /\ <<>> \in Seq(Tools)
        BY DEF Blank
    <2>2. QED
        BY <2>1 DEF Init, TypeOK, ProgramStatus
<1>2. \A a \in Assistants : CallInv(a)
    BY DEF Init, CallInv, Blank
<1>3. QED
    BY <1>1, <1>2, RecoveryParts

-----------------------------------------------------------------------------
\* The steps of OpenD

LEMMA OpenDKeeps ==
    ASSUME RecoveryInv, OpenD
    PROVE  RecoveryInv'
<1> USE ChunksAssumption, MishapsAssumption, NoneAssumption
<1>0. TypeOK /\ \A a \in Assistants : CallInv(a)
    BY RecoveryParts
<1>1. CASE LoginStep \/ ServerLogin
    <2>1. TypeOK'
        BY <1>0, <1>1 DEF LoginStep, ServerLogin, TypeOK, ProgramStatus, call
    <2>2. \A a \in Assistants : CallInv(a)'
        BY <1>0, <1>1, CallStays DEF LoginStep, ServerLogin, CallOf, call
    <2>3. QED
        BY <2>1, <2>2, RecoveryParts
<1>2. CASE LoginMishap
    <2>1. TypeOK'
        <3>1. mishaps' \in 0..MaxMishaps
            BY <1>0, <1>2 DEF LoginMishap, Mishap, TypeOK
        <3>2. status' \in ProgramStatus /\ qot' = FALSE /\ trd' = FALSE /\ code' = None
            BY <1>2 DEF LoginMishap, LogOut, ProgramStatus
        <3>3. QED
            BY <1>0, <1>2, <3>1, <3>2 DEF LoginMishap, TypeOK, call
    <2>2. \A a \in Assistants : CallInv(a)'
        BY <1>0, <1>2, CallStays DEF LoginMishap, CallOf, call
    <2>3. QED
        BY <2>1, <2>2, RecoveryParts
<1>3. CASE ObeyStray
    <2>1. PICK l \in stray :
            /\ Carry(l[1], l[2]) /\ stray' = stray \ {l}
            /\ UNCHANGED <<mishaps, pc, tool, entered, plan, line, said, obeyed, answer>>
        BY <1>3 DEF ObeyStray
    <2>2. TypeOK'
        BY <1>0, <2>1, CarryKeepsLogin DEF TypeOK
    <2>3. \A a \in Assistants : CallInv(a)'
        BY <1>0, <2>1, CallStays DEF CallOf
    <2>4. QED
        BY <2>2, <2>3, RecoveryParts
<1>4. ASSUME NEW a \in Assistants, Obey(a) PROVE RecoveryInv'
    <2>1. TypeOK'
        BY <1>0, <1>4, CarryKeepsLogin DEF Obey, TypeOK
    <2>2. CallInv(a)'
        <3>1. /\ line[a] = "sent" /\ line'[a] = "taken" /\ obeyed'[a] = obeyed[a] + 1
              /\ UNCHANGED <<pc, said, answer>>
            BY <1>0, <1>4 DEF Obey, TypeOK
        <3>2. QED
            BY <1>0, <3>1 DEF CallInv
    <2>3. \A b \in Assistants : b # a => CallInv(b)'
        BY <1>0, <1>4, CallStays DEF Obey, CallOf, TypeOK
    <2>4. QED
        BY <2>1, <2>2, <2>3, RecoveryParts
<1>5. ASSUME NEW a \in Assistants, Speak(a) PROVE RecoveryInv'
    <2>1. TypeOK'
        BY <1>0, <1>5 DEF Speak, TypeOK, opend
    <2>2. CallInv(a)'
        BY <1>0, <1>5 DEF Speak, CallInv, TypeOK
    <2>3. \A b \in Assistants : b # a => CallInv(b)'
        BY <1>0, <1>5, CallStays DEF Speak, CallOf, TypeOK
    <2>4. QED
        BY <2>1, <2>2, <2>3, RecoveryParts
<1>6. QED
    BY <1>1, <1>2, <1>3, <1>4, <1>5 DEF OpenD

-----------------------------------------------------------------------------
\* The steps of the tools

\* The type of an answer.
Answer == [output : 0..Chunks, status : ProgramStatus \cup {None},
           ready : BOOLEAN, obeyed : BOOLEAN]

\* What is the same of all the steps of the call of a: the login and the calls of
\* the others stay, and TypeOK does if the new values have their types.
OneCall(a) ==
    /\ UNCHANGED opend
    /\ mishaps' = mishaps \/ Mishap
    /\ \E p \in {"idle", "write", "read", "status"} : pc' = [pc EXCEPT ![a] = p]
    /\ \E t \in Tools \cup {None} : tool' = [tool EXCEPT ![a] = t]
    /\ \E r \in BOOLEAN : entered' = [entered EXCEPT ![a] = r]
    /\ \E r \in Seq(Tools) : plan' = [plan EXCEPT ![a] = r]
    /\ \E l \in {None, "sent", "taken"} : line' = [line EXCEPT ![a] = l]
    /\ stray' \subseteq stray \cup {<<tool[a], entered[a]>>}
    /\ \E n \in 0..Chunks : said' = [said EXCEPT ![a] = n]
    /\ \E n \in Nat : obeyed' = [obeyed EXCEPT ![a] = n]
    /\ \E m \in Answer : answer' = [answer EXCEPT ![a] = m]

LEMMA OneCallKeeps ==
    ASSUME RecoveryInv, NEW a \in Assistants, OneCall(a), CallInv(a)'
    PROVE  RecoveryInv'
<1> USE ChunksAssumption, MishapsAssumption
<1>0. TypeOK /\ \A b \in Assistants : CallInv(b)
    BY RecoveryParts
<1>1. mishaps' \in 0..MaxMishaps
    BY <1>0 DEF OneCall, Mishap, TypeOK
<1>2. /\ pc' \in [Assistants -> {"idle", "write", "read", "status"}]
      /\ tool' \in [Assistants -> Tools \cup {None}] /\ entered' \in [Assistants -> BOOLEAN]
    BY <1>0 DEF OneCall, TypeOK
<1>3. /\ plan' \in [Assistants -> Seq(Tools)]
      /\ line' \in [Assistants -> {None, "sent", "taken"}]
    BY <1>0 DEF OneCall, TypeOK
<1>4. stray' \subseteq (Tools \cup {None}) \X BOOLEAN
    <2>1. <<tool[a], entered[a]>> \in (Tools \cup {None}) \X BOOLEAN
        BY <1>0 DEF TypeOK
    <2>2. QED
        BY <1>0, <2>1 DEF OneCall, TypeOK
<1>5. said' \in [Assistants -> 0..Chunks] /\ obeyed' \in [Assistants -> Nat]
    BY <1>0 DEF OneCall, TypeOK
<1>6. answer' \in [Assistants -> Answer]
    BY <1>0 DEF OneCall, TypeOK, Answer
<1>7. TypeOK'
    BY <1>0, <1>1, <1>2, <1>3, <1>4, <1>5, <1>6 DEF OneCall, TypeOK, Answer, opend
<1>8. \A b \in Assistants : b # a => CallInv(b)'
    <2> SUFFICES ASSUME NEW b \in Assistants, b # a PROVE CallInv(b)'
        OBVIOUS
    <2>1. /\ pc'[b] = pc[b] /\ line'[b] = line[b] /\ said'[b] = said[b]
          /\ obeyed'[b] = obeyed[b] /\ answer'[b] = answer[b]
        BY <1>0 DEF OneCall, TypeOK
    <2>2. QED
        BY <1>0, <2>1, CallStays DEF CallOf
<1>9. QED
    BY <1>7, <1>8, RecoveryParts

\* What does not change is a change to what it was.
LEMMA Same ==
    ASSUME NEW S, NEW f \in [Assistants -> S], NEW a \in Assistants
    PROVE  f[a] \in S /\ f = [f EXCEPT ![a] = f[a]]
OBVIOUS

LEMMA SameOf ==
    ASSUME TypeOK, NEW a \in Assistants
    PROVE  /\ pc[a] \in {"idle", "write", "read", "status"} /\ pc = [pc EXCEPT ![a] = pc[a]]
           /\ tool[a] \in Tools \cup {None} /\ tool = [tool EXCEPT ![a] = tool[a]]
           /\ entered[a] \in BOOLEAN /\ entered = [entered EXCEPT ![a] = entered[a]]
           /\ plan[a] \in Seq(Tools) /\ plan = [plan EXCEPT ![a] = plan[a]]
           /\ line[a] \in {None, "sent", "taken"} /\ line = [line EXCEPT ![a] = line[a]]
           /\ said[a] \in 0..Chunks /\ said = [said EXCEPT ![a] = said[a]]
           /\ obeyed[a] \in Nat /\ obeyed = [obeyed EXCEPT ![a] = obeyed[a]]
           /\ answer[a] \in Answer /\ answer = [answer EXCEPT ![a] = answer[a]]
BY Same DEF TypeOK, Answer

\* A call begins: nothing of the one before is left, but its line may be.
LEMMA BeginKeeps ==
    ASSUME RecoveryInv, NEW a \in Assistants, Begin(a)
    PROVE  RecoveryInv'
<1>0. TypeOK /\ CallInv(a)
    BY RecoveryParts
<1> DEFINE t == IF plan[a] = <<>> THEN "get_auth_status" ELSE Head(plan[a])
           rest == IF plan[a] = <<>> THEN plan[a] ELSE Tail(plan[a])
<1>1. t \in Tools /\ rest \in Seq(Tools)
    BY <1>0, SameOf DEF Tools
<1>2. Blank \in Answer /\ 0 \in 0..Chunks
    BY ChunksAssumption DEF Blank, Answer
<1>3. \E r \in BOOLEAN : entered' = [entered EXCEPT ![a] = r]
    BY DEF Begin
<1>4. OneCall(a)
    <2>1. plan' = [plan EXCEPT ![a] = rest] /\ tool' = [tool EXCEPT ![a] = t]
        BY <1>0 DEF Begin, TypeOK
    <2> HIDE DEF t, rest
    <2>2. QED
        BY <1>1, <1>2, <1>3, <2>1 DEF Begin, OneCall
<1>5. /\ pc'[a] # "idle" /\ line'[a] = None /\ said'[a] = 0 /\ obeyed'[a] = 0
      /\ answer'[a] = Blank
    BY <1>0 DEF Begin, TypeOK
<1>6. CallInv(a)'
    BY <1>5, NoneAssumption DEF CallInv, Blank
<1>7. QED
    BY <1>4, <1>6, OneCallKeeps

\* A call fails: it has no answer, and its line may be on its way.
LEMMA FailsKeeps ==
    ASSUME RecoveryInv, NEW a \in Assistants, WriteFails(a) \/ ReadFails(a)
    PROVE  RecoveryInv'
<1>0. TypeOK /\ CallInv(a)
    BY RecoveryParts
<1>1. Blank \in Answer /\ <<>> \in Seq(Tools)
    BY ChunksAssumption DEF Blank, Answer
<1>2. \E l \in {None, "sent", "taken"} : line' = [line EXCEPT ![a] = l]
    BY <1>0, SameOf DEF WriteFails, ReadFails
<1>3. OneCall(a)
    <2>1. UNCHANGED <<opend, tool, entered, stray, said, obeyed>> /\ Mishap
        BY DEF WriteFails, ReadFails, Fails
    <2>2. /\ \E t \in Tools \cup {None} : tool' = [tool EXCEPT ![a] = t]
          /\ \E r \in BOOLEAN : entered' = [entered EXCEPT ![a] = r]
          /\ \E n \in 0..Chunks : said' = [said EXCEPT ![a] = n]
          /\ \E n \in Nat : obeyed' = [obeyed EXCEPT ![a] = n]
        BY <1>0, <2>1, SameOf
    <2>3. /\ pc' = [pc EXCEPT ![a] = "idle"] /\ plan' = [plan EXCEPT ![a] = <<>>]
          /\ answer' = [answer EXCEPT ![a] = Blank]
        BY DEF WriteFails, ReadFails, Fails
    <2>4. QED
        BY <1>1, <1>2, <2>1, <2>2, <2>3 DEF OneCall
<1>4. CASE WriteFails(a)
    <2>1. /\ pc[a] = "write" /\ line'[a] \in {None, "sent"} /\ pc'[a] = "idle"
          /\ answer'[a] = Blank /\ UNCHANGED <<said, obeyed>>
        BY <1>0, <1>4 DEF WriteFails, Fails, TypeOK
    <2>2. line[a] = None /\ said[a] = 0 /\ obeyed[a] = 0
        BY <1>0, <2>1, NoneAssumption DEF CallInv, TypeOK
    <2>3. CallInv(a)'
        BY <2>1, <2>2, NoneAssumption DEF CallInv, Blank
    <2>4. QED
        BY <1>3, <2>3, OneCallKeeps
<1>5. CASE ReadFails(a)
    <2>1. answer'[a] = Blank /\ pc'[a] = "idle" /\ UNCHANGED <<line, said, obeyed>>
        BY <1>0, <1>5 DEF ReadFails, Fails, TypeOK
    <2>2. said[a] \in Nat
        BY <1>0, SameOf
    <2>3. CallInv(a)'
        BY <1>0, <2>1, <2>2 DEF CallInv, Blank
    <2>4. QED
        BY <1>3, <2>3, OneCallKeeps
<1>6. QED
    BY <1>4, <1>5

\* The line is written, and the reply read chunk by chunk to its end.
LEMMA ExchangeKeeps ==
    ASSUME RecoveryInv, NEW a \in Assistants,
           Write(a) \/ Read(a) \/ Silence(a) \/ EndOfStream(a)
    PROVE  RecoveryInv'
<1>0. TypeOK /\ CallInv(a)
    BY RecoveryParts
<1>1. CASE Write(a)
    <2>1. OneCall(a)
        BY <1>0, <1>1, SameOf, PhaseOrder DEF Write, OneCall
    <2>2. /\ pc[a] = "write" /\ pc'[a] = "read" /\ line'[a] = "sent"
          /\ UNCHANGED <<said, obeyed, answer>>
        BY <1>0, <1>1, PhaseOrder DEF Write, TypeOK
    <2>3. CallInv(a)'
        BY <1>0, <2>2, NoneAssumption DEF CallInv
    <2>4. QED
        BY <2>1, <2>3, OneCallKeeps
<1>2. CASE Read(a)
    <2> DEFINE m == [answer[a] EXCEPT !.output = @ + 1]
    <2>1. /\ pc[a] = "read" /\ answer[a].output < said[a] /\ answer' = [answer EXCEPT ![a] = m]
          /\ UNCHANGED <<opend, mishaps, pc, tool, entered, plan, line, stray, said, obeyed>>
        BY <1>2 DEF Read
    <2>2. /\ answer[a] \in Answer /\ said[a] \in 0..Chunks
        BY <1>0, SameOf
    <2>3. /\ m \in Answer /\ m.output = answer[a].output + 1 /\ m.status = answer[a].status
          /\ m.obeyed = answer[a].obeyed
        BY <2>1, <2>2, ChunksAssumption DEF Answer
    <2>4. answer'[a] = m
        BY <1>0, <2>1 DEF TypeOK
    <2> HIDE DEF m
    <2>5. OneCall(a)
        BY <1>0, <2>1, <2>3, SameOf DEF OneCall
    <2>6. answer[a].output \in Nat /\ said[a] \in Nat
        BY <2>2 DEF Answer
    <2>7. CallInv(a)'
        BY <1>0, <2>1, <2>3, <2>4, <2>6 DEF CallInv
    <2>8. QED
        BY <2>5, <2>7, OneCallKeeps
<1>3. CASE EndReply(a) /\ (mishaps' = mishaps \/ Mishap)
    <2>1. OneCall(a)
        BY <1>0, <1>3, SameOf, PhaseOrder DEF EndReply, OneCall
    <2>2. pc[a] = "read" /\ pc'[a] = "status" /\ UNCHANGED <<line, said, obeyed, answer>>
        BY <1>0, <1>3, PhaseOrder DEF EndReply, TypeOK
    <2>3. CallInv(a)'
        BY <1>0, <2>2 DEF CallInv
    <2>4. QED
        BY <2>1, <2>3, OneCallKeeps
<1>4. QED
    BY <1>1, <1>2, <1>3 DEF Silence, EndOfStream

\* The answer is given: its status is OpenD's, or missing.
LEMMA ToldKeeps ==
    ASSUME RecoveryInv, NEW a \in Assistants, NEW s \in ProgramStatus, Told(a, s),
           mishaps' = mishaps \/ Mishap
    PROVE  RecoveryInv'
<1>0. TypeOK /\ CallInv(a)
    BY RecoveryParts
<1> DEFINE m == [answer[a] EXCEPT !.status = s, !.ready = ReadyForApi(s, qot, trd),
                                  !.obeyed = obeyed[a] > 0]
<1>1. pc[a] = "status" /\ pc' = [pc EXCEPT ![a] = "idle"] /\ answer' = [answer EXCEPT ![a] = m]
    BY PhaseOrder DEF Told
<1>2. answer[a] \in Answer /\ obeyed[a] \in Nat /\ said[a] \in 0..Chunks
    BY <1>0, SameOf
<1>3. ReadyForApi(s, qot, trd) \in BOOLEAN /\ (obeyed[a] > 0) \in BOOLEAN
    BY DEF ReadyForApi
<1>4. /\ m \in Answer /\ m.output = answer[a].output
      /\ m.obeyed <=> obeyed[a] > 0
    BY <1>2, <1>3 DEF Answer
<1>5. answer'[a] = m /\ pc'[a] = "idle" /\ UNCHANGED <<line, said, obeyed>>
    BY <1>0, <1>1 DEF Told, TypeOK
<1> HIDE DEF m
<1>6. \E r \in Seq(Tools) : plan' = [plan EXCEPT ![a] = r]
    <2>1. plan[a] \in Seq(Tools) /\ Recommended(s) \in Seq(Tools)
        BY <1>0, SameOf, RecommendedTools
    <2>2. QED
        BY <1>0, <2>1 DEF Told, TypeOK
<1>7. OneCall(a)
    <2>1. UNCHANGED <<opend, tool, entered, line, stray, said, obeyed>>
        BY DEF Told
    <2>2. /\ \E t \in Tools \cup {None} : tool' = [tool EXCEPT ![a] = t]
          /\ \E r \in BOOLEAN : entered' = [entered EXCEPT ![a] = r]
          /\ \E l \in {None, "sent", "taken"} : line' = [line EXCEPT ![a] = l]
          /\ \E n \in 0..Chunks : said' = [said EXCEPT ![a] = n]
          /\ \E n \in Nat : obeyed' = [obeyed EXCEPT ![a] = n]
        BY <1>0, <2>1, SameOf
    <2>3. QED
        BY <1>1, <1>4, <1>6, <2>1, <2>2 DEF OneCall
<1>8. CallInv(a)'
    <2>1. answer[a].output \in Nat /\ said[a] \in Nat
        BY <1>2 DEF Answer
    <2>2. answer[a].output > 0 => obeyed[a] > 0
        BY <1>0, <2>1 DEF CallInv
    <2>3. QED
        BY <1>0, <1>4, <1>5, <2>2 DEF CallInv
<1>9. QED
    BY <1>7, <1>8, OneCallKeeps

\* The status cannot be asked for: the call ends without one.
LEMMA SampleFailsKeeps ==
    ASSUME RecoveryInv, NEW a \in Assistants, SampleFails(a)
    PROVE  RecoveryInv'
<1>0. TypeOK /\ CallInv(a)
    BY RecoveryParts
<1>1. OneCall(a)
    BY <1>0, SameOf, PhaseOrder DEF SampleFails, OneCall
<1>2. pc[a] = "status" /\ pc'[a] = "idle" /\ UNCHANGED <<line, said, obeyed, answer>>
    BY <1>0, PhaseOrder DEF SampleFails, TypeOK
<1>3. CallInv(a)'
    BY <1>0, <1>2 DEF CallInv
<1>4. QED
    BY <1>1, <1>3, OneCallKeeps

\* Every step keeps the invariant.
LEMMA RecoveryStep == RecoveryInv /\ [Next]_vars => RecoveryInv'
<1> SUFFICES ASSUME RecoveryInv, [Next]_vars PROVE RecoveryInv'
    OBVIOUS
<1>0. TypeOK
    BY RecoveryParts
<1>1. CASE UNCHANGED vars
    <2>1. TypeOK' /\ \A a \in Assistants : CallInv(a)'
        BY <1>1, RecoveryParts DEF vars, opend, call, TypeOK, CallInv
    <2>2. QED
        BY <2>1, RecoveryParts
<1>2. CASE OpenD
    BY <1>2, OpenDKeeps
<1>3. ASSUME NEW a \in Assistants, Sample(a) \/ SampleUnsaid(a) PROVE RecoveryInv'
    <2>1. status \in ProgramStatus /\ {"NONE", "UNKNOWN"} \subseteq ProgramStatus
        BY <1>0 DEF TypeOK, ProgramStatus
    <2>2. QED
        BY <1>3, <2>1, ToldKeeps DEF Sample, SampleUnsaid
<1>4. QED
    BY <1>1, <1>2, <1>3, BeginKeeps, FailsKeeps, ExchangeKeeps, SampleFailsKeeps
       DEF Next, Step

-----------------------------------------------------------------------------
\* The properties

\* RecoveryInv holds in every reachable state.
THEOREM RecoveryInvariant == Spec => []RecoveryInv
BY RecoveryInit, RecoveryStep, PTL DEF Spec

\* No command is carried out twice for one call, whatever fails: execute writes
\* its line once (opend_cmd.rs:57-91).
THEOREM CommandsSentOnce == Spec => []CarriedOutOnce
<1>1. RecoveryInv => CarriedOutOnce
    BY DEF RecoveryInv, CarriedOutOnce
<1>2. QED
    BY <1>1, RecoveryInvariant, PTL

\* The status beside a command's output is from after the command was carried out,
\* for replies of any length (server.rs:117-176, 1577-1593).
THEOREM StatusAfterCommand == Spec => []OutputMeansObeyed
<1>1. RecoveryInv => OutputMeansObeyed
    BY DEF RecoveryInv, OutputMeansObeyed
<1>2. QED
    BY <1>1, RecoveryInvariant, PTL

=============================================================================
