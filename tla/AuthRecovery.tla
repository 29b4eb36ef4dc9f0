----------------------------- MODULE AuthRecovery -----------------------------
(***************************************************************************)
(* The tools that bring a logged-out OpenD back: get_auth_status, and five *)
(* that send OpenD one Operation Command over a Telnet connection of their *)
(* own (opend_cmd.rs), read what it says until it closes or falls silent,  *)
(* then ask for the auth status, and answer with both (server.rs).         *)
(*                                                                         *)
(* Their users are assistants that do what the last answer recommends, as  *)
(* many as Assistants has, each with one call at a time.  OpenD and its    *)
(* login are external.  A reply of OpenD is a number of chunks; a code or  *)
(* a password is right, wrong or unusable.                                 *)
(***************************************************************************)
EXTENDS Naturals, Sequences

CONSTANTS
    None,
    Assistants,
    Chunks,         \* chunks of OpenD's reply to a command
    MaxMishaps      \* bound on what goes wrong: logouts, wrong codes, failed calls,
                    \* statuses not reported

ASSUME ChunksAssumption == Chunks \in Nat \ {0}
ASSUME MishapsAssumption == MaxMishaps \in Nat
ASSUME NoneAssumption == None \notin {"sent", "taken"}

VARIABLES
    status,         \* ProgramStatus of OpenD
    qot, trd,       \* whether it is logged in to the quote and the trade server
    code,           \* the challenge OpenD has sent out a code or a picture for
    mishaps,
    pc,             \* where each assistant's call is
    tool,           \* the tool it calls
    entered,        \* whether the code or password it passes is right
    plan,           \* the tools it means to call next
    line,           \* its command line: None, sent, or taken by OpenD
    stray,          \* lines of calls that ended before OpenD took them
    said,           \* chunks of the reply OpenD has sent
    obeyed,         \* how often OpenD carried out the command of this call
    answer          \* its last answer: chunks of output, and the auth status

opend == <<status, qot, trd, code>>
call == <<pc, tool, entered, plan, line, stray, said, obeyed, answer>>
vars == <<opend, mishaps, call>>

\* The tools that pass a password or a code with their command.
Inputs == {"relogin", "input_phone_verify_code", "input_pic_verify_code"}

\* An answer without output or status; obeyed records whether OpenD had carried the
\* command out when it was asked for the status.
Blank == [output |-> 0, status |-> None, ready |-> FALSE, obeyed |-> FALSE]

-----------------------------------------------------------------------------
\* What the answers say

\* Mutant: the two challenges mixed up.
RecommendedSwapped(s) ==
    CASE s = "NEED_PIC_VERIFY_CODE" -> <<"req_phone_verify_code", "input_phone_verify_code">>
      [] s = "NEED_PHONE_VERIFY_CODE" -> <<"req_pic_verify_code", "input_pic_verify_code">>
      [] s \in {"LOGIN_FAILED", "FORCE_LOGOUT"} -> <<"relogin">>
      [] OTHER -> <<>>

\* The tools an answer recommends by the status, if any; there is nothing to call
\* for the other ones but get_auth_status again.
Recommended(s) ==
    CASE s = "NEED_PIC_VERIFY_CODE" -> <<"req_pic_verify_code", "input_pic_verify_code">>
      [] s = "NEED_PHONE_VERIFY_CODE" -> <<"req_phone_verify_code", "input_phone_verify_code">>
      [] s \in {"LOGIN_FAILED", "FORCE_LOGOUT"} -> <<"relogin">>
      [] OTHER -> <<>>

ReadyForApi(s, q, t) == s = "READY" \/ (s \in {"NONE", "UNKNOWN"} /\ q /\ t)

-----------------------------------------------------------------------------
\* OpenD (external)

Mishap == mishaps < MaxMishaps /\ mishaps' = mishaps + 1

LogOut(s) == status' = s /\ qot' = FALSE /\ trd' = FALSE /\ code' = None

\* What OpenD does by itself, or its user in its window.
LoginStep ==
    /\ \/ status \in {"NONE", "LOADED"} /\ status' = IF status = "NONE" THEN "LOADED" ELSE "LOGGING_IN"
       \/ status = "LOGGING_IN" /\ status' \in {"NECESSARY_DATA_PREPARING", "UNAGREE_DISCLAIMER"}
       \/ status = "UNAGREE_DISCLAIMER" /\ status' = "NECESSARY_DATA_PREPARING"
       \/ status = "NECESSARY_DATA_PREPARING" /\ qot /\ trd /\ status' = "READY"
    /\ UNCHANGED <<qot, trd, code, mishaps, call>>

ServerLogin ==
    /\ status = "NECESSARY_DATA_PREPARING"
    /\ \/ ~qot /\ qot' = TRUE /\ UNCHANGED trd
       \/ ~trd /\ trd' = TRUE /\ UNCHANGED qot
    /\ UNCHANGED <<status, code, mishaps, call>>

LoginMishap ==
    /\ Mishap
    /\ \/ /\ status = "LOGGING_IN"
          /\ \E s \in {"LOGIN_FAILED", "NEED_PIC_VERIFY_CODE", "NEED_PHONE_VERIFY_CODE"} : LogOut(s)
       \/ status = "READY" /\ LogOut("FORCE_LOGOUT")
    /\ UNCHANGED call

\* OpenD carries out the command of a line, if it makes sense to it.
Carry(t, right) ==
    LET phone == status = "NEED_PHONE_VERIFY_CODE"
        picture == status = "NEED_PIC_VERIFY_CODE"
        passed ==
          /\ right
          /\ \/ t = "relogin" /\ status \in {"LOGIN_FAILED", "FORCE_LOGOUT"}
             \/ t = "input_phone_verify_code" /\ phone /\ code = "phone"
             \/ t = "input_pic_verify_code" /\ picture /\ code = "picture"
        asked ==
          \/ t = "req_phone_verify_code" /\ phone
          \/ t = "req_pic_verify_code" /\ picture IN
    /\ status' = IF passed THEN "LOGGING_IN" ELSE status
    /\ code' = IF passed THEN None ELSE IF ~asked THEN code ELSE IF phone THEN "phone" ELSE "picture"
    /\ UNCHANGED <<qot, trd>>

Obey(a) ==
    /\ line[a] = "sent"
    /\ Carry(tool[a], entered[a])
    /\ line' = [line EXCEPT ![a] = "taken"] /\ obeyed' = [obeyed EXCEPT ![a] = @ + 1]
    /\ UNCHANGED <<mishaps, pc, tool, entered, plan, stray, said, answer>>

ObeyStray ==
    \E l \in stray : Carry(l[1], l[2]) /\ stray' = stray \ {l}
                    /\ UNCHANGED <<mishaps, pc, tool, entered, plan, line, said, obeyed, answer>>

Speak(a) ==
    /\ line[a] = "taken" /\ said[a] < Chunks
    /\ said' = [said EXCEPT ![a] = @ + 1]
    /\ UNCHANGED <<opend, mishaps, pc, tool, entered, plan, line, stray, obeyed, answer>>

-----------------------------------------------------------------------------
\* The tools

\* Mutant: the status is asked for while the command is still under way.
ThenStatusFirst(t, phase) ==
    CASE phase = "write" -> "status"
      [] phase = "status" -> IF t = "get_auth_status" THEN "idle" ELSE "read"
      [] phase = "read" -> "idle"

\* The order of a tool: the command, the whole reply, then the status.
Then(t, phase) ==
    CASE phase = "write" -> "read" [] phase = "read" -> "status" [] phase = "status" -> "idle"

\* A code or password is right, wrong, or fails validation; a picture has to have
\* been read from the last answer.
Begin(a) ==
    LET t == IF plan[a] = <<>> THEN "get_auth_status" ELSE Head(plan[a])
        seen == t = "input_pic_verify_code" => answer[a].output = Chunks IN
    /\ pc[a] = "idle"
    /\ tool' = [tool EXCEPT ![a] = t]
    /\ plan' = [plan EXCEPT ![a] = IF @ = <<>> THEN @ ELSE Tail(@)]
    /\ pc' = [pc EXCEPT ![a] = IF t = "get_auth_status" THEN "status" ELSE "write"]
    /\ answer' = [answer EXCEPT ![a] = Blank]
    /\ obeyed' = [obeyed EXCEPT ![a] = 0] /\ said' = [said EXCEPT ![a] = 0]
    /\ \/ entered' = [entered EXCEPT ![a] = seen] /\ UNCHANGED mishaps
       \/ t \in Inputs /\ Mishap /\ entered' = [entered EXCEPT ![a] = FALSE]
    /\ line' = [line EXCEPT ![a] = None]
    /\ stray' = IF line[a] = "sent" THEN stray \cup {<<tool[a], entered[a]>>} ELSE stray
    /\ UNCHANGED opend

\* The call ends in an error.
Fails(a) ==
    /\ Mishap
    /\ pc' = [pc EXCEPT ![a] = "idle"] /\ plan' = [plan EXCEPT ![a] = <<>>]
    /\ answer' = [answer EXCEPT ![a] = Blank]
    /\ UNCHANGED <<opend, tool, entered, stray, said, obeyed>>

\* The port is not set, the input fails validation, or the connection or the
\* write fails, which the line may have outrun.
WriteFails(a) ==
    /\ pc[a] = "write" /\ Fails(a)
    /\ \E l \in {None, "sent"} : line' = [line EXCEPT ![a] = l]

Write(a) ==
    /\ pc[a] = "write"
    /\ pc' = [pc EXCEPT ![a] = Then(tool[a], "write")] /\ line' = [line EXCEPT ![a] = "sent"]
    /\ UNCHANGED <<opend, mishaps, tool, entered, plan, stray, said, obeyed, answer>>

\* Mutant: a reply that cannot be read makes the command be sent again.
ReadFailsRetries(a) ==
    /\ pc[a] = "read" /\ Mishap
    /\ pc' = [pc EXCEPT ![a] = "write"]
    /\ UNCHANGED <<opend, tool, entered, plan, line, stray, said, obeyed, answer>>

ReadFails(a) == pc[a] = "read" /\ Fails(a) /\ UNCHANGED line

Read(a) ==
    /\ pc[a] = "read" /\ answer[a].output < said[a]
    /\ answer' = [answer EXCEPT ![a].output = @ + 1]
    /\ UNCHANGED <<opend, mishaps, pc, tool, entered, plan, line, stray, said, obeyed>>

EndReply(a) ==
    /\ pc[a] = "read" /\ answer[a].output = said[a]
    /\ pc' = [pc EXCEPT ![a] = Then(tool[a], "read")]
    /\ UNCHANGED <<opend, tool, entered, plan, line, stray, said, obeyed, answer>>

\* Mutant: after a silence the loop goes on.
SilenceWaits(a) ==
    pc[a] = "read" /\ answer[a].output = said[a] /\ UNCHANGED vars

\* The read timeout passes, usually because OpenD has said everything.
Silence(a) == EndReply(a) /\ IF said[a] = Chunks THEN UNCHANGED mishaps ELSE Mishap

\* OpenD closes the connection, having said everything or not.
EndOfStream(a) ==
    EndReply(a) /\ line[a] = "taken" /\ IF said[a] = Chunks THEN UNCHANGED mishaps ELSE Mishap

\* load_auth_status: the answer carries its result or its error.
Told(a, s) ==
    /\ pc[a] = "status"
    /\ pc' = [pc EXCEPT ![a] = Then(tool[a], "status")]
    /\ answer' = [answer EXCEPT ![a] =
         [@ EXCEPT !.status = s, !.ready = ReadyForApi(s, qot, trd),
                   !.obeyed = obeyed[a] > 0]]
    /\ plan' = [plan EXCEPT ![a] = IF @ = <<>> THEN Recommended(s) ELSE @]
    /\ UNCHANGED <<opend, tool, entered, line, stray, said, obeyed>>

Sample(a) == Told(a, status) /\ UNCHANGED mishaps

\* OpenD does not report its status, or one the code does not know.
SampleUnsaid(a) == \E s \in {"NONE", "UNKNOWN"} : Told(a, s) /\ Mishap

SampleFails(a) ==
    /\ pc[a] = "status" /\ Mishap
    /\ pc' = [pc EXCEPT ![a] = Then(tool[a], "status")]
    /\ UNCHANGED <<opend, tool, entered, plan, line, stray, said, obeyed, answer>>

-----------------------------------------------------------------------------

Init ==
    /\ status \in {"NONE", "LOGIN_FAILED", "FORCE_LOGOUT"} /\ qot = FALSE /\ trd = FALSE
    /\ code = None /\ mishaps = 0
    /\ pc = [a \in Assistants |-> "idle"] /\ tool = [a \in Assistants |-> None]
    /\ entered = [a \in Assistants |-> FALSE] /\ plan = [a \in Assistants |-> <<>>]
    /\ line = [a \in Assistants |-> None] /\ stray = {}
    /\ said = [a \in Assistants |-> 0] /\ obeyed = [a \in Assistants |-> 0]
    /\ answer = [a \in Assistants |-> Blank]

Step(a) == Begin(a) \/ Write(a) \/ Read(a) \/ Silence(a) \/ Sample(a)

OpenD == LoginStep \/ ServerLogin \/ LoginMishap \/ ObeyStray \/ \E a \in Assistants : Obey(a) \/ Speak(a)

Next ==
    \/ OpenD
    \/ \E a \in Assistants :
         Step(a) \/ WriteFails(a) \/ ReadFails(a) \/ EndOfStream(a) \/ SampleUnsaid(a) \/ SampleFails(a)

Spec == Init /\ [][Next]_vars

\* Calls go on, the read timeout passes, and OpenD reads, answers and logs in.
Fairness ==
    /\ WF_vars(LoginStep) /\ WF_vars(ServerLogin)
    /\ \A a \in Assistants : WF_vars(Step(a)) /\ WF_vars(Obey(a)) /\ WF_vars(Speak(a))

LiveSpec == Spec /\ Fairness

-----------------------------------------------------------------------------
\* Properties

ProgramStatus ==
    {"NONE", "UNKNOWN", "LOADED", "LOGGING_IN", "UNAGREE_DISCLAIMER", "NECESSARY_DATA_PREPARING",
     "READY", "LOGIN_FAILED", "FORCE_LOGOUT", "NEED_PIC_VERIFY_CODE", "NEED_PHONE_VERIFY_CODE"}
Tools == Inputs \cup {"get_auth_status", "req_phone_verify_code", "req_pic_verify_code"}

TypeOK ==
    /\ status \in ProgramStatus /\ qot \in BOOLEAN /\ trd \in BOOLEAN
    /\ code \in {None, "phone", "picture"} /\ mishaps \in 0..MaxMishaps
    /\ pc \in [Assistants -> {"idle", "write", "read", "status"}]
    /\ tool \in [Assistants -> Tools \cup {None}] /\ entered \in [Assistants -> BOOLEAN]
    /\ plan \in [Assistants -> Seq(Tools)]
    /\ line \in [Assistants -> {None, "sent", "taken"}]
    /\ stray \subseteq (Tools \cup {None}) \X BOOLEAN
    /\ said \in [Assistants -> 0..Chunks] /\ obeyed \in [Assistants -> Nat]
    /\ answer \in [Assistants -> [output : 0..Chunks, status : ProgramStatus \cup {None},
                                  ready : BOOLEAN, obeyed : BOOLEAN]]

\* What the properties below rest on.  A call that has not written its line has had
\* nothing carried out; OpenD speaks on a connection only after it took the line from
\* it; a call has no more of the reply than was said, and no status, until it asks for
\* one (execute, opend_cmd.rs:57-91).
RecoveryInv ==
    /\ TypeOK
    /\ \A a \in Assistants :
         /\ pc[a] = "write" => line[a] = None
         /\ obeyed[a] = IF line[a] = "taken" THEN 1 ELSE 0
         /\ said[a] > 0 => line[a] = "taken"
         /\ answer[a].output <= said[a]
         /\ pc[a] # "idle" => answer[a].status = None
         /\ answer[a].output > 0 /\ answer[a].status # None => answer[a].obeyed

\* An answer that carries output reports a status OpenD had after it carried out the
\* command, not one from before: the tools read the reply first.  (Without output,
\* after a silence, the command may still be on its way.)
OutputMeansObeyed ==
    \A a \in Assistants :
        pc[a] = "idle" /\ answer[a].output > 0 /\ answer[a].status # None => answer[a].obeyed

\* execute never repeats a command, whatever fails: a code is requested or entered,
\* and a login tried, once per call.
CarriedOutOnce == \A a \in Assistants : obeyed[a] <= 1

\* Every call ends, however OpenD takes its line, if what OpenD says is finite.
CallEnds == \A a \in Assistants : pc[a] # "idle" ~> pc[a] = "idle"

\* An assistant that does what the answers recommend brings a logged-out OpenD back
\* and is told so, through every challenge and after cut replies, failed calls and
\* wrong codes, as long as these end.
Recovers == \A a \in Assistants : []<>answer[a].ready

=============================================================================
