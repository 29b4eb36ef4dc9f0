----------------------------- MODULE WireSerials -----------------------------
(***************************************************************************)
(* The serial numbers of MoomooClient as OpenD sees them.  One counter     *)
(* serves all calls and all keep-alive loops; a number is drawn before the *)
(* stream is locked, and together with the connection id it is the         *)
(* PacketID of a command (Common.proto:28).  InitConnect does not use the  *)
(* counter: on each connection it is the packet 1.  wire records what was  *)
(* written to each connection until the counter first wraps; an            *)
(* InitConnect that did not make a connection is not recorded.             *)
(***************************************************************************)
EXTENDS MoomooClient

ASSUME WideSerial == SerialMod > 2

VARIABLES
    wrapped,    \* the counter passed its last value
    wire        \* wire[c]: who wrote to c and with which serial, in order

wireVars == <<vars, wrapped, wire>>

WireInit ==
    /\ Init
    /\ wrapped = FALSE
    /\ wire = [c \in Conns |-> <<>>]

\* The packet of Session::init, sent before the session belongs to anybody.
InitConnect == [from |-> None, serial |-> 1]

\* ConnectOk writes it; otherwise only Send makes an outbox longer.
Written(c) ==
    IF Opened(c)' /\ ~Opened(c)
    THEN Append(wire[c], InitConnect)
    ELSE IF Len(outbox'[c]) > Len(outbox[c])
    THEN LET a == outbox'[c][Len(outbox'[c])]
         IN Append(wire[c], [from |-> a, serial |-> mine[a]])
    ELSE wire[c]

\* The bound: behaviours are followed until the counter wraps.
WireNext ==
    \/ /\ ~wrapped
       /\ Next
       /\ wrapped' = (serial' < serial)
       /\ wire' = [c \in Conns |-> Written(c)]
    \/ wrapped /\ UNCHANGED wireVars

WireSpec == WireInit /\ [][WireNext]_wireVars

-----------------------------------------------------------------------------

\* What the properties below rest on: until it wraps the counter is ahead of all numbers
\* in use; a number has one holder, is held from prepare_command or query on, is not on
\* the wire before its holder wrote it, and is never the 1 of InitConnect, which opens each
\* connection.
SerialInv ==
    /\ wire \in [Conns -> Seq([from : Actors \cup {None}, serial : 0..(SerialMod - 1)])]
    /\ \A c \in Conns :
        /\ ~Opened(c) => wire[c] = <<>>
        /\ Opened(c) => wire[c] # <<>>
        /\ \A i \in DOMAIN wire[c] : wire[c][i] = InitConnect <=> i = 1
    /\ ~wrapped =>
        /\ serial > 1
        /\ \A a \in Actors : mine[a] < serial /\ mine[a] # 1
        /\ \A a, b \in Actors : mine[a] = mine[b] /\ mine[a] # 0 => a = b
        /\ \A c \in Conns : \A i \in DOMAIN wire[c] :
            /\ wire[c][i].serial < serial
            /\ wire[c][i].serial = 1 => wire[c][i] = InitConnect
        /\ \A a \in Actors : pc[a] \in {"wait", "prepared"} =>
            /\ mine[a] # 0
            /\ \A c \in Conns : \A i \in DOMAIN wire[c] : wire[c][i].serial # mine[a]
        /\ \A t \in Commands :
            pc[t] \in {"recv", "returned"} \/ (pc[t] = "done" /\ reply[t] # "connect") => mine[t] # 0

\* Of the packets of calls, retries and keep-alive loops no two carry the same serial
\* number, on one connection or on two, and none carries the 1 that InitConnect has on
\* every connection: the counter they draw from is atomic and starts at 2.
SerialsDistinct ==
    \A c, d \in Conns : \A i \in DOMAIN wire[c], j \in DOMAIN wire[d] :
        wire[c][i].serial = wire[d][j].serial =>
            IF c = d THEN i = j
            ELSE wire[c][i] = InitConnect /\ wire[d][j] = InitConnect

\* The packet ids that commands hold are distinct already before they are sent.
PacketIdsDistinct ==
    ~wrapped =>
        \A s, t \in Commands :
            /\ pc[s] \notin {"ensure", "connect", "prepare"} /\ reply[s] # "connect"
            /\ pc[t] \notin {"ensure", "connect", "prepare"} /\ reply[t] # "connect"
            /\ mine[s] = mine[t]
            => s = t
=============================================================================
