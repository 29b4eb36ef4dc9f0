# moomoo-mcp in TLA+

moomoo-mcp (`src/`) is an MCP server in Rust: an assistant calls its tools, and
it turns each call into a request to moomoo's OpenD, a local gateway reached
over one TCP connection, that quotes, trades and logs in. Some of those requests
place real orders. This directory models the part of it that is hard to get right:
many calls that share one connection, fail together, reconnect under each other,
and must still never place an order twice or hand one caller's answer to another.
It also models how a connection is set up and encrypted, how the tools bring a logged-out
OpenD back, and what the order tools make of a symbol, an id or a price.

Line numbers are those of `src/src/*.rs` unless a path is given.

## 1. The system

| component | state | operations | model |
|---|---|---|---|
| **MoomooClient** (opend.rs 74-171) | `session`: a slot with the current `Session`, behind a tokio mutex; `serial`: an atomic u32 | `query` (retried once), `prepare_command` + `execute_command` (never retried), `ensure_session`, `invalidate_session`, `next_serial` | `MoomooClient`, `WireSerials`, promise: `Orders` |
| **Session** (173-346) | the stream and what `InitConnect` said, behind a tokio mutex; the flags `broken` and `closed` | `connect`, `init`, `roundtrip`, `close`, `is_broken`, `conn_id` | `Session`; `connect` and `init` are one step of `MoomooClient` and taken apart in `Handshake` |
| **keep-alive loop**, one per session (234-267) | where it is | sleep, `roundtrip`, break the session on any error | `Session`; its clock: `Handshake` |
| **packet coding** (401-567) | none | header, SHA-1, RSA for `InitConnect`, AES for the rest | `Accepts`: whether a packet passes; `Handshake`: with which cipher |
| **OpenD and TCP** (not in `src/`) | what travels, what was carried out | serve, push a notification, lose the connection | `OpenDLink` |
| **quote tools** (server.rs 186-400, 995-1057) | none here; subscriptions live in OpenD, per connection | 10 tools, each one `query` | tasks of `MoomooClient`; `Subscriptions`; `TradeTools` |
| **trade tools** (server.rs 402-993) | none | 9 queries; `unlock_trade`, `place_order`, `modify_order` are commands | tasks of `MoomooClient`; `TradeTools` |
| **auth tools** (server.rs 101-184, 1567-1722) | none | an Operation Command, then the auth status of OpenD in the same answer | `AuthRecovery` |
| **Operation Command client** (opend_cmd.rs) | none; one Telnet connection per call | `execute`: write a line, read until silence | `AuthRecovery` |
| **request building** (server.rs 1328-1542, 1724-2130) | none | validators, filters, enum tables | in part: `TradeTools` |
| **configuration** (config.rs) | read once | - | `use_encryption` and the key: inputs of `Handshake` |
| **protobuf, start** (proto.rs, build.rs, main.rs) | none | - | not modelled |

How they interact. `rmcp` runs every tool call as a task of its own on tokio's
multi-thread runtime (main.rs 18-24), and does not cancel a call halfway. A task
takes the current session from the slot (or connects a new one while the slot
stays locked), draws a serial number, locks the stream of *its* session, writes
its packet, reads the next packet, compares its **protocol id only**, and unlocks.
An I/O error sets `broken`; a packet that does not fit does not. The
keep-alive loop of each session queues for the same stream lock. `closed` is set
when a session leaves the slot; whoever still holds it finds out at its next
`roundtrip`.

What is hard about it: the slot and the flags are read at one moment and used at
another (`ensure_session`, `is_broken`, `invalidate_session`, the `closed` check
before the stream is locked); a request may have been carried out although its
caller got an error; nothing but the stream lock ties an answer to its request;
nobody but the keep-alive notices an idle loss. Away from the shared connection it is
hard that an Operation Command has no end mark, so that silence has to do; that OpenD logs in
and out, and restarts with other keys, while calls are under way; and that every tool reads
its parameters with code of its own. The list, each at its line, is
`hazards` in `PROJECT.json`.

What makes each component correct:

* *client*: at most one session is current; sessions are replaced only for a cause;
  a retry goes to another session; every call returns;
* *commands*: carried out at most once (`src/README.md:114`: orders are not retried, so
  that none is placed twice); a success is true, a call that ended before its request was
  written has no effect later either, and of no other error that is claimed;
* *roundtrip*: an answer reaches the caller who asked; only a lost connection, or a
  failed keep-alive, breaks a session;
* *keep-alive*: a lost connection is noticed with nobody using it;
* *serial numbers*: none is drawn twice for calls and keep-alives, on one connection or two,
  and none of them is the 1 of `InitConnect`;
* *quote tools*: a subscription reported as made is there when a quote needs it;
* *set-up*: the keep-alive comes in time, and a session that can send nothing does not stay;
* *auth tools*: a status beside output is from after the command, which is sent once, and following
  the recommendations leads to a ready OpenD;
* *order tools*: they mean the same security by the same symbol and market.

## 2. The modules

```
OpenDLink          the network and OpenD, external
  Session          roundtrip and the keep-alive loop of one session
    MoomooClient   slot, query, commands; the specification Spec / FairSpec,
                   its properties, and OrdersKept: it implements Orders
      ClientInvariants    the inductive invariants
        MCClient          instances for TLC
        MoomooClientProofs -> CommandProofs -> SessionProofs    (TLAPS)
      WireSerials         serial numbers as OpenD sees them, InitConnect's too
        MCSerials         instances for TLC
        SerialProofs      (over CommandProofs)
      Subscriptions       subscribe, unsubscribe and quote over the client
        MCSubscriptions   instances for TLC
        SubscriptionProofs  (over SessionProofs)
Orders             what a command promises its caller

Handshake          connect and init of a session, and the clock of its keep-alive
  MCHandshake, HandshakeProofs
AuthRecovery       the auth tools, the Operation Command client, OpenD's login
  MCAuthRecovery, AuthRecoveryProofs
TradeTools         from parameters to a request, and what becomes of the orders
  MCTradeTools, TradeToolsProofs
```

The last three stand beside the client: what they are about does not depend on who shares
a connection, and each takes a call of the client for one step that succeeds or fails.

**State.** A connection `c` in `Conns` names a `Session` together with its stream;
`conn[c]` is the TCP connection, `outbox[c]` what OpenD received and has not
served, `inbox[c]` what the client can still read, `executed[t]` how often OpenD
carried out the request of `t`. `broken`, `closed`, `serial` and `slot` are the
fields of the same names (`session` is called `slot`); `lock[c]` is the owner of `Session::state` and `slotOwner`
of the slot mutex, kept only where they are held across an `await`. Each actor,
a tool call or the keep-alive of a connection, has a `pc`, the session it holds
(`sess`), the serial it drew (`mine`) and the result of its last `roundtrip`
(`reply`: a verdict of OpenD, or `"io"`, `"protocol"`, `"closed"` for the errors).
`got` is a history variable: whose answer that result was.

**Actions.** One action is the code from one point where another task can make a
difference to the next:

| action | code | |
|---|---|---|
| `Ensure`, `ConnectOk`, `ConnectFails` | `ensure_session` 136-152 | the slot is locked between the first and the other two |
| `Call` / `Submit` | entry of `roundtrip` 279-284 | `closed` is read once, here |
| `Send`, `SendFails` | 285-301 | a lost connection may accept a packet into its buffer |
| `Receive`, `ReceiveFails` | 303-326 | `Accepts`: same protocol id, body decodes; a misfit breaks nothing |
| `QueryReturn`, `Invalidate` | 97-106, 154-159 | the retry; `Invalidate` takes what is in the slot *by then* |
| `Prepare`, `RejectParams`, `CommandReturn` | 110-134, server.rs 844-919 | parameters are parsed after the context is drawn |
| `KeepAliveTop/Interval/Wake/Return` | 234-267, 332-338 | in between it takes `Call` and `Exchange` like a task |
| `Release` | `Arc<Session>` dropped | closes the socket once slot, calls and loop have let go |
| `Serve`, `Push`, `Drop` | outside | a loss cuts off any suffix of what travels either way; what arrived may still be carried out |

**Abstract data.** A packet is whose request it answers and OpenD's verdict: `"ok"`,
`"refused"` (retType -1 or -500: no effect), `"unsure"` (TimeOut -100, DisConnect -200 or
Unknown -400, which is also what `retType` defaults to: the effect is open) or `"garbled"`
(does not decode; the effect is open). The client makes one API error of `"refused"` and
`"unsure"`, so that nothing is claimed of either. `RejectParams` may happen to any command: which parameters are bad is data.
The 27 tools differ, here, in being a query or a command and in their `Proto` alone.

**Subscriptions** gives each query parameters (`ask`) and OpenD a set of
subscriptions per connection (`subs`), which ends with the connection. Its steps are
those of `MoomooClient`: `Serve` applies what the request asks, and a quote is
carried out exactly when its symbols have a BASIC subscription on the connection it came by
(server.rs:296). `RejectEmpty` is the one exit before `query`. `Before[t]` names the
calls whose results the caller of `t` awaited first.

**Orders** is the abstract specification: `effects[o]` and `outcome[o]`, an effect
happens once, `"confirmed"` is told only after it, `"unsent"` only when it did
not happen *and never will*, and only after `"unknown"` may it still come. The mapping
is `effects <- executed` and `outcome <- ToldOf`, by where the call ended: in connecting, in
its parameters or at "session is closed" it is unsent; any later error leaves the outcome
unknown. That includes every API error, because `ensure_success` (server.rs 1525-1542)
does not tell a request that failed (retType -1, -500) from one that timed out at OpenD or
whose outcome OpenD does not know (-100, -200, -400).

**Handshake** follows one slot through OpenDs with other settings. `config` is the
client's configuration, `opend` the settings of the OpenD that runs, `peer` whether it still has its
end of the current connection, `session` what `SessionState` and `broken` hold of it, `keepalive` how
many seconds the loop still sleeps or waits for its answer, and `idle` how long OpenD
has not heard of the client.

| action | code | |
|---|---|---|
| `Connect` | `connect` 201-232, `init` 348-399 | `Outcome` in the code's order: key, InitConnect, retType, s2c, key and IV; `PacketEncAlgo` is what the client asks for (354), `reads` in `opend` which wishes OpenD grants |
| `Request` | `encode_body` 401-428, 285-301 | without an IV it fails before writing and breaks nothing |
| `Ping`, `Answered`, `AnswerLost`, `Tick` | 234-267, 304-307, 391-392 | an interval is the period *and* the time of an answer; any error breaks, also one while it waits for the answer of an OpenD that is gone |
| `Restart` | outside | the connection is gone with the old settings |

**AuthRecovery** has a call for each of `Assistants`: `pc` goes from `"idle"` through
`"write"` and `"read"` to `"status"` (opend_cmd.rs 57-86, then server.rs 1577-1593). `line` is
the command line on its Telnet connection, `said` what OpenD has replied on it, `stray` the
lines of calls that ended before OpenD took them, which it may still carry out. `answer`
is what the tool returned, and its field `obeyed` is a history variable:
whether OpenD had carried the command out when it was asked for its status. An assistant does what the last
answer recommends (`plan <- Recommended`), else it calls `get_auth_status`. OpenD's login is
external: `LoginStep`, `ServerLogin`, `LoginMishap`, `Carry`.

| action | code | |
|---|---|---|
| `Begin` | server.rs 110-176 | which tool, and whether what it passes is right |
| `Write`, `WriteFails` | opend_cmd.rs 57-70 | a failing write may have got the line through |
| `Read`, `ReadFails` | 73-77 | as many chunks as there are |
| `Silence`, `EndOfStream` | 75, 78 | the read timeout and the end of the stream end the reply alike |
| `Sample`, `SampleUnsaid`, `SampleFails` | server.rs 1577-1630 | the answer carries a status, says there is none, or an error |

**TradeTools** is mostly functions, one per function of server.rs: `BuildSecurity`,
`SplitTradeCode`, `QotMarket`, `SecMarket`, `BuildFilterConditions`, ... and one per tool,
from its parameters to a request or `Invalid`. A symbol is the sequence of its parts between
dots. The state is OpenD's side: `book`, the orders, and `heard`, how many OpenD's cache
has. `Place`, `Modify` and `List` are the tools
that change it; OpenD's reading of a request (`Traded`, `Matches`, `Targets`) is
external, and `Targets` has a choice where the `.proto` files leave one.

## 3. What TLC checks

| run | instance | shows |
|---|---|---|
| `orders` | 1 query + 1 command, 2 connections, ok, unsure and garbled | `OrdersKept` (refinement of `Orders`), `AtMostOnce`, `ReplyMatchesRequest`, and `CommandInv`, the invariants its proof rests on |
| `queries` | 2 queries, 2 connections, ok and garbled | `OneCurrentSession`, `NoSpuriousReconnect`, `BrokenMeansLost`, and `ClientInv` |
| `live` | 1 query, 2 connections and their keep-alives, fair | `CallReturns` through a retry; `DeadPeerDetected` with nobody calling |
| `live_shared` | 1 query + 1 command, 1 connection, notifications, fair | `CallReturns` when calls queue for slot and stream and connects fail; `MismatchHeals`; `AtMostOnce` and `BrokenMeansLost` when answers go astray |
| `serials` | 2 commands, 2 keep-alives, counter of 7 | `SerialsDistinct`, `PacketIdsDistinct`, and `SerialInv` |
| `subscriptions` | 1 subscribe with 1 unsubscribe of another type or a call without codes, then 1 quote; 2 connections | `SubscriptionLives`, `RefusedMeansReplaced`: only a reconnect loses a subscription; and `SubscriptionInv` |
| `handshake` | 3 intervals, answers within 1 s, 2 restarts, fair | `NeverIdledOut`, `PingsApart`; `KeylessEnds`, `Served` |
| `recovery` | 2 assistants, replies of 2 chunks, 2 mishaps, fair | `OutputMeansObeyed`, `CarriedOutOnce`, and `RecoveryInv`; `CallEnds`, `Recovers` |
| `tools` | 8 symbols, 4 names of markets, 3 adjust pairs, 1 order | `QuotedIsTraded`, `CheckedIsTraded`, `PlacedIsListed`, and `BookInv` |
| `stale_session` | 2 queries | **violated** `OnlyStaleSessionsClosed`, finding 1 |
| `push_mismatch` | 2 queries, notifications | **violated** `ReplyMatchesRequest`, finding 2 |
| `lost_subscription` | as `subscriptions` | **violated** `QuoteAfterSubscribe`, finding 3 |

The passing runs have a few hundred states (`tools`, whose invariants range over all parameters
in every state) to 1.6 million.

*Bounds.* `Conns` bounds how many connections are ever opened, two in most runs: the
interesting races are between one session and its replacement, and with
the second one lost too the calls fail as they would with more. Two calls and two keep-alive
loops are four actors on the slot and the streams, enough for every pair of
steps; a third call adds another waiter. `MaxInbox` guards `Push` alone; one
unread notification suffices to put a stream out of step, and the answers that
follow are not bounded. `SerialMod` is 1 where serials play no part; in `serials`
it is 7, so that the counter, which starts at 2, wraps after five draws, and
`wrapped` ends what is followed at the wrap. Outside `MaxInbox`, `SerialMod` and
the sets there is no bound: retries, requests in flight and effects are counted by
nothing. `ConnectFails` needs no connection, so calls end when `Conns` is used up.

In `orders`, OpenD does not give the verdict "refused": the client treats it as "unsure",
which may be without effect as well, so that it would add states and no behaviour of the client.

In `subscriptions` three calls are there, but the quote waits for the other two;
OpenD takes every change of the subscriptions, since a refused one promises nothing.

In `handshake`, `Latency` bounds the time of an answer in seconds and `MaxRestarts` how often
OpenD comes back with other settings, so that a client may meet three of them; the intervals are one that
makes no sense and is taken for the shortest, the shortest that leaves a second for an answer,
and one that `Period` does not divide evenly. `MaxMishaps` bounds, in
`AuthRecovery`, what goes wrong of all kinds: a failed or challenged login, a forced logout,
a wrong code, a failed call, a reply cut short, a status not reported. `Chunks` is 2, so that silence
and the end of the stream can fall between the chunks. In `TradeTools` one order is enough, since each
property speaks of one order at a time and there is always an id that no order has (`Ids`); the
invariants compare the order with *every* parameter
combination. The symbols hold two prefixes of one market, one code in two markets, a raw code, a
code with a dot and a prefix that is none, the names those that some enum tables have and others do not.

*Symmetry* permutes connections, and tasks that are alike, in the safety runs only; no
definition orders them.

*Fairness* (`Fairness` in `MoomooClient`). Strong fairness of each task and each
keep-alive loop: tokio polls what is ready, and its mutexes are FIFO queues, so an
actor for whom a lock becomes free again and again gets it, which weak fairness
would not give. Weak fairness of `Serve`: OpenD answers what it received. None for
`Push` and `Drop`, and none between `ConnectOk` and `ConnectFails`. That of `Serve` is the
assumption with teeth: `roundtrip` has no timeout, so an OpenD that stays
silent on a living connection, or a network that drops packets without ever
resetting it, holds the stream lock and every later call for ever. `CallReturns`
says there is no other way to hang.

In `Handshake`, weak fairness of the caller, which goes on asking (`Served` is about one
that does), of the keep-alive loop and of time; none of `Restart`. In `AuthRecovery`, weak fairness of
each assistant's call, whose read timeout fires and whose connects and queries end, of OpenD
reading and answering each line, and of its login steps; none of mishaps, which may always happen
until they are used up. Without OpenD's login steps no tool can recover it; `CallEnds` does not need
them, but it does need a reply that is finite: the read timeout starts anew
with every chunk (opend_cmd.rs 74).

### Findings

1. *A slow query closes a healthy session* (`stale_session`). Two queries fail
   on one lost connection. The first invalidates it and reconnects. The
   second's `invalidate_session` (154-159) closes what it finds in the slot: the
   session the first has just opened, a command of somebody else perhaps already
   holding it. The warning at 100 speaks of a "stale session"; this one was
   not. Harmless for correctness (`OneCurrentSession`, `OrdersKept` hold), it costs
   a connection and may fail a command as "session is closed".
2. *Answers go to the wrong caller once OpenD pushes* (`push_mismatch`).
   `roundtrip` reads a notification as its answer, fails, and leaves the real answer
   in the stream of a session that stays current; the next call of the same tool
   takes it, for another account perhaps. Notifications come with
   `MOOMOO_RECV_NOTIFY=true` or `register_push`. Checking `serial_no`, which
   `decode_header` already returns, would prevent it. Without notifications the
   property holds, and is proved; with them the keep-alive ends the confusion in
   the end (`MismatchHeals`), by breaking the session.
3. *A subscription does not survive a reconnect* (`lost_subscription`).
   `subscribe_quotes` says that `get_basic_quote` "can be called afterward"
   (server.rs:274). After a loss `query` reconnects silently, the new connection has no
   subscriptions, and the quote is refused. `RefusedMeansReplaced` says that this is
   the only way to it, and that the session with the subscription is closed then.

### Observations

Disagreements between code and text met while modelling, which one call shows or which do
little harm. No run is spent on them.

* *Serial numbers are not increasing on the wire*, as `src/proto/Common.proto:31` says they
  are: `prepare_command` (117) draws one long before the stream is locked. Nor are they
  distinct altogether: `InitConnect` is packet 1 of every connection (365). No number of the
  counter, which starts at 2, is used twice (`SerialsDistinct`).
* *An API error does not say whether an order lives.* `ensure_success` (server.rs:1525) gives
  the caller `retMsg`, or the `retType` if that is empty, for a request that failed and
  alike for one that timed out or is of unknown outcome (`src/proto/Common.proto:10-15`;
  -400 is the default at `src/proto/Trd_PlaceOrder.proto:47`). Whoever repeats an order after any
  API error may have it twice. `Orders` therefore promises nothing after one.
* *Nor does an I/O error say where it was.* One in connecting, when nothing was sent, and one
  while the answer is awaited reach the caller as the same kind (opend.rs 44-61), so that he cannot tell the
  first from the second, though only the first rules the order out.
* *The quantity is checked for another price than the order's.*
  `get_max_trade_qtys` derives `adjust_price` from `adjust_side_and_limit` (server.rs 605, 1365), `place_order`
  and `modify_order` do not (882, 970), nor do they refuse what `validate_adjust_price_pair`
  refuses. `proto/Trd_GetMaxTrdQtys.proto:16` has the two options to keep the prices in step.
* *A raw code with a dot is refused.* "Raw codes are accepted if
  sec_market is provided" (server.rs:1285), but `split_trade_code` reads BRK.B as a code of a market BRK.
  `PlacedIsListed` and `QuotedIsTraded` are about codes that are qualified, with or without
  a dot of their own.
* *A modification may name two orders.* `proto/Trd_ModifyOrder.proto:28` wants one
  of the two ids; `modify_order` passes both, although `get_max_trade_qtys` refuses the
  same pair (server.rs:1341). With `for_all` it passes an id that was given, where
  `proto/Trd_ModifyOrder.proto:13` wants 0. Which orders these reach is OpenD's choice (`Targets`);
  with `for_all` and no market it is those of every market.

## 4. What is proved

Every safety invariant that a passing run checks, `TypeOK` included, and the refinement of
`Orders`, is a theorem that TLAPS checks for every value of the
constants. A theorem under "no `Pushes`" is about clients OpenD sends no notifications to,
as by default (config.rs 40) while no subscription registers for pushes; with notifications
`ReplyMatchesRequest` is false (finding 2), and what rests on it is not claimed.

| theorem | statement | argument |
|---|---|---|
| **`MoomooClientProofs`** | | |
| `TypeCorrect` | `Spec => []TypeOK` | one lemma per component |
| `OneSession` | `Spec => []OneCurrentSession` | `SlotInv` |
| `RepliesMatch` | no `Pushes`: `Spec => []ReplyMatchesRequest` | `FreshInv`, `LockInv`, `StreamInv` |
| **`CommandProofs`** | | |
| `CommandsOnce` | `Spec => []AtMostOnce` | `FreshInv`, `KindInv`, `OnceInv` |
| `CommandInvariant` | `Spec => []CommandInv` | these, `AnswerInv`, `ToldInv` |
| `OrdersPromise` | no `Pushes`: `Spec => OrdersKept` | the same, step by step |
| **`SessionProofs`** | | |
| `BrokenSessionsLost` | `Spec => []BrokenMeansLost` | `FreshInv`, `BreakInv` |
| `OneConnection` | `Spec => []NoSpuriousReconnect` | `SlotInv`, `CauseInv` |
| `ClientInvariant` | `Spec => []ClientInv` | all of these and `RetryInv` |
| **`SerialProofs`** | | |
| `SerialInvariant` | `WireSpec => []SerialInv` | with `FreshInv` and `KindInv` |
| `SerialsNeverRepeat` | `WireSpec => []SerialsDistinct` | `SerialInv` |
| `PacketIdsNeverShared` | `WireSpec => []PacketIdsDistinct` | `SerialInv` |
| **`SubscriptionProofs`** | | |
| `SubscriptionInvariant` | no `Pushes`: `SubSpec => []SubscriptionInv` | its parts, over `SlotInv` and `StreamInv` |
| `SubscriptionsLive` | no `Pushes`: `SubSpec => []SubscriptionLives` | `SubscriptionInv` |
| `OnlyReconnectsRefuse` | no `Pushes`: `SubSpec => []RefusedMeansReplaced` | `SubscriptionInv` |
| **`HandshakeProofs`** | | |
| `HeardInTime` | `Spec => []NeverIdledOut` | `IdleInv`, `PeriodFits` |
| **`AuthRecoveryProofs`** | | |
| `RecoveryInvariant` | `Spec => []RecoveryInv` | one lemma per part and step |
| `CommandsSentOnce`, `StatusAfterCommand` | `Spec => []CarriedOutOnce`, `[]OutputMeansObeyed` | `RecoveryInv` |
| **`TradeToolsProofs`** | | |
| `BookInvariant` | `Spec => []BookInv` | what each function of server.rs returns |
| `LookupsAgree`, `ChecksAgree`, `ListsAgree` | `Spec => []QuotedIsTraded`, `[]CheckedIsTraded`, `[]PlacedIsListed` | `BookInv`, `PrefixMarkets`: both prefix tables agree |

*Assumptions on the constants*, which TLC evaluates in the runs. `LinkAssumption`: calls,
commands and connections are disjoint, verdicts among the four. `SerialAssumption`: the counter has at
least one value, and in `WireSerials` more than the two it skips (`WideSerial`; the code has
2^32). `HandshakeAssumption`: intervals are integers, the latency a number. In `AuthRecovery`: replies have
a chunk at least, `MaxMishaps` is a number. In `TradeTools`: a code is a non-empty sequence of
parts (a string split at its dots), `Home` is a market, the adjust pairs are those `Option`s
can be. In both, that `None` and `Invalid` are not among the values they stand apart from. Of
`Proto` only its domain is assumed, of `Asks`, `Before`, `Names` and the number of anything
nothing.

None of the properties about behaviour is inductive by itself:

* `OneCurrentSession` says nothing of the moment a task is connecting. `SlotInv` adds that
  the slot is empty then, and that only the slot's owner connects.
* `ReplyMatchesRequest` holds because the lock does: `LockInv` says the lock of `c` is
  held exactly by the actor between `Send` and `Receive` on `c`, and `StreamInv` that
  without notifications at most one packet is in flight on `c` and it is that actor's.
  Leftover *requests* may remain on a lost connection, answers may not, and
  `FreshInv` keeps connections that are not open yet clear of all of this.
* `AtMostOnce` needs the one request of a command to be in one place: not written yet
  (`Unsent`), or in one stream in one position (`Once`, `Pending`), or carried
  out: `OnceInv`. That a command never gets back to `Unsent` is `KindInv` with
  `CommandMoves`, the list of moves a command can make. This is where "no retry"
  enters.
* `OrdersKept` needs more: an answer in the stream comes after all that its request does, and
  a success after the effect (`AnswerInv`); what the caller was told stays true: a success, and that a
  call was unsent (`ToldInv`). Nothing is assumed of other answers. Both rest on
  `EffectOnce`, that OpenD can carry out only what is pending, and `PendingMoves`,
  that only `Send` makes a command pending. `StepRefines` then maps the steps: the
  `Serve` that applies a command is `TakeEffect`, the step in which a command is
  `"done"` is `Tell`, everything else stutters.
* `BrokenMeansLost` lets a session be broken because its keep-alive has an error in hand, which a loop
  that went on would forget: `BreakInv` adds that it has ended. `Breaks` says there are only
  those two causes, `OneWay` that flags and losses are not undone.
* `NoSpuriousReconnect` is about what was opened; what is invariant is about what is
  closed. `CauseInv`: before a session broke nothing is closed, *and nobody is about to
  close anything*, since a query goes to `"invalidate"` only with a broken or closed session
  in hand (`Invalidates`). With `SlotInv`, what is opened and not closed is the slot.
* `RetryIsFresh` (in `RetryInv`) has a query come to its second attempt with a session
  other than its first, because `ensure_session` hands out none that is broken and a
  new connection has been nobody's yet (`FreshInv`).
* `SerialsDistinct` compares packets on the wire; between the draw of a number and its write
  any number of others may be drawn and written. `SerialInv` says that the counter
  is ahead of all numbers drawn, that no two actors hold one, and that the number of an actor
  that has yet to write is on no wire. It also says where 1 is: on each connection that was opened,
  first, once, and in nobody's hands, since the counter started past it.
* `SubscriptionLives` begins when the answer is read, what it promises when OpenD sent it.
  `OnTheWayInv` covers the time between: a confirmation in the stream is true *while its connection lives*, and a
  refusal never comes by the connection of a subscription made before. The order of the calls enters by `AwaitedInv`: a call
  that has a session has awaited the calls before it, and works on the same session as
  they did or theirs is closed, because the slot held the only open one when it asked.
  `AnsweredInv` keeps the session of a call that has its answer.
* `NeverIdledOut` bounds how long OpenD has waited; what is invariant is how long it has
  waited *and still will*: `IdleInv` bounds `idle + left` by a period and an answer's time while the
  loop sleeps, and by an answer's time while it waits. `PeriodFits` is the arithmetic: 0.8 of the
  interval and a fifth of it are not more than the interval.
* `OutputMeansObeyed` relates an answer to what OpenD did. `RecoveryInv` follows the line in between: before
  it is written nothing was carried out for this call, OpenD speaks only after it took the line, a
  call has no more output than was said and no status before it asks for one.
* The agreement of the tools is about functions, but an order outlives the call that placed it:
  `BookInv` says its security is still what its code and market name, after any
  modification. The rest is one lemma per function (`PrefixMarkets`, `Named` with a qualified
  code, the filters), for every code, not for the eight of the run.

The frame lemmas (`StepCases`, `SlotFrame`, `StreamFrame`, `OneTaskMoves`, `SessionKept`) say once
which steps leave which part of the state alone, so that the proof of an invariant
looks at the few actions that can disturb it. TLC checks the inductive invariants
(`ClientInv`, `CommandInv`, `SerialInv`, `SubscriptionInv`, `RecoveryInv`, `BookInv`) on the instances too; each has
a mutant that breaks it.

*Only model-checked*, because TLAPS has no rules here for fairness: the liveness properties `CallReturns`,
`DeadPeerDetected`, `MismatchHeals`, `PingsApart`, `KeylessEnds`, `Served`, `CallEnds` and
`Recovers`. The three violations are TLC's counterexamples.

## 5. What is not modelled

* Bytes: a packet arrives whole or is cut off. After a header without the `FT` flag
  the code leaves the body in the stream (308); the model has no such packet.
* Time, but in `Handshake`: elsewhere the keep-alive may wake and the read timeout pass at any
  moment. In `Handshake` the caller's requests take no time, a query is not repeated (that is
  `MoomooClient`'s), and an OpenD that cannot read `InitConnect` lets it fail rather than stay silent.
* Sessions without an IV in `MoomooClient`: there every call can be sent.
* Dead ends of OpenD's login that no tool can cure (an update due, data missing, a disclaimer not
  pulled). `describe_program_status` recommends no tool for them.
* `list_accounts`, `get_funds`, `unlock_trade`, `get_global_state` and `get_quote_subscriptions` beyond
  being tasks: their parameters are passed on, or parse or do not.
* The arithmetic of the ciphers, JSON, protobuf, logging, reading the environment, the enum tables that
  no property tells apart.
* Cancellation of a call: `rmcp` sends the handler a token nobody looks at.
* `serial_no` in answers: the code does not look at it.
* OpenD's quotas for subscriptions, and what `register_push` and the other fields of
  `Qot_Sub` change besides notifications.

## 6. Plan

1. **Proofs**: that `Handshake`'s `Connect` is `ConnectOk` or `ConnectFails` of `MoomooClient`; the steps behind
   the liveness properties that are safety (that a period is never zero, that a keyless session breaks at
   its first ping).
2. **`Handshake` inside `MoomooClient`**: sessions that cannot encrypt beside the retry of `query`.

Properties checked by the definitions' names are listed with their runs in
`PROJECT.json`, which also maps every definition to its lines of code and holds, for
each property, a plausible bug (a *mutant*, defined next to the code it
changes) that violates it.
