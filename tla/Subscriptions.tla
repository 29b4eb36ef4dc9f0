----------------------------- MODULE Subscriptions -----------------------------
(***************************************************************************)
(* The quote tools of src/src/server.rs over MoomooClient: subscribe,      *)
(* unsubscribe, and get_basic_quote, which OpenD answers only where there  *)
(* is a BASIC subscription.  The server remembers no subscription: OpenD   *)
(* does, per connection, and forgets it with the connection, while query   *)
(* reconnects without telling anybody.                                     *)
(***************************************************************************)
EXTENDS MoomooClient

CONSTANTS
    Asks,       \* Asks[t]: the parameters call t may be made with
    Before      \* Before[t]: the calls whose results the caller of t awaited

VARIABLES
    ask,        \* ask[t]: its parameters
    subs        \* subs[c]: the <<code, sub type>> pairs OpenD holds for c

subVars == <<vars, ask, subs>>

SubInit ==
    /\ Init
    /\ ask \in {f \in [Queries -> UNION {Asks[t] : t \in Queries}] :
                    \A t \in Queries : f[t] \in Asks[t]}
    /\ subs = [c \in Conns |-> {}]

-----------------------------------------------------------------------------
\* The tools

\* Mutant: an empty list is passed on.
BuildSubTypesLiteral(types) == IF types = None THEN {"BASIC"} ELSE types

\* Omitted or empty, the list means BASIC.
BuildSubTypes(types) == IF types \in {None, {}} THEN {"BASIC"} ELSE types

\* What set_quote_subscription asks of OpenD.
Topics(t) == ask[t].codes \X BuildSubTypes(ask[t].sub_types)

\* What get_basic_quote needs.
Needs(t) == ask[t].codes \X {"BASIC"}

\* A call without codes ends before it asks for a session.
RejectEmpty(t) ==
    /\ pc[t] = "ensure" /\ first[t] = None
    /\ ask[t].codes = {}
    /\ pc' = [pc EXCEPT ![t] = "done"]
    /\ reply' = [reply EXCEPT ![t] = "invalid"]
    /\ UNCHANGED <<linkVars, broken, closed, lock, serial, sess, mine, got, clientVars>>

\* The call is not made yet, or does not get as far as query.
Held(t) == ask[t].codes = {} \/ \E s \in Before[t] : pc[s] # "done"

-----------------------------------------------------------------------------
\* OpenD

\* This step serves the first request of c.
Served(c) == conn'[c] = conn[c] /\ Len(outbox'[c]) < Len(outbox[c])
Applied(c) == Served(c) /\ Head(outbox[c]) \in Queries
                        /\ executed'[Head(outbox[c])] # executed[Head(outbox[c])]

\* It gives quotes for what is subscribed on the same connection, and takes
\* every change of the subscriptions: quotas are left out.
QuotesAsSubscribed(c) ==
    LET t == Head(outbox[c]) IN
    Served(c) /\ t \in Queries =>
        (Applied(c) <=> (ask[t].op = "quote" => Needs(t) \subseteq subs[c]))

\* It keeps subscriptions for as long as the connection lives.
Subscribed(c) ==
    LET t == Head(outbox[c]) IN
    IF conn'[c] # "up" THEN {}
    ELSE IF ~Applied(c) THEN subs[c]
    ELSE IF ask[t].op = "subscribe" THEN subs[c] \cup Topics(t)
    ELSE IF ask[t].op = "unsubscribe" THEN subs[c] \ Topics(t)
    ELSE subs[c]

SubNext ==
    /\ \/ Next /\ \A t \in Queries : Held(t) => pc'[t] = pc[t]
       \/ \E t \in Queries : RejectEmpty(t)
    /\ \A c \in Conns : QuotesAsSubscribed(c)
    /\ subs' = [c \in Conns |-> Subscribed(c)]
    /\ UNCHANGED ask

SubSpec == SubInit /\ [][SubNext]_subVars

-----------------------------------------------------------------------------
\* Properties

\* s asks for BASIC, by name or by default, and nobody takes that back.
KeepsBasic(s) ==
    /\ ask[s].op = "subscribe"
    /\ ask[s].sub_types \in {None, {}} \/ "BASIC" \in ask[s].sub_types
    /\ \A u \in Queries :
        ask[u].op = "unsubscribe" /\ Needs(s) \cap Topics(u) # {} => executed[u] = 0

\* s subscribed to BASIC, and was told so.
HasBasic(s) == KeepsBasic(s) /\ reply[s] = "ok"

\* g asks for quotes of what s subscribed to, and its caller knew of that.
QuotesAfter(g, s) ==
    /\ s \in Before[g]
    /\ ask[g].op = "quote" /\ ask[g].codes \subseteq ask[s].codes

\* A subscription reported to its caller stays with OpenD for as long as the
\* connection it was made on, whatever other calls do to the session.
SubscriptionLives ==
    \A s \in Queries :
        HasBasic(s) /\ conn[sess[s]] = "up" => Needs(s) \subseteq subs[sess[s]]

\* Only a reconnect takes a subscription away: a quote refused after it was
\* asked of another session, and the one with the subscription is given up.
RefusedMeansReplaced ==
    \A s, g \in Queries :
        HasBasic(s) /\ QuotesAfter(g, s) /\ reply[g] = "refused"
        => closed[sess[s]] /\ sess[g] # sess[s]

\* "If sub_types is omitted, BASIC is used so get_basic_quote can be called
\* afterward" (server.rs:274).
QuoteAfterSubscribe ==
    \A s, g \in Queries : HasBasic(s) /\ QuotesAfter(g, s) => reply[g] # "refused"

-----------------------------------------------------------------------------
\* What the proofs of SubscriptionLives and RefusedMeansReplaced rest on

\* An answer of OpenD's is the end of an exchange with some session.
AnsweredInv ==
    \A t \in Queries : reply[t] \in {"ok", "refused"} =>
        pc[t] \in {"returned", "done"} /\ sess[t] \in Conns

\* Who has a session has awaited the calls before it.  It works on the
\* session of such a call, or that session is closed.
AwaitedInv ==
    \A g, s \in Queries : s \in Before[g] /\ sess[g] \in Conns =>
        /\ pc[s] = "done"
        /\ sess[s] \in Conns /\ sess[s] # sess[g] => closed[sess[s]]

\* The answers on their way tell the truth: what one confirms is subscribed
\* on its connection, and one that refuses a quote comes by another.
OnTheWayInv ==
    \A c \in Conns, s \in Queries : \A i \in 1..Len(inbox[c]) :
        /\ KeepsBasic(s) /\ conn[c] = "up" /\ inbox[c][i] = [to |-> s, verdict |-> "ok"]
           => Needs(s) \subseteq subs[c]
        /\ \A g \in Queries :
            HasBasic(s) /\ QuotesAfter(g, s) /\ inbox[c][i] = [to |-> g, verdict |-> "refused"]
            => sess[s] # c

SubscriptionInv ==
    AnsweredInv /\ AwaitedInv /\ OnTheWayInv /\ SubscriptionLives /\ RefusedMeansReplaced
=============================================================================
