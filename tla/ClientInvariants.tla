--------------------------- MODULE ClientInvariants ---------------------------
(***************************************************************************)
(* The inductive invariants behind the safety properties of MoomooClient.  *)
(* TLC checks them as invariants, MoomooClientProofs proves them; each is  *)
(* a part of the argument that the properties alone are too weak for.      *)
(***************************************************************************)
EXTENDS MoomooClient, SequencesExt

\* The slot mutex: only its owner connects, and while it does the slot is
\* empty.  Only sessions that were opened are closed.
SlotInv ==
    /\ \A t \in Tasks : pc[t] = "connect" <=> slotOwner = t
    /\ slotOwner # None => slot = None
    /\ \A c \in Conns : closed[c] => Opened(c)
    /\ OneCurrentSession

\* What is not open yet is untouched.
FreshInv ==
    \A c \in Conns : ~Opened(c) =>
        /\ ~broken[c] /\ ~closed[c]
        /\ pc[c] = "off"
        /\ outbox[c] = <<>> /\ inbox[c] = <<>>
        /\ slot # c
        /\ \A t \in Tasks : sess[t] # c /\ first[t] # c

\* Queries and commands keep to their own steps: nothing retries a command.
KindInv ==
    /\ \A t \in Commands : first[t] = None /\ pc[t] \notin {"call", "invalidate"}
    /\ \A t \in Queries : pc[t] \notin {"prepare", "prepared"}

\* The bookkeeping of the one retry: what a query gave up was broken, and it
\* goes on with another session.
RetryInv ==
    /\ \A t \in Tasks : first[t] # None => first[t] \in Conns /\ IsBroken(first[t])
    /\ \A t \in Tasks : pc[t] = "invalidate" => first[t] # None
    /\ RetryIsFresh

\* A keep-alive that broke its session has ended and keeps its error.
BreakInv ==
    \A c \in Conns : broken[c] =>
        conn[c] = "down" \/ (reply[c] \in Error /\ pc[c] = "ended")

\* Nothing is closed and nobody is about to close before something broke.
CauseInv ==
    (\E c \in Conns : closed[c]) \/ (\E t \in Tasks : pc[t] = "invalidate")
        => \E c \in Conns : broken[c]

\* The stream lock is held exactly from the write of a request to the read of
\* its answer.
LockInv ==
    \A c \in Conns, a \in Actors : lock[c] = a <=> pc[a] = "recv" /\ sess[a] = c

\* Without notifications, all that is in flight on a connection is one packet
\* of the lock's holder, its request or its answer.  On a lost connection an
\* old request may be left over, but never an answer.
StreamInv ==
    ~Pushes =>
        \A c \in Conns :
            /\ Len(inbox[c]) <= 1
            /\ lock[c] = None => Len(inbox[c]) = 0
            /\ \A i \in 1..Len(inbox[c]) : inbox[c][i].to = lock[c]
            /\ conn[c] # "down" =>
                /\ Len(outbox[c]) + Len(inbox[c]) <= 1
                /\ lock[c] = None => Len(outbox[c]) = 0
                /\ \A i \in 1..Len(outbox[c]) : outbox[c][i] = lock[c]

\* x has one place in s at most.
Once(s, x) == \A i, j \in 1..Len(s) : s[i] = x /\ s[j] = x => i = j

\* The request of a command was not written yet.
Unsent(t) == pc[t] \in {"ensure", "connect", "prepare", "prepared", "wait"}

\* OpenD is still going to serve a request of t.
Pending(t) == \E c \in Conns : Contains(outbox[c], t)

\* The one request of a command is unsent, pending or served.
OnceInv ==
    \A t \in Commands :
        /\ executed[t] \in {0, 1}
        /\ Pending(t) => executed[t] = 0
        /\ Unsent(t) => executed[t] = 0 /\ ~Pending(t)
        /\ \A c \in Conns : Once(outbox[c], t)
        /\ \A c, d \in Conns : Contains(outbox[c], t) /\ Contains(outbox[d], t) => c = d

\* An answer comes after all that its request does: a success after the effect.
AnswerInv ==
    \A t \in Commands, c \in Conns : \A i \in 1..Len(inbox[c]) : inbox[c][i].to = t =>
        /\ ~Unsent(t) /\ ~Pending(t)
        /\ inbox[c][i].verdict = "ok" => executed[t] = 1

\* What the caller of a command is told stays true, as long as answers reach their callers:
\* only an error from before the write says that there is and will be no effect.
ToldInv ==
    ~Pushes =>
        \A t \in Commands : pc[t] \in {"returned", "done"} =>
            /\ reply[t] \in {"ok", "refused", "unsure"} \cup Error \cup TaskReply
            /\ reply[t] = "ok" => executed[t] = 1
            /\ reply[t] \in {"closed"} \cup TaskReply => executed[t] = 0 /\ ~Pending(t)

\* What the proofs of the properties about commands rest on, given TypeOK.
CommandInv == KindInv /\ OnceInv /\ AnswerInv /\ ToldInv

\* What the proofs about sessions and streams rest on, given TypeOK.
ClientInv ==
    /\ SlotInv /\ FreshInv /\ KindInv /\ RetryInv /\ BreakInv /\ CauseInv
    /\ LockInv /\ StreamInv
=============================================================================
