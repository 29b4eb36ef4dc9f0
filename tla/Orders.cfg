\* A query and a command share the slot.  A refusal would be an "unsure" answer without
\* effect under another name: the client makes the same of both.
SPECIFICATION Spec
CONSTANTS
    None = None
    Conns = {c1, c2}
    Queries = {q1}
    Commands = {o1}
    Proto <- MCProto
    Verdicts = {"ok", "unsure", "garbled"}
    Pushes = FALSE
    MaxInbox = 0
    SerialMod = 1
SYMMETRY Symmetry
INVARIANTS
    TypeOK
    AtMostOnce
    ReplyMatchesRequest
    CommandInv
PROPERTIES
    OrdersKept
