\* A notification arrives between the calls of two tools.
SPECIFICATION Spec
CONSTANTS
    None = None
    Conns = {c1, c2}
    Queries = {q1, q2}
    Commands = {}
    Proto <- MCProto
    Verdicts = {"ok"}
    Pushes = TRUE
    MaxInbox = 1
    SerialMod = 1
INVARIANTS
    ReplyMatchesRequest
