\* One query that may be retried on a second connection, and the two keep-alives.
SPECIFICATION FairSpec
CONSTANTS
    None = None
    Conns = {c1, c2}
    Queries = {q1}
    Commands = {}
    Proto <- MCProto
    Verdicts = {"ok", "garbled"}
    Pushes = FALSE
    MaxInbox = 0
    SerialMod = 1
PROPERTIES
    CallReturns
    DeadPeerDetected
