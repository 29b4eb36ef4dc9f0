\* Two queries fail on one lost connection.
SPECIFICATION Spec
CONSTANTS
    None = None
    Conns = {c1, c2}
    Queries = {q1, q2}
    Commands = {}
    Proto <- MCProto
    Verdicts = {"ok"}
    Pushes = FALSE
    MaxInbox = 0
    SerialMod = 1
PROPERTIES
    OnlyStaleSessionsClosed
