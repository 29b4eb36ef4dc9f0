\* Two queries fail and reconnect beside each other.
SPECIFICATION Spec
CONSTANTS
    None = None
    Conns = {c1, c2}
    Queries = {q1, q2}
    Commands = {}
    Proto <- MCProto
    Verdicts = {"ok", "garbled"}
    Pushes = FALSE
    MaxInbox = 0
    SerialMod = 1
SYMMETRY QuerySymmetry
INVARIANTS
    BrokenMeansLost
    OneCurrentSession
    NoSpuriousReconnect
    ClientInv
