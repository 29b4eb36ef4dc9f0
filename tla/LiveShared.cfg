\* A query and a command share one connection on which OpenD also pushes.
SPECIFICATION FairSpec
CONSTANTS
    None = None
    Conns = {c1}
    Queries = {q1}
    Commands = {o1}
    Proto <- MCProto
    Verdicts = {"ok", "garbled"}
    Pushes = TRUE
    MaxInbox = 1
    SerialMod = 1
INVARIANTS
    AtMostOnce
    BrokenMeansLost
PROPERTIES
    CallReturns
    MismatchHeals
