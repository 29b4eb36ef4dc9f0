\* A subscription while another one is taken back, and a quote after both.
SPECIFICATION SubSpec
CONSTANTS
    None = None
    q1 = q1
    q2 = q2
    q3 = q3
    Conns = {c1, c2}
    Queries = {q1, q2, q3}
    Commands = {}
    Proto <- MCProto
    Asks <- MCAsks
    Before <- MCBefore
    Verdicts = {"ok", "refused"}
    Pushes = FALSE
    MaxInbox = 0
    SerialMod = 1
SYMMETRY Symmetry
INVARIANTS
    SubscriptionLives
    RefusedMeansReplaced
    SubscriptionInv
