\* Two commands and the keep-alives draw five numbers before the wrap.
SPECIFICATION WireSpec
CONSTANTS
    None = None
    Conns = {c1, c2}
    Queries = {}
    Commands = {o1, o2}
    Proto <- MCProto
    Verdicts = {"ok"}
    Pushes = FALSE
    MaxInbox = 1
    SerialMod = 7
SYMMETRY Symmetry
INVARIANTS
    SerialInv
    SerialsDistinct
    PacketIdsDistinct
