CONSTANTS
    a = a
    b = b
    t1 = t1
    n1 = n1
    o1 = o1
    Peer = {a, b}
    RelayTree = {t1}
    OwnTree = {o1}
    InitialTree = {t1}
    Offers <- ChangingOffers
    Conn = {c1, c2}
    MaxTasks = 2
    TargetPaths = 3
    Self = Self
    ImmutableStorage = ImmutableStorage
    None = None
SPECIFICATION Spec
INVARIANTS TypeOK ConnServesTree LoneConnectionKept
PROPERTIES OwnTreesStay OnlyFixStrands
