CONSTANTS
    Base = 4
    KeySize = 2
    p = p
    a = a
    b = b
    m1 = m1
    Msg = {m1}
    MinCovers = 0
    Node = {p, a, b}
    Proxy = p
    Conn = {1, 2, 3}
    Exchange <- FullKeys
    MayReturn = {p}
    AsksInVain = {}
    MaxBusy = 2
    MaxCovers = 2
    MayRestart = {p}
    ImmutableStorage = ImmutableStorage
    None = None
SYMMETRY Leaves
CONSTRAINT Unsettled
SPECIFICATION Spec
INVARIANTS TypeOK TreeUnlessRejoined SingleCopy NothingIgnored
PROPERTIES ImplementsDelivery HopsDescend IntactLosesNothing 
CHECK_DEADLOCK FALSE
