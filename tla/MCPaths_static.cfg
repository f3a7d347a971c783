CONSTANTS
    a = a
    b = b
    t1 = t1
    n1 = n1
    o1 = o1
    Peer = {a, b}
    RelayTree = {t1, n1}
    OwnTree = {o1}
    InitialTree = {t1}
    Offers <- StaticOffers
    Conn = {c1, c2}
    MaxTasks = 1
    TargetPaths = 3
    Self = Self
    ImmutableStorage = ImmutableStorage
    None = None
SPECIFICATION FairSpec
INVARIANT NextMatchesConn
PROPERTIES ImplementsPathTable BrokenPathGoes
