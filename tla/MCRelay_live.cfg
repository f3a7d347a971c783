CONSTANTS
    Base = 4
    KeySize = 2
    p = p
    a = a
    b = b
    m1 = m1
    Msg = {m1}
    MinCovers = 0
    Node = {p, a, b}
    Proxy = p
    Conn = {1, 2, 3}
    Exchange <- LastKeyShort
    MayReturn = {}
    AsksInVain = {b}
    MaxBusy = 1
    MaxCovers = 1
    MayRestart = {}
    ImmutableStorage = ImmutableStorage
    None = None
SPECIFICATION FairSpec
PROPERTIES RelayEnds StoredIfIntact ShortKeyPathGoes AbandonedCoverLeaves
CHECK_DEADLOCK FALSE
