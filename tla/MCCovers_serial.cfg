CONSTANTS
    Conn = {c1, c2}
    IP = {i1, i2}
    RelayTree = {r1}
    ProxyTree = {p1, p2}
    MaxCovers = 1
    MaxHandlers = 1
    MaxOwnProxies = 1
    None = None
SPECIFICATION FairSpec
INVARIANT TypeOK
PROPERTIES DepartedIsReleased RequestIsDecided
