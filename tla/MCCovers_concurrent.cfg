CONSTANTS
    Conn = {c1, c2, c3}
    IP = {i1, i2, i3}
    RelayTree = {}
    ProxyTree = {p1, p2, p3}
    MaxCovers = 1
    MaxHandlers = 2
    MaxOwnProxies = 1
    None = None
SPECIFICATION Spec
SYMMETRY Interchangeable
INVARIANTS RecordHasOwner RequestedProxyBound ServedHasRecord
PROPERTY ImplementsCoverTable
