CONSTANTS
    a = a
    b = b
    w1 = w1
    Node = {a, b}
    Writer = {w1}
    NextHops <- EachOther
    Nobody = Nobody
SPECIFICATION FairSpec
INVARIANTS TypeOK NoLockLeaks NodeGoesOn
PROPERTIES RoundEnds WriterEnds HandlerEnds
