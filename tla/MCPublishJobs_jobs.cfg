CONSTANTS
    Cover = {v1, v2}
    Path = {p1}
    Job = {j1, j2}
    MinCovers = 2
    None = None
SPECIFICATION FairSpec
INVARIANTS TypeOK CountsAreReal
PROPERTIES ImplementsBoard PublishReturns PendingIsDecided
