SPECIFICATION ListeningSpec
CONSTANTS
    Pass = {p1, p2}
    User = {u1, u2}
    new = new
    mid = mid
    old = old
    Catalog <- MCCatalog
    Artist <- MCArtist
    Published = {mid, old}
    Limit = 2
    MaxPlays = 2
    None = None
    Request = {r1, r2}
    CacheMax = 2
    Limits = {1, 2}
    TTL = 2
    MaxDelay = 1
SYMMETRY Symmetry
CONSTRAINT OneOrTheOther
INVARIANTS
    ListeningTypeOK
    OnePassUnlessOverrun
    OneListServesAll
    StalenessBounded
PROPERTIES
    NeverOlderData
    StoresBestRanking
