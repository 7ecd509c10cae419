CONSTANTS
    q1 = q1
    q2 = q2
    plain = plain
    narrow = narrow
    a1 = a1
    a2 = a2
    a3 = a3
    k1 = k1
    k2 = k2
    None = None
    Query = {q1}
    Filter = {plain, narrow}
    NoFilter = plain
    Asset = {a1, a2, a3}
    Connection = {k1, k2}
    MAX_ENTRIES = 2
    MaxCalls = 3
    MaxHistory = 3
    MaxMoves = 4

SPECIFICATION FairSpec
INVARIANTS TypeOK LoadingIsAwaited OnlyRetriesDrift ScrapeIsAwaited ViewedIsRemembered
PROPERTIES LoadingEnds
CHECK_DEADLOCK FALSE
