CONSTANTS
    t1 = t1
    t2 = t2
    u1 = u1
    u2 = u2
    s1 = s1
    s2 = s2
    None = None
    Tenant = {t1, t2}
    Urn = {u1, u2}
    Source = {s1, s2}
    Content <- Contents
    Requests <- Asked
    Action = {"view", "query"}
    Lookback = 1
    max_popularity_functions = 1
    MaxSteps = 3

SPECIFICATION Spec
SYMMETRY Alike
INVARIANTS TypeOK BoostKeepsResults FieldOrderKept
PROPERTIES PopularityStable
CHECK_DEADLOCK FALSE
