CONSTANTS
    t1 = t1
    t2 = t2
    a = a
    b = b
    c = c
    ab = ab
    bc = bc
    ac = ac
    ca = ca
    col = col
    job = job
    owner1 = owner1
    None = None
    Writer = {w1, w2}
    Tenant = {t1, t2}
    Urn <- TablesAndJob
    EdgeUrn <- MCEdgeUrn
    Owner <- MCOwner
    Record <- TenantRecords
    Asked <- Empty
    MaxWrites = 4

SPECIFICATION Spec
INVARIANTS TypeOK
PROPERTIES NoInterference
CHECK_DEADLOCK FALSE
