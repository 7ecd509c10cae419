CONSTANTS
    Replica = {r1}
    t = t
    j = j
    edge = edge
    run = run
    h1 = h1
    h2 = h2
    b1 = b1
    b2 = b2
    b3 = b3
    b4 = b4
    b5 = b5
    NoHash = NoHash
    NoBatch = NoBatch
    Urn <- MCUrn
    Hash <- MCHash
    KindOf <- MCKindOf
    BatchId <- TornBatches
    Entities <- TornEntities
    Unservable = {}
    MaxFaults = 1

SPECIFICATION Spec
INVARIANT AnsweredIsProjected
