CONSTANTS
    Replica = {r1, r2}
    t = t
    j = j
    edge = edge
    run = run
    h1 = h1
    h2 = h2
    b1 = b1
    b2 = b2
    b3 = b3
    b4 = b4
    b5 = b5
    NoHash = NoHash
    NoBatch = NoBatch
    Urn <- MCUrn
    Hash <- MCHash
    KindOf <- MCKindOf
    BatchId <- RaceBatches
    Entities <- RaceEntities
    Unservable = {}
    MaxFaults = 1
    Known <- RaceKnown

SPECIFICATION RaceSpec
SYMMETRY Replicas
INVARIANTS OnlyContestedDrift
