CONSTANTS
    Replica = {r1}
    t = t
    j = j
    edge = edge
    run = run
    h1 = h1
    h2 = h2
    b1 = b1
    b2 = b2
    b3 = b3
    b4 = b4
    b5 = b5
    NoHash = NoHash
    NoBatch = NoBatch
    Urn <- MCUrn
    Hash <- MCHash
    KindOf <- MCKindOf
    BatchId <- LifeBatches
    Entities <- LifeEntities
    Unservable <- LifeUnservable
    MaxFaults = 2

SPECIFICATION FairSpec
INVARIANTS TypeOK Agreement TombstonePropagated EventsOncePerFault AnsweredIsProcessed LiveHasRow
PROPERTIES RowsAreCatalog RequestsEnd
