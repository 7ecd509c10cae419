CONSTANTS
    a = a
    b = b
    c = c
    s1 = s1
    s2 = s2
    h1 = h1
    h2 = h2
    NoHash = NoHash
    NoBatch = NoBatch
    Source = {s1, s2}
    SourceOf <- TwoSources
    Urn = {a, b, c}
    Hash = {h1}
    Invalid = {c}
    Rejected = {b}
    BatchId = {1, 2, 3, 4}
    MaxBatch = 2
    MaxAttempts = 2
    MaxDrift = 1
    MaxFaults = 2
    MaxCrashes = 1

SPECIFICATION FairSpec
INVARIANTS TypeOK NothingLost
PROPERTIES CyclesEnd QueueDrains PresentConverges
