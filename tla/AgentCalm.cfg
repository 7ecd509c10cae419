CONSTANTS
    a = a
    b = b
    c = c
    s1 = s1
    s2 = s2
    h1 = h1
    h2 = h2
    NoHash = NoHash
    NoBatch = NoBatch
    Source = {s1}
    SourceOf <- OneSource
    Urn = {a, b}
    Hash = {h1, h2}
    Invalid = {}
    Rejected = {}
    BatchId = {1, 2, 3, 4}
    MaxBatch = 2
    MaxAttempts = 2
    MaxDrift = 3
    MaxFaults = 0
    MaxCrashes = 0

SPECIFICATION FairSpec
INVARIANT LiveIsWatched
PROPERTY GoneConverges
