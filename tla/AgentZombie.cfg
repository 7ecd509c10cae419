CONSTANTS
    a = a
    b = b
    c = c
    s1 = s1
    s2 = s2
    h1 = h1
    h2 = h2
    NoHash = NoHash
    NoBatch = NoBatch
    Source = {s1}
    SourceOf <- Single
    Urn = {a}
    Hash = {h1}
    Invalid = {}
    Rejected = {}
    BatchId = {1, 2, 3, 4}
    MaxBatch = 2
    MaxAttempts = 2
    MaxDrift = 1
    MaxFaults = 2
    MaxCrashes = 0

SPECIFICATION Spec
INVARIANT LiveIsWatched
