CONSTANTS
    a = a
    b = b
    c = c
    k1 = k1
    k2 = k2
    l1 = l1
    l2 = l2
    d1 = d1
    d2 = d2
    Docs = {d1, d2}
    Signatures = {a, b, c}
    Keys = {k1, k2, l1, l2}
    None = None
    KeysOf <- Buckets
    Similar <- Pairs
    Rank <- Hashes
    Workers = {w1, w2}
    LegacyTables <- NewAndMigrated
    Order <- Sorted
    FaultLimit = 2
SPECIFICATION FairSpec
INVARIANT ClustersApart
INVARIANT ReplayStaysUnique
PROPERTY ObservationsEnd
PROPERTY ImplementsDupIndex
