CONSTANTS
    p1 = p1
    p2 = p2
    p3 = p3
    p4 = p4
    d1 = d1
    d2 = d2
    d3 = d3
    d4 = d4
    a = a
    b = b
    k1 = k1
    k2 = k2
    l1 = l1
    l2 = l2
    None = None
    Docs = {d1, d2, d3, d4}
    Signatures = {a, b}
    Keys = {k1, l1, l2}
    KeysOf <- Buckets
    Similar <- Pairs
    Rank <- Hashes
    Payloads = {p1, p2, p3, p4}
    DocOf <- Addresses
    SigOf <- Texts
    FetchedAt <- Intake
    Hard = {p1}
    Incomplete = {p1}
    Good = {p2, p3, p4}
    Unscorable = {p4}
    Elsewhere <- Others
    MaxAge = 1
    BatchSize = 2
    LogLength = 2
    Horizon = 2
    CrashLimit = 0
SPECIFICATION Spec
CHECK_DEADLOCK FALSE
INVARIANT TrainableIsScored
