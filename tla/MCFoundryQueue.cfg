CONSTANTS
    Docs = {d1, d2}
    Workers = {w1, w2}
    Owners = {w1, w2}
    WorkerId <- OwnNames
    Revisions = {r1}
    Tokens = {t1, t2, t3}
    None = None
    LeaseTicks = 2
    BackoffBase = 1
    BackoffCap = 2
    AttemptCap = 2
    Skew = 0
    CrashLimit = 1
SPECIFICATION Spec
INVARIANT TypeOK
INVARIANT OneActivePaper
INVARIANT LostIsFinal
PROPERTY ImplementsCustody
SYMMETRY Symmetric
