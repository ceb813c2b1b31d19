CONSTANTS
    Docs = {d1}
    Workers = {w1, w2}
    Owners = {w1, w2}
    WorkerId <- OwnNames
    Revisions = {r1}
    Tokens = {t1, t2, t3}
    None = None
    LeaseTicks = 1
    BackoffBase = 1
    BackoffCap = 1
    AttemptCap = 1
    Skew = 0
    CrashLimit = 0
SPECIFICATION Spec
PROPERTY StaleOwnerNeverPublishes
