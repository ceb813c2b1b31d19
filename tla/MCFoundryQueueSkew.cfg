CONSTANTS
    Docs = {d1, d2}
    Workers = {w1, w2}
    Owners = {pod}
    WorkerId <- SharedName
    Revisions = {r1, r2}
    Tokens = {t1, t2}
    None = None
    LeaseTicks = 3
    BackoffBase = 1
    BackoffCap = 1
    AttemptCap = 1
    Skew = 1
    CrashLimit = 0
SPECIFICATION Spec
INVARIANT TokensIdentifyClaims
INVARIANT ClaimedPayloadFrozen
PROPERTY FencedMutation
SYMMETRY Symmetric
