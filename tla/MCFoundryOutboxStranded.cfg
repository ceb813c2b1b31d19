CONSTANTS
    Workers = {w1,w2}
    Jobs = {j1}
    None = None
    Events = {e1}
    Artifacts = {a1}
    BatchSize = 2
    Attempts = 2
    ClaimLimit = 2
    FaultLimit = 1
SPECIFICATION Spec
INVARIANT RestartStrandsNothing
SYMMETRY Replicas
CHECK_DEADLOCK FALSE
