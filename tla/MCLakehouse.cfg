CONSTANTS
    k1 = k1
    k2 = k2
    None = None
    Replicas = {w1, w2}
    Keys = {k1, k2}
    Logs <- Decisions
    BatchSize = 2
    FaultLimit = 1
    IndexLogs <- Sendings
    IndexBatch = 2
    IndexFaults = 1
    MinAge = 2
    Retention = 1
    MinimumToKeep = 2
    Versions = 1
    CommitDelay = 1
    AppendLimit = 2
    VersionLimit = 5
    ClockLimit = 4
    UpkeepFaults = 1
    Jobs = {j1}
    Artifacts = {a1}
    SinkBatch = 2
    Attempts = 2
    ClaimLimit = 2
    OutboxWorkers = {w1, w2}
    OutboxEvents = {e1}
    OutboxFaults = 1
    SinkWorkers = {"sole"}
    SinkEvents = {e1, e2}
    SinkFaults = 2
    Docs = {1, 2, 3}
    Times = {1, 2}
    Scores = {0, 1}
    PageSize = 1
    WriteLimit = 3
SPECIFICATION LakehouseSpec
SYMMETRY Interchangeable
INVARIANT RowsOnce
INVARIANT NothingStranded
INVARIANT ReadyIsComplete
INVARIANT NothingNeededIsRemoved
INVARIANT StableShownOnce
CHECK_DEADLOCK FALSE
