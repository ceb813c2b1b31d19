CONSTANTS
    Workers = {w1, w2}
    SftTasks = {t1}
    RlTasks = {t2}
    None = None
    t1 = t1
    t2 = t2
    BenchmarkEvery = 2
    Families <- Others
    FaultLimit = 1
    Fates <- FatesOfTwo
    Ids = {n1, n2}
    GraphSpans = {span}
    Unknown = stray
    GraphPasses = 2
    MaxNodes = 2
    Patches <- PatchesOfTwo
    Designs = {d1, d2, d3, d4, d5}
    Resolved = {d1, d2, d3, d4}
    Worthwhile = {d1, d2, d3, d5}
    Checkable = {d2, d3, d5}
    Explanations = {d4}
    Family <- Families5
    Rank <- Ranks5
    FamilyLimit = 1
    PerPaper = 2
    AcceptedPerPaper = 2
    Requests = {"request"}
    MaxTurns = 3
    Nodes = {n1, n2}
    Relations <- Precedes
    Spans = {s1, s2}
    Invented = stray
    Values = {v1}
    Targets <- Targeted
    References <- GivenAnswers
    Proposals <- Drafts
    Replicas = {w1, w2}
    Logs <- LogsOfFour
    Identities = {"e1", "e2"}
    CrashLimit = 1
    ClaimLimit = 1
    QuotaWorkers = {w1, w2}
    Attempts = 2
    Estimates = {2}
    Usages = {0, 3}
    QuotaLimit <- Limits
    MinuteTicks = 2
    DayTicks = 4
    LeaseTicks = 1
    Horizon = 2
    CallLimit = 3
    QuotaFaults = 1
    d1 = d1
    d2 = d2
    d3 = d3
    d4 = d4
    d5 = d5
    n1 = n1
    n2 = n2
    span = span
    stray = stray
    s1 = s1
    s2 = s2
    v1 = v1
SPECIFICATION FoundrySpec
INVARIANT JobPaidOnce
INVARIANT JobIsBacked
INVARIANT AnswersAreChecked
INVARIANT RewardIsEarned
INVARIANT QueueFollowsLog
INVARIANT LedgerBalances
INVARIANT ChargesCover
SYMMETRY Interchangeable
CHECK_DEADLOCK FALSE
