CONSTANTS
    Repos = {1, 2}
    Blobs = {b1, b2}
    Absent = Absent
    Pollers = {p1, p2}
    PageSize = 1
    TouchLimit = 2
    HubFaults = 1
    Duration = 2
    ClockLimit = 5
    LeaseVersions = 4
    Records = {"r1", "r2"}
    ResponseSize = 1
    DayLimit = 3
    OaiFaults = 1
    Entries = {"e1", "e2", "e3"}
    FeedVersions = 3
    FeedFaults = 2
    Papers = {d1}
    MaxRetries = 2
    DiscoverLimit = 2
    PathFaults = 1
    StatedRights = {"none", "closed"}
    Documents = {"x1", "x2"}
    CallLimit = 4
    DeathLimit = 2
    None = None
    d1 = d1
    d2 = d2
    t1 = t1
    t2 = t2
    j1 = j1
    j2 = j2
    s1 = s1
    s2 = s2
    Docs = {d1, d2}
    Workers = {w1}
    Owners = {w1}
    WorkerId <- OwnNames
    Revisions = {r1}
    Tokens = {k1, k2, k3}
    LeaseTicks = 2
    BackoffBase = 1
    BackoffCap = 2
    AttemptCap = 2
    Skew = 0
    CrashLimit = 1
SPECIFICATION PathSpec
PROPERTY RetriesConsumed
CHECK_DEADLOCK FALSE
