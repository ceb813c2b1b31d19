CONSTANTS
    d1 = d1
    d2 = d2
    Docs = {d1}
    Workers = {w1, w2}
    None = None
    Score <- Ranking
    DayTicks = 2
    Offset <- SameHour
    NotBefore = 0
    Horizon = 1
    ArrivalLimit = 2
    ManualLimit = 1
    FaultLimit = 1
SPECIFICATION FairSpec
PROPERTY RunsEnd
