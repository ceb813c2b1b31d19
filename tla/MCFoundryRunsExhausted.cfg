CONSTANTS
    d1 = d1
    d2 = d2
    Docs = {d1}
    Workers = {w1, w2}
    None = None
    Score <- Ranking
    DayTicks = 2
    Offset <- SameHour
    NotBefore = 2
    Horizon = 3
    ArrivalLimit = 1
    ManualLimit = 0
    FaultLimit = 1
SPECIFICATION Spec
PROPERTY CompletedRunIsExhausted
