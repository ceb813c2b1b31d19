CONSTANTS
    d1 = d1
    d2 = d2
    Docs = {d1, d2}
    Workers = {w1, w2}
    None = None
    Score <- Ranking
    DayTicks = 2
    Offset <- SameHour
    NotBefore = 2
    Horizon = 4
    ArrivalLimit = 3
    ManualLimit = 0
    FaultLimit = 1
SPECIFICATION Spec
INVARIANT TypeOK
INVARIANT CountedOnce
INVARIANT FreshOnly
PROPERTY FrozenCohort
SYMMETRY Replicas
