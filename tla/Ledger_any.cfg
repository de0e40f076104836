SPECIFICATION Spec
CONSTANTS
    s1 = s1
    s2 = s2
    SubIds = {s1, s2}
    i1 = i1
    Investors = {i1}
    LastDay = 5
    TradingDays = {1, 2, 4, 5}
    Amounts = {2}
    ShareCounts = {2}
    Navs = {2, 4}
    Scale = 2
    DeleteAnyDay = TRUE
    RecalcAnyStart = TRUE
SYMMETRY MCSymmetry
INVARIANTS
    TypeOK
    CashLegPaired
    StartedAtIsFirstArrival
    PricedByStoredSnapshot
