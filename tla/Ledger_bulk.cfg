SPECIFICATION Spec
CONSTANTS
    s1 = s1
    s2 = s2
    s3 = s3
    SubIds = {s1, s2, s3}
    i1 = i1
    i2 = i2
    Investors = {i1, i2}
    LastDay = 5
    TradingDays = {1, 2, 4, 5}
    Amounts = {2}
    ShareCounts = {2}
    Navs = {2, 4}
    Scale = 2
    DeleteAnyDay = FALSE
    RecalcAnyStart = FALSE
SYMMETRY MCSymmetry
INVARIANTS
    BookedExactlyOnce
    HoldingsFollowLedger
    PendingLiesAhead
    SnapshotsContiguous
PROPERTY
    RecalcReconfirms
