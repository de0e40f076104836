CONSTANTS
  p1 = p1
  Platforms = {p1, p2}
  Rebals = {r1}
  Transfers = {t1}
  LastDay = 4
  TradingDays = {1, 2, 4}
  ConfirmDays = 1
  Quantities = {1, 2}
  Cash1 = 2
  Shares1 = 1
  OpeningCash <- MCCash
  OpeningShares <- MCShares
SPECIFICATION Spec
SYMMETRY MCSymmetry
INVARIANTS TypeOK GroupsConsistent PendingLiesAhead ValueKept StatementBalances TransitIsHalfDone BreakdownAddsUp ProfitsAtPar PagesWhole
CHECK_DEADLOCK FALSE
