CONSTANTS
  p1 = p1
  Platforms = {p1}
  Rebals = {r1, r2}
  Transfers = {}
  LastDay = 4
  TradingDays = {1, 2, 4}
  ConfirmDays = 1
  Quantities = {1}
  Cash1 = 2
  Shares1 = 1
  OpeningCash <- MCCash
  OpeningShares <- MCShares
SPECIFICATION Spec
SYMMETRY MCSymmetry
INVARIANTS NothingOversold
CHECK_DEADLOCK FALSE
