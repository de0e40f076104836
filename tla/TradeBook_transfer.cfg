CONSTANTS
  p1 = p1
  Platforms = {p1, p2}
  Rebals = {}
  Transfers = {t1}
  LastDay = 4
  TradingDays = {1, 2, 4}
  ConfirmDays = 1
  Quantities = {1, 2}
  Cash1 = 2
  Shares1 = 1
  OpeningCash <- MCCash
  OpeningShares <- MCShares
SPECIFICATION MCTransferSpec
INVARIANTS TransferKeepsValue
CHECK_DEADLOCK FALSE
