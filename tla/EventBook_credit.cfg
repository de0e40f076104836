CONSTANTS
  p1 = p1
  SaleDay = 2
  Platforms = {p1, p2}
  Events = {e1}
  Kinds = {"cash_dividend", "reinvest_dividend", "dividend_pending", "share_split", "forced_adjustment"}
  PerShare = {1, 2}
  Adjustments = {1}
  LastDay = 4
  TradingDays = {1, 2, 4}
  OpeningShares <- MCShares
  Flow <- MCFlow
SPECIFICATION Spec
INVARIANTS TypeOK EntitlementFromStored ChildrenAgree CreditedOnce PendingEventsAhead ProfitOnce DailiesAddUp
PROPERTIES RecalculationRepeats
CHECK_DEADLOCK FALSE
