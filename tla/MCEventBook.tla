---------------------------- MODULE MCEventBook ----------------------------
(* A small instance of EventViews for TLC: p1 holds two shares on day 0, the    *)
(* others one, which they sell on SaleDay.                                     *)
EXTENDS EventViews

CONSTANTS p1, SaleDay

MCShares == [p \in Platforms |-> IF p = p1 THEN 2 ELSE 1]
MCFlow ==
    [d \in TradingDays |-> [p \in Platforms |-> IF d = SaleDay /\ p # p1 THEN -1 ELSE 0]]
=============================================================================
