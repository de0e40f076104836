---------------------------- MODULE MCTradeBook ----------------------------
(* Small instances of TradeViews for TLC: the platform p1 holds Cash1 and      *)
(* Shares1 on day 0, the others nothing; groups of a kind are interchangeable. *)
EXTENDS TradeViews, TLC

CONSTANTS p1, Cash1, Shares1

MCCash == [p \in Platforms |-> IF p = p1 THEN Cash1 ELSE 0]
MCShares == [p \in Platforms |-> IF p = p1 THEN Shares1 ELSE 0]
\* transfers only through their own endpoints
MCTransferNext ==
    \/ \E g \in Transfers, from, to \in Platforms, d \in TradingDays, q \in Quantities :
         CreateTransfer(g, from, to, d, q, TRUE)
    \/ \E g \in Transfers : ConfirmTransfer(g)
    \/ SnapshotRequest \/ NewDay
MCTransferSpec == Init /\ [][MCTransferNext]_vars

MCSymmetry == Permutations(Rebals) \cup Permutations(Transfers)
=============================================================================
