----------------------------- MODULE TradeViews -----------------------------
(***************************************************************************)
(* What the read side shows of a TradeBook: the cash statement with its    *)
(* balances and totals, the profits of positions, the pages of the list of *)
(* trades.  Nothing here is stored; every view is computed from the legs   *)
(* and the snapshots at the moment of the request, each along a way of its *)
(* own, and the properties say that the ways meet.                         *)
(***************************************************************************)
EXTENDS TradeBook, Sequences
Seqs == INSTANCE SequencesExt

-----------------------------------------------------------------------------
(* The cash statement (cash_flow_service)                                  *)

\* _trade_leg_rows: a row for each CASH leg that is not cancelled
StatementRows == {k \in WithRole("in") \cup WithRole("out") : legs[k].status # "cancelled"}

\* Mutant: credits are dated by their order day as well
CashDateByOrder(k) == legs[k].trade

\* a debit is dated by its order day, a credit by its confirm date
CashDate(k) == IF k[2] = "out" THEN legs[k].trade ELSE legs[k].confirm
Signed(k) == IF k[2] = "out" THEN -legs[k].qty ELSE legs[k].qty
Settled(k) == k \in Confirmed /\ CashDate(k) <= today
FlowType(k) ==
    IF k[1] \in Transfers THEN "transfer"
    ELSE IF k[2] = "in" THEN "rebal_sell" ELSE "rebal_buy"

\* _enrich_rows: the other side of a row is the fund leg of its group, or the
\* opposite leg of a transfer
Pair(k) ==
    IF k[1] \in Rebals THEN <<k[1], "fund">>
    ELSE <<k[1], IF k[2] = "in" THEN "out" ELSE "in">>
\* Mutant: a fund leg is taken for settled once it is confirmed
PairConfirmed(k) ==
    IF k[1] \in Rebals THEN Pair(k) \in Confirmed ELSE Settled(Pair(k))

PairSettled(k) ==
    LET pair == Pair(k)
    IN  IF k[1] \in Rebals THEN pair \in Confirmed /\ legs[pair].confirm <= today
        ELSE Settled(pair)

\* the balances of a day and of the trading day before it (_balance_maps); the
\* first day follows the opening
PrevTradingDay(d) == Max({0} \cup {e \in TradingDays : e < d})
EndOfDayBalance(p, d) == AvailableCash(p, d)
PrevDayBalance(p, d) == AvailableCash(p, PrevTradingDay(d))

\* what a request asks for, each part possibly "any"
Shown(f) ==
    {k \in StatementRows :
        /\ CashDate(k) >= f.from
        /\ f.status # "any" => (Settled(k) <=> f.status = "settled")
        /\ f.type # "any" => FlowType(k) = f.type}
OnPlatforms(S, ps) == {k \in S : legs[k].platform \in ps}

SumSigned(S) == SumFunctionOnSet([k \in S |-> Signed(k)], S)

\* Mutant: a transfer is money that comes and goes, for the portfolio as well
FlowsWithTransfers(S, includeTransfer) ==
    LET counted == {k \in S : Settled(k)}
    IN  [inflow |-> SumSigned({k \in counted : Signed(k) > 0}),
         outflow |-> SumSigned({k \in counted : Signed(k) < 0})]

\* _sum_flows, _sum_in_transit
Flows(S, includeTransfer) ==
    LET counted == {k \in S : Settled(k) /\ (includeTransfer \/ FlowType(k) # "transfer")}
    IN  [inflow |-> SumSigned({k \in counted : Signed(k) > 0}),
         outflow |-> SumSigned({k \in counted : Signed(k) < 0})]
InTransitSum(S) == SumSigned({k \in S : ~Settled(k)})

\* the cards of one platform (a row of the breakdown), and of the portfolio, where
\* transfers are no flow.  What is there and in transit knows no filter.
Stock(ps) ==
    [available |-> CashOfPlatforms(ps, today),
     inTransit |-> InTransitSum(OnPlatforms(StatementRows, ps))]
PlatformFlows(p, f) == Flows(OnPlatforms(Shown(f), {p}), TRUE)
PortfolioFlows(f) == Flows(Shown(f), FALSE)

-----------------------------------------------------------------------------
(* Profits (position_service, cumulative_profit_service)                   *)

\* _aggregate_position_flows: net purchases of the fund and net cash in of one day
FundFlow(p, d) ==
    LET on == {k \in WithRole("fund") \cap Confirmed :
                  legs[k].platform = p /\ legs[k].confirm = d}
        sold == {k \in on : legs[k].type = "sell"}
    IN  Total(on \ sold) - Total(sold)
CashFlow(p, d) ==
    SumSigned({k \in (WithRole("in") \cup WithRole("out")) \cap Confirmed :
                  legs[k].platform = p /\ legs[k].confirm = d})

\* compute_daily_profits: a position below the first day without a row has none
DailyFundProfit(p, d) ==
    snap[d].shares[p] - snap[PrevSnapDay(d)].shares[p] - FundFlow(p, d)
DailyCashProfit(p, d) ==
    snap[d].cash[p] - snap[PrevSnapDay(d)].cash[p] - CashFlow(p, d)

\* the basis of a cash position, by category (compute_cash_cumulative_profits)
CashBasis(p, d) ==
    LET mine == {k \in Confirmed : legs[k].platform = p /\ legs[k].confirm <= d}
        buys == {k \in mine : k[1] \in Rebals /\ k[2] = "out"}
        sells == {k \in mine : k[1] \in Rebals /\ k[2] = "in"}
        moved == {k \in mine : k[1] \in Transfers}
    IN  Total(sells) - Total(buys) + SumSigned(moved)

\* compute_cumulative_profits of the fund: value now, less what was paid for it
CumulativeFundProfit(p, d) ==
    LET mine == {k \in WithRole("fund") \cap Confirmed :
                    legs[k].platform = p /\ legs[k].confirm <= d}
        sold == {k \in mine : legs[k].type = "sell"}
    IN  snap[d].shares[p] - Total(mine \ sold) + Total(sold)

-----------------------------------------------------------------------------
(* The list of trades (trade_service.list_trades)                          *)

\* The elements of S as a list, in an order given as the set of its pairs.  (The
\* library's SetToSortSeq rests on the tool's SortSeq, which has no definition.)
InOrder(S, order) ==
    LET place == [x \in S |-> 1 + Cardinality({y \in S : <<y, x>> \in order})]
    IN  Inverse(place, S, 1..Cardinality(S))

\* ids grow as the legs of a group are created
IdOf(k) == CASE k[2] = "fund" -> 1 [] k[2] = "out" -> 2 [] OTHER -> 3

\* a group has its last order day as anchor, whatever the filter leaves of it;
\* groups of one day come in the order of their names, any order here
GroupAnchor(g) == Max({legs[k].trade : k \in LegsOf(g)})
PositionOf == CHOOSE f \in Injection(Groups, 1..Cardinality(Groups)) : TRUE
GroupBefore(g, h) ==
    \/ GroupAnchor(g) > GroupAnchor(h)
    \/ GroupAnchor(g) = GroupAnchor(h) /\ PositionOf[g] < PositionOf[h]

\* Mutant: rows are sorted by their own order day
RowBeforeByDay(j, k) ==
    \/ legs[j].trade > legs[k].trade
    \/ legs[j].trade = legs[k].trade /\ PositionOf[j[1]] < PositionOf[k[1]]
    \/ legs[j].trade = legs[k].trade /\ j[1] = k[1] /\ IdOf(j) > IdOf(k)

RowBefore(j, k) == GroupBefore(j[1], k[1]) \/ (j[1] = k[1] /\ IdOf(j) > IdOf(k))

GroupOrder(G) == {p \in G \X G : GroupBefore(p[1], p[2])}
RowOrder(S) == {p \in S \X S : RowBefore(p[1], p[2])}

\* the groups of the filtered rows, in the order of the list, by their sizes
GroupSizes(S) ==
    LET groups == {k[1] : k \in S}
        order == InOrder(groups, GroupOrder(groups))
    IN  [i \in DOMAIN order |-> Cardinality({k \in S : k[1] = order[i]})]

\* _walk_group_pages: a page takes whole groups until it has n rows, or all that
\* are left.  Borders are the rows up to the end of each group, the end of page p
\* one of them.
Borders(sizes) == {SumFunctionOnSet(sizes, 1..i) : i \in 0..Len(sizes)}
PageEnds(sizes, n) ==
    LET borders == Borders(sizes)
        end[p \in 0..Len(sizes)] ==
            IF p = 0 THEN 0
            ELSE LET full == {b \in borders : b >= end[p - 1] + n}
                 IN  IF full = {} THEN Max(borders) ELSE Min(full)
    IN  end
WalkGroupPages(sizes, n) ==
    LET end == PageEnds(sizes, n)
        count == Min({p \in DOMAIN end : end[p] = Max(Borders(sizes))})
    IN  IF n <= 0 THEN <<>>
        ELSE [p \in 1..count |-> [offset |-> end[p - 1], limit |-> end[p] - end[p - 1]]]

ListTrades(S, n) ==
    LET items == InOrder(S, RowOrder(S))
        pages == WalkGroupPages(GroupSizes(S), n)
    IN  [i \in DOMAIN pages |->
            SubSeq(items, pages[i].offset + 1, pages[i].offset + pages[i].limit)]

-----------------------------------------------------------------------------
(* Properties                                                              *)

\* The statement explains the balances it shows: from one trading day to the
\* next a platform's balance moves by the rows of the day that are confirmed, or
\* are debits still pending, though the balances come from snapshots and windows
\* and the rows from the legs (business-constraints, cash statement).
StatementBalances ==
    Idle => \A p \in Platforms, d \in TradingDays :
        EndOfDayBalance(p, d) - PrevDayBalance(p, d)
            = SumSigned({k \in OnPlatforms(StatementRows, {p}) :
                  CashDate(k) = d /\ (k \in Confirmed \/ k[2] = "out")})

\* On a day with a snapshot, what the snapshot has in transit is what the
\* statement shows half done: rows settled whose other side is not, or the other
\* way round, a transfer by its receiving row.  Transfers confirmed ahead of
\* their arrival are what the snapshot lacks (_compute_in_transit_amounts against
\* the pairs of _enrich_rows).
HalfDone ==
    {k \in StatementRows :
        /\ Settled(k) # PairSettled(k)
        /\ k[1] \in Transfers => k[2] = "in"}
TransitIsHalfDone ==
    Idle /\ today \in SnapDays =>
        Sum(snap[today].transit) + snap[today].lost
            = Total(HalfDone)

\* Whatever is filtered, the breakdown adds up to the total: cash and money in
\* transit exactly, flows but for the settled transfers, which only move money
\* between platforms (the reconciliation line of list_cash_flows).
Filter(from, status, type) == [from |-> from, status |-> status, type |-> type]
Filters == {Filter(0, "any", "any"), Filter(LastDay, "settled", "any"),
            Filter(0, "settled", "transfer")}
BreakdownAddsUp ==
    Idle =>
      /\ LET total == Stock(Platforms)
             row == [p \in Platforms |-> Stock({p})]
         IN  /\ Sum([p \in Platforms |-> row[p].available]) = total.available
             /\ Sum([p \in Platforms |-> row[p].inTransit]) = total.inTransit
      /\ \A f \in Filters :
           LET total == PortfolioFlows(f)
               row == [p \in Platforms |-> PlatformFlows(p, f)]
               moved == {k \in Shown(f) : FlowType(k) = "transfer" /\ Settled(k)}
           IN  /\ Sum([p \in Platforms |-> row[p].inflow]) - total.inflow
                    = Total({k \in moved : k[2] = "in"})
               /\ Sum([p \in Platforms |-> row[p].outflow]) - total.outflow
                    = -Total({k \in moved : k[2] = "out"})

\* At par nobody earns anything, on any day, by any of the four ways profits are
\* computed, whatever requests moved legs between days and however days were
\* deleted and rebuilt: no leg counted by a snapshot changes, or comes in behind
\* it (validate_group_snapshot_free).  Shares sold beyond the holding are the
\* exception the snapshots record.  A daily profit needs the trading day before:
\* where that day was deleted, the flows of one day meet the change of several.
ProfitsAtPar ==
    Idle => \A d \in SnapDays \ {0}, p \in Platforms :
        /\ DayBeforeStored(d) =>
             /\ DailyCashProfit(p, d) = 0
             /\ DailyFundProfit(p, d)
                  = snap[d].dropped[p] - snap[PrevSnapDay(d)].dropped[p]
        /\ snap[d].cash[p] - CashBasis(p, d) = OpeningCash[p]
        /\ CumulativeFundProfit(p, d) = OpeningShares[p] + snap[d].dropped[p]

\* The pages of the list of trades, of any size and filter, are the list without
\* gap or repetition, and no group is torn between two pages although its legs
\* may have different order days.
ListedWhole(S, n) ==
    LET pages == ListTrades(S, n)
        groups(i) == {k[1] : k \in Range(pages[i])}
    IN  /\ Seqs!FlattenSeq(pages) = InOrder(S, RowOrder(S))
        /\ \A i, j \in DOMAIN pages : i # j => groups(i) \cap groups(j) = {}
        /\ \A i \in DOMAIN pages : i < Len(pages) => Len(pages[i]) >= n
ListedRows == {DOMAIN legs, Confirmed, WithRole("in") \cup WithRole("out")}
PagesWhole == Idle => \A S \in ListedRows, n \in 1..2 : ListedWhole(S, n)
=============================================================================
