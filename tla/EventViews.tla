----------------------------- MODULE EventViews -----------------------------
(***************************************************************************)
(* The profits the read side reports of an EventBook: of the fund on each  *)
(* platform and of the cash, by day and since the beginning.  They are     *)
(* computed from the snapshots and, at the moment of the request, from the *)
(* events whatever their state; the profit of a dividend has to show on    *)
(* its ex date once, and must not move when the event is settled later.    *)
(***************************************************************************)
EXTENDS EventBook

\* what a leg of a view adds on a day
On(day, amount) == [day |-> day, amount |-> amount]
Added(S) == Sum(LAMBDA l : l.amount, S)

\* _resolve_base and _amount of the read side, which has no position being built
Receivable(r) ==
    r.qty * (IF r.status = "confirmed" THEN r.base
             ELSE StoredBase(snap, r.platform, r.ent))

ReinvestRow(r) ==
    r.kind = "reinvest_dividend" /\ r.status # "cancelled" /\ r.arrive # NoDate
\* _query_cash_rows, of which the read side takes the pending ones
CashRow(r) ==
    /\ r.status = "pending"
    /\ SameDayPending(r) \/ (r.kind = "cash_dividend" /\ r.pay # NoDate)

\* Mutant: a pending dividend in cash is left to its confirmation
LegsWithoutPending(r) ==
    CASE r.kind = "cash_dividend" /\ r.status = "confirmed" -> {On(r.ex, CashOf(r))}
      [] ReinvestRow(r) -> {On(r.ex, Receivable(r)), On(r.arrive, -Receivable(r))}
      [] OTHER -> {}

\* the event rows of a fund position: cash of confirmed events on the ex date,
\* a receivable from the ex date to the day the shares are there
\* (aggregate_receivable_flows), and a dividend in cash that is still pending from
\* the ex date to the day it is paid (aggregate_cash_dividend_flows)
FundLegs(r) ==
    CASE r.kind = "cash_dividend" /\ r.status = "confirmed" -> {On(r.ex, CashOf(r))}
      [] ReinvestRow(r) -> {On(r.ex, Receivable(r)), On(r.arrive, -Receivable(r))}
      [] CashRow(r) -> {On(r.ex, Receivable(r))} \cup
                       (IF r.pay = NoDate THEN {} ELSE {On(r.pay, -Receivable(r))})
      [] OTHER -> {}

EventsAt(p) == {k \in DOMAIN events : events[k].platform = p}
LegSum(p, days) ==
    Sum(LAMBDA k : Added({l \in FundLegs(events[k]) : l.day \in days}), EventsAt(p))

\* compute_event_cash_addbacks
Addback(p, d) == LegSum(p, 0..d)

\* compute_daily_profits: a fund row takes the legs of its own day, a cash row the
\* events paid since the last snapshot, on a holiday or not
DailyFundProfit(p, d) ==
    snap[d].shares[p] - snap[PrevSnapDay(d)].shares[p] - FlowSum(p, d - 1, d)
        + LegSum(p, {d})
\* Mutant: a payment counts on its own day only, as the legs of a fund row do
PaidThatDay(p, b, d) ==
    LET rows == {k \in EventsAt(p) \cap Confirmed : CashDay(events[k]) = d}
    IN  Sum(LAMBDA k : CashOf(events[k]), rows)

Paid(p, b, d) ==
    LET rows == {k \in EventsAt(p) \cap Confirmed :
                    b < CashDay(events[k]) /\ CashDay(events[k]) <= d}
    IN  Sum(LAMBDA k : CashOf(events[k]), rows)
DailyCashProfit(p, d) ==
    snap[d].cash[p] - snap[PrevSnapDay(d)].cash[p] - Paid(p, PrevSnapDay(d), d)

\* compute_cumulative_profits: value, less what the shares cost, and for the fund
\* what its confirmed events paid, its receivables of the day, and the legs so far
\* of pending dividends
CumulativeFundProfit(p, d) ==
    LET counted == {k \in EventsAt(p) : events[k].ex <= d}
        paying == {k \in counted \cap Confirmed : events[k].kind = "cash_dividend"}
        awaited == {k \in counted : ReinvestRow(events[k]) /\ d < events[k].arrive}
        open == {k \in counted : CashRow(events[k])}
    IN  snap[d].shares[p] - FlowSum(p, 0, d)
          + Sum(LAMBDA k : CashOf(events[k]), paying)
          + Sum(LAMBDA k : Receivable(events[k]), awaited)
          + Sum(LAMBDA k : Added({l \in FundLegs(events[k]) : l.day <= d}), open)
CumulativeCashProfit(p, d) == snap[d].cash[p] - Paid(p, 0, d)

-----------------------------------------------------------------------------
(* Properties                                                              *)

\* On every snapshot day the profit of a fund on a platform is what its events
\* gave up to their ex dates, once each, and cash earns nothing of its own:
\* reading the same day before and after a dividend is confirmed, paid or
\* reinvested gives the same (reinvest_receivable: no state may show it twice or
\* drop it).
ProfitOnce ==
    Idle => \A d \in SnapDays \ {0}, p \in Platforms : ~snap[d].stale =>
        /\ CumulativeCashProfit(p, d) = 0
        /\ CumulativeFundProfit(p, d) = OpeningShares[p] + snap[d].dropped[p]
             + Sum(LAMBDA k : Worth(events[k]), Counted(d) \cap EventsAt(p))

\* The profits of the days add up to the profit since the beginning, for the fund
\* and its addback alike, also when a dividend is paid on a holiday between two
\* snapshots (the two views filter the same legs, one by = and one by <=).  A
\* fund's daily profit needs the trading day before, which may have been deleted.
DailiesAddUp ==
    Idle => \A d \in SnapDays \ {0}, p \in Platforms :
        LET e == PrevSnapDay(d)
        IN  ~snap[d].stale =>
              /\ DailyCashProfit(p, d) = 0
              /\ CumulativeFundProfit(p, d)
                   = snap[d].shares[p] - FlowSum(p, 0, d) + Addback(p, d)
              /\ DayBeforeStored(d) =>
                    CumulativeFundProfit(p, e) + DailyFundProfit(p, d)
                        = CumulativeFundProfit(p, d)
=============================================================================
