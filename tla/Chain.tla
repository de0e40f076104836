------------------------------- MODULE Chain -------------------------------
(***************************************************************************)
(* The chain of daily snapshots of one portfolio and the calendar it       *)
(* follows, as the books that are added up into it see them.               *)
(*                                                                         *)
(* Day 0 is a settled snapshot with what the portfolio starts from; it is  *)
(* never rebuilt.  Requests are serialised; a recalculation is one         *)
(* transaction, modelled as one step per day.  A day may be deleted inside *)
(* the chain and is then missing until a recalculation builds it again.    *)
(***************************************************************************)
EXTENDS Integers, FiniteSets, FiniteSetsExt

CONSTANTS
    LastDay,        \* last calendar day of the bounded calendar
    TradingDays     \* the open days of the calendar, a subset of 1..LastDay

Days == 1..LastDay
NoDate == 0

ASSUME CalendarAssumption == LastDay \in Nat /\ TradingDays \subseteq Days

VARIABLES
    snap,       \* portfolio_position of each day: day -> row
    today,      \* the business day
    tx          \* the recalculation in progress

NoTx == [day |-> NoDate, end |-> NoDate]
Idle == tx = NoTx

Put(table, key, row) ==
    [k \in DOMAIN table \cup {key} |-> IF k = key THEN row ELSE table[k]]
PutAll(table, rows) ==
    [k \in DOMAIN table \cup DOMAIN rows |-> IF k \in DOMAIN rows THEN rows[k] ELSE table[k]]
Drop(table, keys) == [k \in DOMAIN table \ keys |-> table[k]]

SnapDays == DOMAIN snap
AfterLatest(d) == \A e \in SnapDays : e < d
IsLatest(d) == d \in SnapDays /\ \A e \in SnapDays : e <= d
LastSnapUpTo(d) == Max({e \in SnapDays : e <= d})
PrevSnapDay(d) == LastSnapUpTo(d - 1)

\* the trading days missing inside a chain with these days
Missing(days) == {d \in TradingDays \ days : \E e \in days : d < e}
\* the snapshot before day d is that of the trading day before
DayBeforeStored(d) == \A e \in TradingDays : PrevSnapDay(d) < e => d <= e

\* c is n trading days after d (get_next_trading_day)
IsTradingDaysAfter(d, n, c) ==
    /\ c \in TradingDays /\ c >= d
    /\ Cardinality({e \in TradingDays : d < e /\ e <= c}) = n

\* a generation rebuilds the latest day or adds the trading day after it
FollowsChain(d) ==
    \E l \in SnapDays : IsLatest(l) /\ (d = l \/ IsTradingDaysAfter(l, 1, d))

\* a recalculation starts on a day up to the latest snapshot, present or missing,
\* or on the trading day after it, and always goes on to the latest snapshot
Begins(start) ==
    /\ Idle /\ start \in Days /\ (~AfterLatest(start) \/ FollowsChain(start))
    /\ tx' = [day |-> start, end |-> Max(SnapDays \cup {start})]
AtTradingDay == ~Idle /\ tx.day <= tx.end /\ tx.day \in TradingDays
AtHoliday == ~Idle /\ tx.day <= tx.end /\ tx.day \notin TradingDays
AtEnd == ~Idle /\ tx.day > tx.end
NextInTx == tx' = [tx EXCEPT !.day = @ + 1]
=============================================================================
