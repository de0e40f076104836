----------------------------- MODULE EventBook -----------------------------
(***************************************************************************)
(* Corporate actions of one fund a portfolio holds on several platforms:   *)
(* dividends in cash or reinvested, announced dividends whose method is    *)
(* still to be chosen, splits, adjustments, and how the daily snapshots    *)
(* carry them: in transit from the ex date on, then as cash or shares.     *)
(*                                                                         *)
(* An event is a row <<e, "self">>; a split is of the whole fund and, once *)
(* confirmed, has a child <<e, p>> for each platform that holds shares.    *)
(* What a dividend amounts to is its base, the shares held on its          *)
(* entitlement date, times what it pays per share; the fund trades at par, *)
(* a split is 2 for 1.  The shares of trades that come and go with a day   *)
(* are the constant Flow.                                                  *)
(***************************************************************************)
EXTENDS Chain, Functions

CONSTANTS
    Events,         \* ids of events
    Platforms,      \* platform codes
    Kinds,          \* event types requests may carry, a subset of AllKinds
    PerShare,       \* amounts per share a dividend pays
    Adjustments,    \* shares a forced adjustment adds
    OpeningShares,  \* fund shares of each platform on day 0
    Flow            \* net shares confirmed trades bring each day and platform

AllKinds == {"cash_dividend", "reinvest_dividend", "dividend_pending",
             "share_split", "forced_adjustment"}

ASSUME PlatformAssumption == IsFiniteSet(Platforms)
ASSUME KindAssumption == Kinds \subseteq AllKinds
ASSUME PerShareAssumption == PerShare \subseteq Nat \ {0}
ASSUME AdjustmentAssumption == Adjustments \subseteq Int
ASSUME HoldingAssumption ==
    /\ OpeningShares \in [Platforms -> Nat]
    /\ Flow \in [TradingDays -> [Platforms -> Int]]
ASSUME NameAssumption == {"self", "all"} \cap Platforms = {}

VARIABLES
    events,     \* table share_change_event: <<event, "self">> or child -> row
    saved       \* the committed database a rollback of tx restores

vars == <<events, snap, today, tx, saved>>

-----------------------------------------------------------------------------
(* Rows                                                                    *)

\* the platform of a fund-level event is "all", base is entitlement_shares
Event == [kind : AllKinds, platform : Platforms \cup {"all"}, ent : Days, ex : Days,
          pay : Days \cup {NoDate}, arrive : TradingDays \cup {NoDate},
          qty : PerShare \cup Adjustments, base : Nat,
          status : {"pending", "confirmed", "cancelled"}]

\* transit is what the day carries for each event.  dropped and stale are
\* history: the shares a position fell below zero, and whether an event the
\* day had counted, or the day it was entitled on, was deleted since.
Opening ==
    [shares |-> OpeningShares, cash |-> [p \in Platforms |-> 0], transit |-> <<>>,
     dropped |-> [p \in Platforms |-> 0], stale |-> FALSE]

DB == [events |-> events, snap |-> snap]
NoDB == <<>>

Dividend(r) == r.kind \in {"cash_dividend", "reinvest_dividend", "dividend_pending"}
FundLevel(kind) == kind = "share_split"
Amounts(kind) == IF kind = "forced_adjustment" THEN Adjustments ELSE PerShare
Child(k) == k[2] # "self"
ChildrenOf(e) == {k \in DOMAIN events : k[1] = e /\ Child(k)}
Pending == {k \in DOMAIN events : events[k].status = "pending"}
Confirmed == {k \in DOMAIN events : events[k].status = "confirmed"}

Sum(f(_), S) == SumFunctionOnSet([x \in S |-> f(x)], S)
Total(f) == SumFunctionOnSet(f, DOMAIN f)

\* share_effective_date, cash_effective_date
ShareDay(r) == IF r.kind = "reinvest_dividend" /\ r.arrive # NoDate THEN r.arrive ELSE r.ex
CashDay(r) == IF r.kind = "cash_dividend" /\ r.pay # NoDate THEN r.pay ELSE r.ex

SameDayPending(r) == r.kind = "dividend_pending" /\ r.ent = r.ex

\* compute_event_fields: shares_change and cash_change of a row with its base
SharesOf(r) ==
    CASE r.kind = "reinvest_dividend" -> r.base * r.qty
      [] r.kind = "share_split" -> r.base
      [] r.kind = "forced_adjustment" -> r.qty
      [] OTHER -> 0
CashOf(r) == IF r.kind = "cash_dividend" THEN r.base * r.qty ELSE 0

-----------------------------------------------------------------------------
(* Guards of share_change_event_service                                    *)

\* _validate_event_dates
ValidDates(r, overlap) ==
    /\ r.ent \in TradingDays /\ r.ex \in TradingDays
    /\ r.ent < r.ex \/ (r.ent = r.ex /\ (r.arrive # NoDate \/ r.kind = "cash_dividend"))
    /\ overlap \/ AfterLatest(r.ex)

\* Mutant: shares may arrive on a holiday
ArrivesAnyDay(r) ==
    r.arrive # NoDate => r.kind = "reinvest_dividend" /\ r.arrive > r.ex

\* _validate_share_confirm_date
ValidArrive(r) ==
    r.arrive # NoDate =>
        r.kind = "reinvest_dividend" /\ r.arrive \in TradingDays /\ r.arrive > r.ex

\* _validate_cash_pay_date
ValidPay(r) ==
    IF r.kind # "cash_dividend" THEN r.pay = NoDate
    ELSE IF r.ent = r.ex THEN r.pay > r.ex
    ELSE r.pay = NoDate \/ r.pay >= r.ex

\* _require_receivable_not_snapshotted
ReceivableFree(r) ==
    /\ r.status = "pending"
    /\ r.arrive # NoDate \/ r.kind = "cash_dividend" \/ SameDayPending(r)
    => AfterLatest(r.ex)

\* resolve_entitlement_shares of a platform: what the stored chain says
StoredBase(chain, p, d) == IF d \in DOMAIN chain THEN chain[d].shares[p] ELSE 0
Holders(chain, d) == {p \in Platforms : StoredBase(chain, p, d) > 0}

-----------------------------------------------------------------------------
(* Requests                                                                *)

Request == Idle /\ UNCHANGED <<snap, today, tx, saved>>

Unused(e) == <<e, "self">> \notin DOMAIN events

New(kind, p, ent, ex, pay, arrive, qty) ==
    [kind |-> kind, platform |-> p, ent |-> ent, ex |-> ex, pay |-> pay,
     arrive |-> arrive, qty |-> qty, base |-> 0, status |-> "pending"]

\* create_share_change_event, with force_cover: other platforms need not be covered
CreateEvent(e, r) ==
    /\ Request /\ Unused(e)
    /\ ValidDates(r, FALSE) /\ ValidArrive(r) /\ ValidPay(r)
    /\ r.platform = "all" <=> FundLevel(r.kind)
    /\ r.qty \in Amounts(r.kind)
    /\ events' = Put(events, <<e, "self">>, r)

\* _detect_dividends writes an announcement for a platform that held the fund on
\* the latest day; nothing checks that its dates are trading days
DetectDividend(e, p, ent, ex, qty) ==
    /\ Request /\ Unused(e) /\ ent <= ex /\ AfterLatest(ex)
    /\ \E d \in SnapDays : IsLatest(d) /\ p \in Holders(snap, d)
    /\ \A k \in DOMAIN events : ~(events[k].ex = ex /\ events[k].platform = p)
    /\ events' = Put(events, <<e, "self">>,
                     New("dividend_pending", p, ent, ex, NoDate, NoDate, qty))

\* update_share_change_event: not of a confirmed event; an announcement has
\* no dates of its method yet
UpdateEvent(e, ent, ex, pay, arrive, qty) ==
    /\ Request /\ <<e, "self">> \in DOMAIN events \ Confirmed
    /\ LET old == events[<<e, "self">>]
           new == [old EXCEPT !.ent = ent, !.ex = ex, !.pay = pay, !.arrive = arrive,
                              !.qty = qty]
       IN  /\ new # old /\ qty \in Amounts(old.kind)
           /\ old.kind = "dividend_pending" => pay = NoDate /\ arrive = NoDate
           /\ ReceivableFree(old)
           /\ <<ent, ex, arrive>> # <<old.ent, old.ex, old.arrive>>
                => ValidDates(new, FALSE)
           /\ ValidArrive(new) /\ ValidPay(new)
           /\ events' = [events EXCEPT ![<<e, "self">>] = new]

\* a platform-level event gets the base of its entitlement date; the price of a
\* reinvestment is that of the ex date
ConfirmedRow(chain, r) ==
    [r EXCEPT !.status = "confirmed", !.base = StoredBase(chain, r.platform, r.ent)]

\* _confirm_fund_level_event: the parent has the sum, each child its platform's
SplitRows(chain, e, r) ==
    LET holders == Holders(chain, r.ent)
        sum == Sum(LAMBDA p : StoredBase(chain, p, r.ent), holders)
    IN  [k \in {<<e, "self">>} \cup {<<e, p>> : p \in holders} |->
            IF Child(k) THEN ConfirmedRow(chain, [r EXCEPT !.platform = k[2]])
            ELSE [r EXCEPT !.status = "confirmed", !.base = sum]]

\* whether r can be confirmed, and the rows event e then has
Confirmable(chain, r) ==
    /\ r.kind # "dividend_pending" /\ r.ent \in DOMAIN chain
    /\ r.platform = "all" => Holders(chain, r.ent) # {}
    /\ r.kind = "forced_adjustment" => r.platform \in Holders(chain, r.ent)
    /\ r.kind = "reinvest_dividend" => r.ex <= today
RowsOf(chain, e, r) ==
    IF r.platform = "all" THEN SplitRows(chain, e, r)
    ELSE [k \in {<<e, "self">>} |-> ConfirmedRow(chain, r)]

ConfirmEvent(e) ==
    /\ Request /\ <<e, "self">> \in Pending
    /\ LET r == events[<<e, "self">>]
       IN  Confirmable(snap, r) /\ events' = PutAll(events, RowsOf(snap, e, r))

\* confirmation of a dividend with its method chosen or changed; only an
\* announcement of the same day may be settled once snapshots carry it
ConfirmWithChoice(e, kind, pay, arrive) ==
    /\ Request /\ <<e, "self">> \in Pending /\ Dividend(events[<<e, "self">>])
    /\ LET old == events[<<e, "self">>]
           new == [old EXCEPT !.kind = kind, !.pay = pay, !.arrive = arrive]
           overlap == SameDayPending(old)
       IN  /\ new # old /\ ~overlap => ReceivableFree(old)
           /\ ValidArrive(new) /\ ValidPay(new)
           /\ new # old => ValidDates(new, overlap)
           /\ Confirmable(snap, new) /\ events' = PutAll(events, RowsOf(snap, e, new))

CancelEvent(e) ==
    /\ Request /\ <<e, "self">> \in Pending /\ ReceivableFree(events[<<e, "self">>])
    /\ events' = [events EXCEPT ![<<e, "self">>].status = "cancelled"]

\* Mutant: the children of a split survive its withdrawal
WithdrawnParents(es) ==
    [k \in DOMAIN events |->
        IF k[1] \in es /\ ~Child(k)
        THEN [events[k] EXCEPT !.status = "pending", !.base = 0] ELSE events[k]]

\* back to pending without a base, the children of a split removed
Withdrawn(es) ==
    [k \in {j \in DOMAIN events : ~Child(j) \/ j[1] \notin es} |->
        IF k[1] \in es THEN [events[k] EXCEPT !.status = "pending", !.base = 0]
        ELSE events[k]]

\* Mutant: the days that counted the event are not looked at
UnconfirmAnyway(e) == Request /\ <<e, "self">> \in Confirmed /\ events' = Withdrawn({e})

UnconfirmEvent(e) ==
    /\ Request /\ <<e, "self">> \in Confirmed
    /\ AfterLatest(events[<<e, "self">>].ex)
    /\ events' = Withdrawn({e})

\* Whatever its status an event can be deleted, and a child of a split without
\* its parent; the children go with the parent.  The days that had counted it
\* keep what they counted.
DeleteEvent(k) ==
    /\ Idle /\ k \in DOMAIN events /\ ReceivableFree(events[k])
    /\ events' = Drop(events, {k} \cup (IF Child(k) THEN {} ELSE ChildrenOf(k[1])))
    /\ snap' = [d \in SnapDays |->
                  IF k \in Confirmed /\ d >= events[k].ex
                  THEN [snap[d] EXCEPT !.stale = TRUE] ELSE snap[d]]
    /\ UNCHANGED <<today, tx, saved>>

-----------------------------------------------------------------------------
(* Building a day                                                          *)

\* _check_share_change_events: a cash dividend blocks from the day it is paid,
\* an announcement of the same day only after that day
NotDue(r, d) ==
    IF r.kind = "cash_dividend" THEN d < CashDay(r)
    ELSE d < ShareDay(r) \/ (SameDayPending(r) /\ d = ShareDay(r))
NoEventDue(d) == \A k \in Pending : NotDue(events[k], d)

\* the platform-level rows whose shares, whose cash fall after day b, up to day d
ShareWindow(rows, p, b, d) ==
    {k \in DOMAIN rows :
        /\ rows[k].status = "confirmed" /\ rows[k].platform = p
        /\ rows[k].kind # "cash_dividend"
        /\ b < ShareDay(rows[k]) /\ ShareDay(rows[k]) <= d}
CashWindow(rows, p, b, d) ==
    {k \in DOMAIN rows :
        /\ rows[k].status = "confirmed" /\ rows[k].platform = p
        /\ rows[k].kind = "cash_dividend"
        /\ b < CashDay(rows[k]) /\ CashDay(rows[k]) <= d}

Flows(p, b, d) == {e \in TradingDays : b < e /\ e <= d}
FlowSum(p, b, d) == Sum(LAMBDA e : Flow[e][p], Flows(p, b, d))
Held(p, b, d) == snap[b].shares[p] > 0 \/ \E e \in Flows(p, b, d) : Flow[e][p] > 0

NetShares(rows, p, b, d) ==
    snap[b].shares[p] + FlowSum(p, b, d)
        + Sum(LAMBDA k : SharesOf(rows[k]), ShareWindow(rows, p, b, d))
CashOn(rows, p, b, d) ==
    snap[b].cash[p]
        + Sum(LAMBDA k : CashOf(rows[k]), CashWindow(rows, p, b, d))

\* Mutant: the receivable ends the day after the shares have arrived
LateUnderWay(r, d) ==
    \/ r.kind = "reinvest_dividend" /\ r.arrive # NoDate /\ r.ex <= d /\ d <= r.arrive
    \/ r.kind = "cash_dividend" /\ r.pay # NoDate /\ r.ex <= d /\ d < r.pay
    \/ r.status = "pending" /\ SameDayPending(r) /\ r.ex <= d

\* list_reinvest_receivables, list_cash_dividend_in_transit: an event is under
\* way from its ex date to the day before it is settled
UnderWay(r, d) ==
    \/ r.kind = "reinvest_dividend" /\ r.arrive # NoDate /\ r.ex <= d /\ d < r.arrive
    \/ r.kind = "cash_dividend" /\ r.pay # NoDate /\ r.ex <= d /\ d < r.pay
    \/ r.status = "pending" /\ SameDayPending(r) /\ r.ex <= d

\* Mutant: a pending event is always valued with the position being built
LiveBase(r, d, live) == IF r.status = "confirmed" THEN r.base ELSE live[r.platform]

\* _resolve_base: a settled base, the position being built, or the stored one
BaseOf(r, d, live) ==
    IF r.status = "confirmed" THEN r.base
    ELSE IF r.ent = d THEN live[r.platform]
    ELSE StoredBase(snap, r.platform, r.ent)

InTransit(rows, d, live) ==
    [k \in {j \in DOMAIN rows :
              /\ rows[j].status # "cancelled" /\ UnderWay(rows[j], d)
              /\ BaseOf(rows[j], d, live) > 0} |->
        BaseOf(rows[k], d, live) * rows[k].qty]

\* a position at or below zero gets no row
DayRow(rows, b, d) ==
    LET net(p) == NetShares(rows, p, b, d)
        shares == [p \in Platforms |-> IF net(p) > 0 THEN net(p) ELSE 0]
    IN  [shares |-> shares,
         cash |-> [p \in Platforms |-> CashOn(rows, p, b, d)],
         transit |-> InTransit(rows, d, shares),
         dropped |-> [p \in Platforms |-> snap[b].dropped[p] + shares[p] - net(p)],
         stale |-> snap[b].stale]

\* POSITION_NOT_FOUND
Applicable(rows, b, d) ==
    \A p \in Platforms : ShareWindow(rows, p, b, d) # {} => Held(p, b, d)

Priced(row, d) == (\E p \in Platforms : row.shares[p] > 0) => d <= today

\* Mutant: the cascade goes by the ex date
ExOn(d) == {e \in Events : <<e, "self">> \in Confirmed /\ events[<<e, "self">>].ex = d}

\* _cascade_unconfirm_share_change_events: the events entitled on day d
EntitledOn(d) ==
    {e \in Events : <<e, "self">> \in Confirmed /\ events[<<e, "self">>].ent = d}

\* auto_confirm_after_snapshot: shares due on the next trading day, and cash
\* dividends on the day before they are paid or when they lag behind; never an
\* announcement
Due(rows, l, n) ==
    {e \in Events :
        /\ <<e, "self">> \in DOMAIN rows /\ rows[<<e, "self">>].status = "pending"
        /\ LET r == rows[<<e, "self">>]
           IN  IF r.kind = "cash_dividend"
               THEN r.ent <= l /\ (r.ex < l \/ CashDay(r) <= n)
               ELSE ShareDay(r) = n}

AutoConfirmed(rows, chain, l) ==
    LET next == {n \in TradingDays : IsTradingDaysAfter(l, 1, n) /\ n <= today}
        self(e) == rows[<<e, "self">>]
        done == {e \in UNION {Due(rows, l, n) : n \in next} : Confirmable(chain, self(e))}
        new == [k \in UNION {DOMAIN RowsOf(chain, e, self(e)) : e \in done} |->
                  RowsOf(chain, k[1], self(k[1]))[k]]
    IN  PutAll(rows, new)

\* generate_daily_snapshots, and with it what is confirmed afterwards
Build(d, thenConfirm) ==
    /\ d \in TradingDays /\ NoEventDue(d)
    /\ LET rows == Withdrawn(EntitledOn(d))
           b == LastSnapUpTo(d - 1)
           chain == Put(snap, d, DayRow(rows, b, d))
       IN  /\ Applicable(rows, b, d) /\ Priced(chain[d], d)
           /\ snap' = chain
           /\ events' = IF thenConfirm THEN AutoConfirmed(rows, chain, d) ELSE rows

-----------------------------------------------------------------------------
(* Requests on snapshots                                                   *)

\* POST /snapshots/generate, which confirms nothing afterwards
Generate(d) == Idle /\ FollowsChain(d) /\ Build(d, FALSE) /\ UNCHANGED <<today, tx, saved>>

\* the next day of a catch-up or of the scheduled task
Advance(d) ==
    /\ Idle /\ FollowsChain(d) /\ d \notin SnapDays /\ Build(d, TRUE)
    /\ UNCHANGED <<today, tx, saved>>

\* the scheduled task with no day to generate
ConfirmOnly ==
    /\ Idle /\ \E l \in SnapDays : IsLatest(l) /\ events' = AutoConfirmed(events, snap, l)
    /\ UNCHANGED <<snap, today, tx, saved>>

\* whether a day later than d counts on events entitled on d
CountsOn(d, e) ==
    \E k \in DOMAIN events :
        /\ events[k].status # "cancelled" /\ events[k].ent = d
        /\ d < e /\ events[k].ex <= e

\* DELETE of any one day of the chain, and each day of the bulk deletion, which
\* takes the latest first and commits day by day.  Days after it keep what they
\* counted of the events that are withdrawn.
DeleteDay(d) ==
    /\ Idle /\ d # NoDate /\ d \in SnapDays
    /\ snap' = [e \in SnapDays \ {d} |->
                  [snap[e] EXCEPT !.stale = @ \/ CountsOn(d, e)]]
    /\ events' = Withdrawn(EntitledOn(d))
    /\ UNCHANGED <<today, tx, saved>>

BeginRecalculate(start) ==
    Begins(start) /\ saved' = DB /\ UNCHANGED <<events, snap, today>>

RecalcDay == AtTradingDay /\ Build(tx.day, TRUE) /\ NextInTx /\ UNCHANGED <<today, saved>>
RecalcSkipDay == AtHoliday /\ NextInTx /\ UNCHANGED <<events, snap, today, saved>>

Commit ==
    /\ AtEnd /\ tx' = NoTx /\ saved' = NoDB
    /\ UNCHANGED <<events, snap, today>>

\* whatever fails on the way, the whole recalculation is rolled back
Rollback ==
    /\ ~Idle /\ events' = saved.events /\ snap' = saved.snap
    /\ tx' = NoTx /\ saved' = NoDB
    /\ UNCHANGED today

NewDay == today < LastDay /\ today' = today + 1 /\ UNCHANGED <<events, snap, tx, saved>>

-----------------------------------------------------------------------------
Init ==
    /\ events = <<>>
    /\ snap = [d \in {0} |-> Opening]
    /\ today = 0 /\ tx = NoTx /\ saved = NoDB

\* the dates a request may carry or leave out
OptionalDates == Days \cup {NoDate}

NewEvent(e) ==
    \/ \E kind \in Kinds, p \in Platforms \cup {"all"}, qty \in PerShare \cup Adjustments :
         \E ent, ex \in TradingDays, pay, arrive \in OptionalDates :
            CreateEvent(e, New(kind, p, ent, ex, pay, arrive, qty))
    \/ \E p \in Platforms, ent, ex \in Days, qty \in PerShare :
         "dividend_pending" \in Kinds /\ DetectDividend(e, p, ent, ex, qty)

EventChange(e) ==
    \/ \E ent, ex \in Days, pay, arrive \in OptionalDates, qty \in PerShare \cup Adjustments :
         UpdateEvent(e, ent, ex, pay, arrive, qty)
    \/ \E kind \in {"cash_dividend", "reinvest_dividend"}, pay, arrive \in OptionalDates :
         ConfirmWithChoice(e, kind, pay, arrive)
    \/ ConfirmEvent(e) \/ CancelEvent(e) \/ UnconfirmEvent(e)
    \/ \E r \in Platforms \cup {"self"} : DeleteEvent(<<e, r>>)

EventRequest ==
    \E e \in Events :
        /\ Idle
        /\ \/ Unused(e) /\ NewEvent(e)
           \/ ~Unused(e) /\ EventChange(e)

SnapshotRequest ==
    \/ \E d \in TradingDays : Generate(d) \/ Advance(d) \/ DeleteDay(d)
    \/ \E d \in Days : BeginRecalculate(d)
    \/ ConfirmOnly \/ RecalcDay \/ RecalcSkipDay \/ Commit \/ Rollback

Next == EventRequest \/ SnapshotRequest \/ NewDay

Spec == Init /\ [][Next]_vars

-----------------------------------------------------------------------------
(* Properties                                                              *)

IsDatabase(db) ==
    /\ DOMAIN db.events \subseteq Events \X (Platforms \cup {"self"})
    /\ \A k \in DOMAIN db.events : db.events[k] \in Event
    /\ DOMAIN db.snap \subseteq TradingDays \cup {0} /\ 0 \in DOMAIN db.snap

\* Every event is a row of its type, snapshots lie on trading days, and a rollback
\* restores such tables.
TypeOK ==
    /\ IsDatabase(DB) /\ today \in 0..LastDay
    /\ tx \in [day : 0..LastDay + 1, end : 0..LastDay]
    /\ IF Idle THEN saved = NoDB ELSE IsDatabase(saved)

\* What a confirmed event was computed from is what the snapshot of its
\* entitlement date says now, though that day may have been deleted and rebuilt
\* since (_cascade_unconfirm_share_change_events).
EntitlementFromStored ==
    Idle => \A k \in Confirmed :
        LET r == events[k]
        IN  /\ r.ent \in SnapDays
            /\ r.platform # "all" => r.base = StoredBase(snap, r.platform, r.ent)

\* A child of a split exists only under its confirmed parent, with the parent's
\* dates: reversals and cascades leave no orphans that would be booked again.
ChildrenAgree ==
    \A k \in DOMAIN events : Child(k) =>
        LET parent == <<k[1], "self">>
        IN  /\ parent \in Confirmed /\ k \in Confirmed
            /\ events[k].ex = events[parent].ex /\ events[k].ent = events[parent].ent

\* Each event is in the snapshots exactly once: on every stored day from its ex
\* date on, in transit or settled, with what the shares of its entitlement date
\* give, whichever of the ways through announcement, choice, early confirmation,
\* withdrawal and rebuild it went (list_cash_dividend_in_transit hands over to
\* the windows of _generate_portfolio_position).  Only days a counted event, or
\* the day it was entitled on, was deleted under are out of step, until they are
\* recalculated.
Worth(r) ==
    IF Dividend(r) THEN StoredBase(snap, r.platform, r.ent) * r.qty ELSE SharesOf(r)
Counted(d) ==
    {k \in DOMAIN events :
        events[k].status # "cancelled" /\ events[k].platform # "all" /\ events[k].ex <= d}
CreditedOnce ==
    Idle => \A d \in SnapDays : ~snap[d].stale =>
        LET row == snap[d]
        IN  Total(row.shares) + Total(row.cash) + Total(row.transit) - Total(row.dropped)
              = Total(OpeningShares)
                + Sum(LAMBDA p : FlowSum(p, 0, d), Platforms)
                + Sum(LAMBDA k : Worth(events[k]), Counted(d))

\* No pending event stands in the way of rebuilding a day that was built before:
\* what a chain has passed it can pass again.  Only the events of a day deleted
\* inside the chain stand in the way of the days that had counted them, until a
\* recalculation has built that day again.
PendingEventsAhead ==
    Idle => \A d \in SnapDays \ {0}, k \in Pending :
        NotDue(events[k], d) \/ (events[k].ent \in Missing(SnapDays) /\ snap[d].stale)

\* Recalculating a chain no day is missing from gives the same chain, though it
\* withdraws and confirms again the events entitled on the way, unless an event
\* was deleted from it, or a child from a split that will be split anew.
Whole(rows) ==
    \A k \in DOMAIN rows : rows[k].status = "confirmed" /\ rows[k].platform = "all" =>
        rows[k].base = Sum(LAMBDA j : rows[j].base,
                           {j \in DOMAIN rows : j[1] = k[1] /\ Child(j)})
RecalculationRepeats ==
    [][Commit /\ Whole(saved.events) /\ Missing(DOMAIN saved.snap) = {}
            /\ (\A d \in DOMAIN saved.snap : ~saved.snap[d].stale)
        => \A d \in DOMAIN saved.snap : snap[d] = saved.snap[d]]_vars
=============================================================================
