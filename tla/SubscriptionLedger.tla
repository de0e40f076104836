------------------------- MODULE SubscriptionLedger -------------------------
(***************************************************************************)
(* The bookkeeping core of one portfolio: subscriptions and redemptions    *)
(* ("subs"), the CASH trade leg paired with each confirmed one, and the    *)
(* chain of daily snapshots that prices and freezes them.                  *)
(*                                                                         *)
(* Tables are partial functions: a row exists iff its key is in DOMAIN.    *)
(* A snapshot-writing request is one database transaction (tx) made of     *)
(* several steps; the database variables hold what the transaction itself  *)
(* sees, and "saved" what a rollback restores.  Requests are serialised    *)
(* here: no other request starts while a transaction is open.              *)
(***************************************************************************)
EXTENDS Integers, FiniteSets, FiniteSetsExt, Functions

CONSTANTS
    SubIds,         \* identifiers subscriptions may take
    Investors,      \* investor codes
    LastDay,        \* last calendar day of the bounded calendar
    TradingDays,    \* the open days of the calendar, a subset of 1..LastDay
    Amounts,        \* amounts an investor subscribes
    ShareCounts,    \* share counts an investor redeems
    Navs,           \* unit prices the market may give a snapshot
    Scale,          \* the unit prices n stand for n / Scale, 10000 in the code
    DeleteAnyDay,   \* whether the single-day DELETE endpoint is used on any date
    RecalcAnyStart  \* whether a recalculation may start after a missing day

NoDate == 0
Days == 1..LastDay

ASSUME CalendarAssumption ==
    LastDay \in Nat /\ TradingDays \subseteq Days

ASSUME QuantityAssumption ==
    /\ Amounts \subseteq Nat \ {0} /\ ShareCounts \subseteq Nat \ {0}
    /\ Navs \subseteq Nat \ {0} /\ Scale \in Nat \ {0}

ASSUME ModeAssumption == DeleteAnyDay \in BOOLEAN /\ RecalcAnyStart \in BOOLEAN

VARIABLES
    pstatus,    \* portfolio.status
    startedAt,  \* portfolio.started_at, NoDate when NULL
    subs,       \* table subscription: id -> row
    legs,       \* CASH rows of table trade with transfer_group sub_{id}: id -> row
    snap,       \* portfolio_value_snapshot and its two sister tables: day -> row
    tx,         \* the snapshot transaction in progress
    saved       \* the committed database a rollback of tx restores

vars == <<pstatus, startedAt, subs, legs, snap, tx, saved>>
dbvars == <<pstatus, startedAt, subs, legs, snap>>

-----------------------------------------------------------------------------
(* Money: quantities are whole cents, rounded half up (utils/quantize)      *)

Par == Scale    \* the unit price 1.0000 of the initial window

RoundHalfUp(x, y) == (2 * x + y) \div (2 * y)
SharesOf(amount, nav) == RoundHalfUp(amount * Scale, nav)
AmountOf(shares, nav) == RoundHalfUp(shares * nav, Scale)

-----------------------------------------------------------------------------
(* Rows                                                                    *)

Subscription ==
    [status : {"pending", "confirmed", "cancelled"},
     type : {"subscribe", "redeem"}, investor : Investors,
     apply : TradingDays, confirm : TradingDays,
     amount : Int, shares : Int, nav : Nat]

CashLeg == [type : {"buy", "sell"}, amount : Int,
            trade : TradingDays, confirm : TradingDays]

\* nav, shares and cash are the snapshot's unit_price, total_shares and CASH
\* row; held is investor_holding (0: no row).  booked is a history variable:
\* what each subscription contributed to total_shares through the window sums.
Snapshot(nav, shares, cash, held, booked) ==
    [nav |-> nav, shares |-> shares, cash |-> cash, held |-> held,
     booked |-> booked]

IsTable(t, keys, rows) ==
    DOMAIN t \subseteq keys /\ t \in [DOMAIN t -> rows]

DB == [pstatus |-> pstatus, startedAt |-> startedAt, subs |-> subs,
       legs |-> legs, snap |-> snap]

EmptyTable == [k \in {} |-> NoDate]
NoDB == <<>>

NoTx == [phase |-> "idle", kind |-> "none", day |-> NoDate, end |-> NoDate,
         todo |-> {}]
Idle == tx = NoTx

Sum(f(_), S) == SumFunctionOnSet([x \in S |-> f(x)], S)

-----------------------------------------------------------------------------
(* Calendar (trading_utils)                                                *)

IsNextTradingDay(d, c) ==
    /\ c \in TradingDays /\ c > d
    /\ \A e \in TradingDays : e > d => c <= e

-----------------------------------------------------------------------------
(* Queries                                                                 *)

SnapDays == DOMAIN snap
IsLatest(d) == d \in SnapDays /\ \A e \in SnapDays : e <= d
\* the last snapshot strictly before d, as a set of at most one day
Before(d) == {p \in SnapDays : p < d /\ \A e \in SnapDays : e < d => e <= p}

Confirmed == {s \in DOMAIN subs : subs[s].status = "confirmed"}
Pending == {s \in DOMAIN subs : subs[s].status = "pending"}
Arrivals == {s \in Confirmed : subs[s].type = "subscribe"}

IsEarliestArrival(d, arrivals) ==
    IF arrivals = {} THEN d = NoDate
    ELSE /\ \E s \in arrivals : subs[s].confirm = d
         /\ \A s \in arrivals : d <= subs[s].confirm

SignedShares(s) ==
    IF subs[s].type = "subscribe" THEN subs[s].shares ELSE -subs[s].shares
SignedCash(s) == IF legs[s].type = "buy" THEN legs[s].amount ELSE -legs[s].amount

SnapshotsUpTo(asOf) == {d \in SnapDays : d <= asOf}

\* calculate_investor_available_shares: the investor's own last holding row up
\* to asOf, less pending redemptions, less confirmed ones after the last snapshot
LastHolding(i, asOf) ==
    LET rows == {d \in SnapshotsUpTo(asOf) : snap[d].held[i] # 0}
    IN  IF rows = {} THEN 0 ELSE snap[Max(rows)].held[i]

RedeemedSince(i, asOf) ==
    LET days == SnapshotsUpTo(asOf)
        uncovered(s) == /\ \A d \in days : d < subs[s].confirm
                        /\ days # {} => subs[s].confirm <= asOf
    IN  {s \in DOMAIN subs :
            /\ subs[s].type = "redeem" /\ subs[s].investor = i
            /\ \/ subs[s].status = "pending"
               \/ subs[s].status = "confirmed" /\ uncovered(s)}

AvailableShares(i, asOf) ==
    LastHolding(i, asOf) - Sum(LAMBDA s : subs[s].shares, RedeemedSince(i, asOf))

\* calculate_available_cash for the CASH rows this module has
AvailableCash(asOf) ==
    LET days == SnapshotsUpTo(asOf)
        base == IF days = {} THEN 0 ELSE snap[Max(days)].cash
        new == {s \in DOMAIN legs : \A d \in days : d < legs[s].confirm}
        in == {s \in new : legs[s].type = "buy" /\ legs[s].confirm <= asOf}
        out == {s \in new : legs[s].type = "sell" /\ legs[s].trade <= asOf}
    IN  base + Sum(SignedCash, in \cup out)

-----------------------------------------------------------------------------
(* Requests of subscription_service                                        *)

\* DATE_BEFORE_SNAPSHOT: the confirm date must lie after the latest snapshot
AfterLatestSnapshot(c) == \A d \in SnapDays : d < c

Put(table, key, row) ==
    [k \in DOMAIN table \cup {key} |-> IF k = key THEN row ELSE table[k]]
Drop(table, keys) == [k \in DOMAIN table \ keys |-> table[k]]

NewSub(type, i, d, c, amount, shares) ==
    [status |-> "pending", type |-> type, investor |-> i, apply |-> d,
     confirm |-> c, amount |-> amount, shares |-> shares, nav |-> 0]

CreateSubscribe(s, i, d, a) ==
    /\ Idle /\ s \notin DOMAIN subs /\ d \in TradingDays
    /\ \E c \in TradingDays :
         /\ IsNextTradingDay(d, c) /\ AfterLatestSnapshot(c)
         /\ subs' = Put(subs, s, NewSub("subscribe", i, d, c, a, 0))
    /\ UNCHANGED <<pstatus, startedAt, legs, snap, tx, saved>>

CreateRedeem(s, i, d, q) ==
    /\ Idle /\ s \notin DOMAIN subs /\ d \in TradingDays
    /\ q <= AvailableShares(i, d)
    /\ \E c \in TradingDays :
         /\ IsNextTradingDay(d, c) /\ AfterLatestSnapshot(c)
         /\ subs' = Put(subs, s, NewSub("redeem", i, d, c, 0, q))
    /\ UNCHANGED <<pstatus, startedAt, legs, snap, tx, saved>>

\* update_subscription with a new apply_date; the confirm date follows it, and a
\* redemption is checked again with its own pending shares added back
UpdateApplyDate(s, d) ==
    /\ Idle /\ s \in Pending /\ d \in TradingDays
    /\ subs[s].type = "redeem" =>
         subs[s].shares <= AvailableShares(subs[s].investor, d) + subs[s].shares
    /\ \E c \in TradingDays :
         /\ IsNextTradingDay(d, c) /\ AfterLatestSnapshot(c)
         /\ subs' = [subs EXCEPT ![s].apply = d, ![s].confirm = c]
    /\ UNCHANGED <<pstatus, startedAt, legs, snap, tx, saved>>

\* update_subscription with a new amount or share count only
UpdateQuantity(s, n) ==
    /\ Idle /\ s \in Pending
    /\ \/ /\ subs[s].type = "subscribe" /\ n \in Amounts
          /\ subs' = [subs EXCEPT ![s].amount = n]
       \/ /\ subs[s].type = "redeem" /\ n \in ShareCounts
          /\ n <= AvailableShares(subs[s].investor, subs[s].apply) + subs[s].shares
          /\ subs' = [subs EXCEPT ![s].shares = n]
    /\ UNCHANGED <<pstatus, startedAt, legs, snap, tx, saved>>

CancelSubscription(s) ==
    /\ Idle /\ s \in Pending
    /\ subs' = [subs EXCEPT ![s].status = "cancelled"]
    /\ UNCHANGED <<pstatus, startedAt, legs, snap, tx, saved>>

DeleteSubscription(s) ==
    /\ Idle /\ s \in DOMAIN subs \ Confirmed
    /\ subs' = Drop(subs, {s})
    /\ UNCHANGED <<pstatus, startedAt, legs, snap, tx, saved>>

-----------------------------------------------------------------------------
(* Confirmation                                                            *)

\* Mutant: no arrival gate
NoArrivalGate(s) == TRUE

\* CONFIRM_BEFORE_STARTED: no subscription may arrive before the first one
ArrivalGate(s) ==
    subs[s].type = "subscribe" /\ startedAt # NoDate
        => subs[s].confirm >= startedAt

\* the unit price a confirmation uses: the snapshot of the application day, or
\* Par while no cash had arrived by then; no price otherwise (NAV_NOT_AVAILABLE)
PriceChoices(s) ==
    IF subs[s].apply \in SnapDays THEN {snap[subs[s].apply].nav}
    ELSE IF \E r \in Arrivals : subs[r].confirm <= subs[s].apply THEN {}
    ELSE {Par}

\* a zero unit price makes amount / nav raise, so the confirmation fails
UsablePrices(s) ==
    {n \in PriceChoices(s) : subs[s].type = "subscribe" => n # 0}

ConfirmedRow(s, nav) ==
    LET row == [subs[s] EXCEPT !.status = "confirmed", !.nav = nav]
    IN  IF row.type = "subscribe"
        THEN [row EXCEPT !.shares = SharesOf(row.amount, nav)]
        ELSE [row EXCEPT !.amount = AmountOf(row.shares, nav)]

LegOf(row) ==
    [type |-> IF row.type = "subscribe" THEN "buy" ELSE "sell",
     amount |-> row.amount, trade |-> row.apply, confirm |-> row.confirm]

\* the writes of confirm_single_subscription
ConfirmWrites(s, nav) ==
    LET row == ConfirmedRow(s, nav)
        arrives == row.type = "subscribe"
    IN  /\ subs' = [subs EXCEPT ![s] = row]
        /\ legs' = Put(legs, s, LegOf(row))
        /\ pstatus' = IF arrives /\ Arrivals = {} THEN "active" ELSE pstatus
        /\ startedAt' = IF arrives /\ startedAt = NoDate THEN row.confirm
                        ELSE startedAt

ConfirmSubscription(s) ==
    /\ Idle /\ s \in Pending /\ ArrivalGate(s)
    /\ \E nav \in UsablePrices(s) :
         /\ subs[s].type = "redeem" =>
              AmountOf(subs[s].shares, nav) <= AvailableCash(subs[s].confirm)
         /\ ConfirmWrites(s, nav)
    /\ UNCHANGED <<snap, tx, saved>>

PendingRow(row) ==
    IF row.type = "subscribe"
    THEN [row EXCEPT !.status = "pending", !.nav = 0, !.shares = 0]
    ELSE [row EXCEPT !.status = "pending", !.nav = 0, !.amount = 0]

\* Mutant: the paired CASH leg survives the cancelled confirmation
UnconfirmKeepingLegs(S) ==
    /\ subs' = [s \in DOMAIN subs |->
                  IF s \in S THEN PendingRow(subs[s]) ELSE subs[s]]
    /\ UNCHANGED <<legs, pstatus>>
    /\ \E d \in Days \cup {NoDate} :
         IsEarliestArrival(d, Arrivals \ S) /\ startedAt' = d

\* the writes of unconfirm_single_subscription, for every row of S in turn; the
\* next trading day of apply_date is the confirm date the row already has
UnconfirmWrites(S) ==
    /\ subs' = [s \in DOMAIN subs |->
                  IF s \in S THEN PendingRow(subs[s]) ELSE subs[s]]
    /\ legs' = Drop(legs, S)
    /\ IF S = {} THEN UNCHANGED <<startedAt, pstatus>>
       ELSE /\ \E d \in Days \cup {NoDate} :
                 IsEarliestArrival(d, Arrivals \ S) /\ startedAt' = d
            /\ pstatus' = IF Arrivals \ S = {} THEN "draft" ELSE pstatus

UnconfirmSubscription(s) ==
    /\ Idle /\ s \in Confirmed
    /\ \A d \in SnapDays : d < subs[s].confirm
    /\ UnconfirmWrites({s})
    /\ UNCHANGED <<snap, tx, saved>>

-----------------------------------------------------------------------------
(* Snapshot transactions.  A phase says what the transaction does next:      *)
(*   precheck  recalculate: look at the day, validate, clear it              *)
(*   checks    generate_daily_snapshots: status, continuity, history gap     *)
(*   before    auto_confirm_before_snapshot, one subscription a step         *)
(*   build     the three tables of the day                                   *)
(*   after     auto_confirm_after_snapshot, one subscription a step          *)
(*   commit    nothing left but COMMIT                                       *)

Begin(phase, kind, day, end, todo) ==
    /\ Idle
    /\ tx' = [phase |-> phase, kind |-> kind, day |-> day, end |-> end,
              todo |-> todo]
    /\ saved' = DB
    /\ UNCHANGED dbvars

\* POST /snapshots/generate: one day, nothing is confirmed afterwards
BeginGenerate(d) == Begin("checks", "generate", d, d, {})

\* generate_next_snapshot, one day of catch_up_snapshots, one day of the
\* scheduled task: the day after the latest snapshot; only the scheduled task
\* starts a portfolio without snapshots
BeginAdvance(d) ==
    /\ \/ SnapDays = {} /\ pstatus = "active"
       \/ \E l \in SnapDays : IsLatest(l) /\ IsNextTradingDay(l, d)
    /\ Begin("checks", "advance", d, d, {})

\* recalculate_snapshots over start..end, extended to the latest snapshot
RecalcStart(start) ==
    \/ RecalcAnyStart
    \/ start \in SnapDays
    \/ \E l \in SnapDays : IsLatest(l) /\ IsNextTradingDay(l, start)
    \/ SnapDays = {} /\ \A s \in Confirmed : start <= subs[s].confirm

BeginRecalculate(start, end) ==
    /\ start <= end /\ RecalcStart(start)
    /\ \E last \in SnapDays \cup {end} :
         /\ end <= last /\ \A d \in SnapDays : d <= last
         /\ Begin("precheck", "recalc", start, last, {})

\* the scheduled task with no day to generate: only the automatic confirmation
\* Mutant: what was applied for on the day itself is left out
DueStrictlyAfter(d) == {s \in Pending : subs[s].apply < d}
DueAfter(d) == {s \in Pending : subs[s].apply <= d}
BeginConfirmOnly ==
    \E l \in SnapDays :
        IsLatest(l) /\ pstatus = "active" /\ Begin("after", "confirm", l, l, DueAfter(l))

Goto(phase, todo) ==
    tx' = [tx EXCEPT !.phase = phase, !.todo = todo] /\ UNCHANGED saved

\* Mutant: the comparison with the confirm date off by one day
NoPendingOverdue(d) == \A s \in Pending : d <= subs[s].confirm

\* _check_pending_transactions
NoPendingDue(d) == \A s \in Pending : d < subs[s].confirm

\* Mutant: the cascade forgets redemptions
SubscribesPricedBy(d) == {s \in Arrivals : subs[s].apply = d}

\* _delete_existing_snapshots: revert what was confirmed for an application on
\* this day, then delete the day from the three tables
PricedBy(d) == {s \in Confirmed : subs[s].apply = d}
ClearDay(d) ==
    UnconfirmWrites(PricedBy(d)) /\ snap' = Drop(snap, {d})

RecalcSkipDay ==
    /\ tx.phase = "precheck" /\ tx.day \notin TradingDays /\ tx.day < tx.end
    /\ tx' = [tx EXCEPT !.day = @ + 1]
    /\ UNCHANGED <<dbvars, saved>>

RecalcClearDay ==
    /\ tx.phase = "precheck" /\ tx.day \in TradingDays /\ NoPendingDue(tx.day)
    /\ ClearDay(tx.day)
    /\ Goto("checks", {})

\* Mutant: any day after the latest snapshot will do
NotBackwards(d) == \A l \in SnapDays : l <= d

\* _validate_snapshot_continuity and _validate_no_silent_history_gap
Continuous(d) ==
    \A l \in SnapDays : IsLatest(l) => d = l \/ IsNextTradingDay(l, d)
NoHistoryGap(d) == SnapDays = {} => \A s \in Confirmed : d <= subs[s].confirm

\* auto_confirm_before_snapshot: needs a baseline, takes what falls due by d
DueBefore(d) ==
    {s \in Pending : /\ SnapDays # {} /\ AfterLatestSnapshot(subs[s].confirm)
                     /\ subs[s].confirm <= d}

CheckDay ==
    /\ tx.phase = "checks" /\ pstatus = "active" /\ tx.day \in TradingDays
    /\ tx.kind # "recalc" => Continuous(tx.day) /\ NoHistoryGap(tx.day)
    /\ Goto("before", DueBefore(tx.day))
    /\ UNCHANGED dbvars

\* one confirmation in a savepoint, oldest application first; what the business
\* rules refuse stays pending and the loop goes on
NextDue(s) == s \in tx.todo /\ \A r \in tx.todo : subs[s].apply <= subs[r].apply

AutoConfirm(s) ==
    /\ tx.phase \in {"before", "after"} /\ NextDue(s) /\ ArrivalGate(s)
    /\ \E nav \in UsablePrices(s) : ConfirmWrites(s, nav)
    /\ Goto(tx.phase, tx.todo \ {s})
    /\ UNCHANGED snap

AutoConfirmRefused(s) ==
    /\ tx.phase \in {"before", "after"} /\ NextDue(s)
    /\ ~ArrivalGate(s) \/ UsablePrices(s) = {}
    /\ Goto(tx.phase, tx.todo \ {s})
    /\ UNCHANGED dbvars

ValidateAndClear ==
    /\ tx.phase = "before" /\ tx.todo = {} /\ NoPendingDue(tx.day)
    /\ ClearDay(tx.day)
    /\ Goto("build", {})

-----------------------------------------------------------------------------
(* The three tables of a day, each accumulated from its own previous day     *)

\* Mutant: the window also takes the previous day again
WideWindow(c, P, d) ==
    c <= d /\ IF P = {} THEN c = d ELSE \A p \in P : p <= c

\* the rows a day takes over: after the previous day P up to d, or, without a
\* previous day, those of d alone
InWindow(c, P, d) == c <= d /\ IF P = {} THEN c = d ELSE \A p \in P : p < c

LegWindow(d) == {s \in DOMAIN legs : InWindow(legs[s].confirm, Before(d), d)}
SubWindow(P, d) == {s \in Confirmed : InWindow(subs[s].confirm, P, d)}

\* investor_holding looks back to the last day on which it has any row
HoldersBefore(d) ==
    LET days == {p \in SnapDays : p < d /\ \E i \in Investors : snap[p].held[i] # 0}
    IN  {p \in days : \A e \in days : e <= p}

\* Mutant: the base is the investor's own last row
HeldSinceOwnRow(d) ==
    LET own(i) == {s \in SubWindow(HoldersBefore(d), d) : subs[s].investor = i}
        total(i) == LastHolding(i, d - 1) + Sum(SignedShares, own(i))
    IN  [i \in Investors |-> IF total(i) > 0 THEN total(i) ELSE 0]

HeldOn(d) ==
    LET P == HoldersBefore(d)
        base(i) == IF P = {} THEN 0 ELSE snap[Max(P)].held[i]
        own(i) == {s \in SubWindow(P, d) : subs[s].investor = i}
        total(i) == base(i) + Sum(SignedShares, own(i))
    IN  [i \in Investors |-> IF total(i) > 0 THEN total(i) ELSE 0]

CashOn(d) ==
    LET P == Before(d)
    IN  (IF P = {} THEN 0 ELSE snap[Max(P)].cash) + Sum(SignedCash, LegWindow(d))

\* shares and unit price of the first snapshot: the cash is the value
FirstRow(d) ==
    LET cash == CashOn(d)
    IN  Snapshot(IF cash > 0 THEN Par ELSE 0, IF cash > 0 THEN cash ELSE 1,
                 cash, HeldOn(d),
                 [s \in SubIds |-> IF s \in LegWindow(d) THEN SignedCash(s) ELSE 0])

NextRow(p, d, nav) ==
    LET window == SubWindow({p}, d)
        shares == snap[p].shares + Sum(SignedShares, window)
    IN  Snapshot(IF shares > 0 THEN nav ELSE Par, shares, CashOn(d), HeldOn(d),
                 [s \in SubIds |-> IF s \in window
                                  THEN snap[p].booked[s] + SignedShares(s)
                                  ELSE snap[p].booked[s]])

\* NEGATIVE_CASH: a day whose cash would be negative is refused
CashCovered(d) == CashOn(d) >= 0

AfterBuild ==
    IF tx.kind = "generate" THEN Goto("commit", {})
    ELSE Goto("after", DueAfter(tx.day))

\* no position at all: the day is skipped, and the request goes on
BuildNothing ==
    /\ tx.phase = "build" /\ Before(tx.day) = {} /\ LegWindow(tx.day) = {}
    /\ AfterBuild
    /\ UNCHANGED dbvars

BuildFirst ==
    /\ tx.phase = "build" /\ Before(tx.day) = {} /\ LegWindow(tx.day) # {}
    /\ CashCovered(tx.day)
    /\ snap' = Put(snap, tx.day, FirstRow(tx.day))
    /\ AfterBuild
    /\ UNCHANGED <<pstatus, startedAt, subs, legs>>

BuildNext ==
    /\ tx.phase = "build" /\ CashCovered(tx.day)
    /\ \E p \in Before(tx.day), nav \in Navs :
         snap' = Put(snap, tx.day, NextRow(p, tx.day, nav))
    /\ AfterBuild
    /\ UNCHANGED <<pstatus, startedAt, subs, legs>>

-----------------------------------------------------------------------------
(* End of a transaction                                                    *)

\* Mutant: the loop bound off by one
RecalcOneDayMore ==
    /\ tx.phase = "after" /\ tx.todo = {} /\ tx.kind = "recalc" /\ tx.day <= tx.end
    /\ tx' = [tx EXCEPT !.phase = "precheck", !.day = @ + 1]
    /\ UNCHANGED <<dbvars, saved>>

RecalcNextDay ==
    /\ tx.phase = "after" /\ tx.todo = {} /\ tx.kind = "recalc" /\ tx.day < tx.end
    /\ tx' = [tx EXCEPT !.phase = "precheck", !.day = @ + 1]
    /\ UNCHANGED <<dbvars, saved>>

DaysDone ==
    \/ tx.phase = "commit"
    \/ tx.phase = "after" /\ tx.todo = {} /\ ~(tx.kind = "recalc" /\ tx.day < tx.end)
    \/ tx.phase = "precheck" /\ tx.day \notin TradingDays /\ tx.day = tx.end

Commit ==
    /\ DaysDone
    /\ tx' = NoTx /\ saved' = NoDB
    /\ UNCHANGED dbvars

\* any error of any step rolls everything back: a failed check, MISSING_NAV,
\* NEGATIVE_CASH, a deadlock whose retries are used up
Rollback ==
    /\ ~Idle
    /\ pstatus' = saved.pstatus /\ startedAt' = saved.startedAt
    /\ subs' = saved.subs /\ legs' = saved.legs /\ snap' = saved.snap
    /\ tx' = NoTx /\ saved' = NoDB

\* DELETE /snapshots/{code}/{date}, and each day of the bulk delete, which
\* takes the latest day first and commits day by day
DeleteSnapshot(d) ==
    /\ Idle /\ (DeleteAnyDay \/ IsLatest(d))
    /\ ClearDay(d)
    /\ UNCHANGED <<tx, saved>>

-----------------------------------------------------------------------------
Init ==
    /\ pstatus = "draft" /\ startedAt = NoDate
    /\ subs = EmptyTable /\ legs = EmptyTable /\ snap = EmptyTable
    /\ tx = NoTx /\ saved = NoDB

Request ==
    \/ \E s \in SubIds, i \in Investors, d \in TradingDays :
         \/ \E a \in Amounts : CreateSubscribe(s, i, d, a)
         \/ \E q \in ShareCounts : CreateRedeem(s, i, d, q)
    \/ \E s \in SubIds, d \in TradingDays : UpdateApplyDate(s, d)
    \/ \E s \in SubIds, n \in Amounts \cup ShareCounts : UpdateQuantity(s, n)
    \/ \E s \in SubIds :
         \/ CancelSubscription(s) \/ DeleteSubscription(s)
         \/ ConfirmSubscription(s) \/ UnconfirmSubscription(s)

SnapshotRequest ==
    \/ \E d \in TradingDays : BeginGenerate(d) \/ BeginAdvance(d) \/ DeleteSnapshot(d)
    \/ \E a, b \in Days : BeginRecalculate(a, b)
    \/ BeginConfirmOnly

TxStep ==
    \/ RecalcSkipDay \/ RecalcClearDay \/ CheckDay
    \/ \E s \in SubIds : AutoConfirm(s) \/ AutoConfirmRefused(s)
    \/ ValidateAndClear
    \/ BuildNothing \/ BuildFirst \/ BuildNext
    \/ RecalcNextDay \/ Commit \/ Rollback

Next == Request \/ SnapshotRequest \/ TxStep

Spec == Init /\ [][Next]_vars

-----------------------------------------------------------------------------
(* Properties                                                              *)

IsDatabase(db) ==
    /\ db.pstatus \in {"draft", "active"} /\ db.startedAt \in Days \cup {NoDate}
    /\ IsTable(db.subs, SubIds, Subscription)
    /\ IsTable(db.legs, SubIds, CashLeg)
    /\ DOMAIN db.snap \subseteq TradingDays
    /\ \A d \in DOMAIN db.snap : db.snap[d].nav \in Nat

\* Every table holds rows of its type, a recalculation stays in the calendar, and
\* a rollback restores such tables.
TypeOK ==
    /\ IsDatabase(DB)
    /\ tx \in [phase : {"idle", "precheck", "checks", "before", "build", "after", "commit"},
               kind : {"none", "generate", "advance", "recalc", "confirm"},
               day : Days \cup {NoDate}, end : Days \cup {NoDate},
               todo : SUBSET SubIds]
    /\ IF Idle THEN saved = NoDB ELSE IsDatabase(saved)

\* A subscription has its CASH leg exactly while it is confirmed, and the leg
\* carries the amount, direction and dates the confirmation wrote, whichever
\* request, cascade or automatic confirmation touched it last
\* (confirm_single_subscription, unconfirm_single_subscription).
CashLegPaired ==
    /\ DOMAIN legs = Confirmed
    /\ \A s \in Confirmed : legs[s] = LegOf(subs[s])

\* started_at is the earliest arrival among the confirmed subscriptions and NULL
\* without one, and the portfolio is active exactly when there is one: the
\* invariant the arrival gate and the first-window price rest on (#180).
StartedAtIsFirstArrival ==
    /\ IsEarliestArrival(startedAt, Arrivals)
    /\ pstatus = "active" <=> Arrivals # {}

\* A confirmed subscription is priced by the snapshot stored now for its
\* application day: no rebuild, recalculation, deletion or automatic
\* confirmation leaves one priced by a snapshot that has been replaced.
PricedByStoredSnapshot ==
    \A s \in Confirmed :
        subs[s].apply \in SnapDays => subs[s].nav = snap[subs[s].apply].nav

\* Every committed snapshot has counted every subscription confirmed up to its
\* day exactly once, with the shares it has now, and nothing else; its cash is
\* the sum of the legs up to that day.  This is what a full replay of the ledger
\* would give, though each row was accumulated from the previous one.
BookedExactlyOnce ==
    Idle => \A d \in SnapDays :
        /\ \A s \in SubIds :
             snap[d].booked[s] =
                 IF s \in Confirmed /\ subs[s].confirm <= d THEN SignedShares(s) ELSE 0
        /\ snap[d].cash =
             Sum(SignedCash, {s \in DOMAIN legs : legs[s].confirm <= d})

\* The holding row of an investor equals the net of the ledger up to its day, as
\* long as no redemption exceeded the balance on the way, although it is
\* accumulated from the last day with holders and not from the last snapshot
\* (_generate_investor_holding skips investors without shares).
Balance(i, d) ==
    Sum(SignedShares, {s \in Confirmed : subs[s].investor = i /\ subs[s].confirm <= d})
HoldingsFollowLedger ==
    Idle => \A i \in Investors, d \in SnapDays :
        (\A e \in SnapshotsUpTo(d) : Balance(i, e) >= 0)
            => snap[d].held[i] = Balance(i, d)

\* No pending subscription is due on or before a committed snapshot: the chain
\* can always be continued without a pending row that no automatic
\* confirmation would take (_check_pending_transactions would block it forever).
PendingLiesAhead ==
    Idle => \A s \in Pending, d \in SnapDays : d < subs[s].confirm

\* The committed snapshot days have no trading day missing between them.
SnapshotsContiguous ==
    Idle => \A d, e \in SnapDays :
        \A m \in TradingDays : d < m /\ m < e => m \in SnapDays

\* A recalculation that commits leaves confirmed every subscription that was
\* confirmed before it began: what the cascade reverted has been confirmed again.
RecalcReconfirms ==
    [][ Commit /\ tx.kind = "recalc"
        => \A s \in DOMAIN saved.subs :
               saved.subs[s].status = "confirmed" => s \in Confirmed ]_vars

\* A redemption is never confirmed at the initial unit price: an earlier arrival
\* always exists, as the comment of the price decision in
\* calculate_subscription_confirm_preview has it.
RedemptionFindsArrival ==
    [][ \A s \in Pending :
          subs[s].type = "redeem" /\ s \in Confirmed'
            => \E r \in Arrivals : subs[r].confirm <= subs[s].apply ]_vars
=============================================================================
