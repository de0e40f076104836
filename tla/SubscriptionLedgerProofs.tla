---------------------- MODULE SubscriptionLedgerProofs ----------------------
(* What SubscriptionLedger promises for every calendar, price range and set  *)
(* of subscriptions: type correctness, the pairing of CASH legs, started_at  *)
(* and the prices of confirmed subscriptions.  When days are only deleted    *)
(* from the end of the chain and recalculated from a day it reaches, the     *)
(* chain has no day missing and nothing pending behind it, its rows are what *)
(* a replay of the subscriptions gives, and a recalculation confirms again   *)
(* whatever it took back.                                                    *)
EXTENDS SubscriptionLedger, Sums

-----------------------------------------------------------------------------
(* Tables and prices                                                       *)

\* Writing one row of the right type keeps a table's type.
LEMMA PutIsTable ==
    ASSUME NEW t, NEW keys, NEW rows, IsTable(t, keys, rows),
           NEW k \in keys, NEW r \in rows
    PROVE  IsTable(Put(t, k, r), keys, rows)
BY DEF IsTable, Put

\* Deleting rows keeps a table's type.
LEMMA DropIsTable ==
    ASSUME NEW t, NEW keys, NEW rows, IsTable(t, keys, rows), NEW K
    PROVE  IsTable(Drop(t, K), keys, rows)
BY DEF IsTable, Drop

\* Replacing every row by one of the right type keeps a table's type.
LEMMA RewriteIsTable ==
    ASSUME NEW t, NEW u, NEW keys, NEW rows, IsTable(t, keys, rows),
           u = [k \in DOMAIN t |-> u[k]], \A k \in DOMAIN t : u[k] \in rows
    PROVE  IsTable(u, keys, rows)
BY DEF IsTable

\* Rounding half up returns an integer.
LEMMA RoundedIsInt ==
    ASSUME NEW x \in Int, NEW y \in Nat \ {0}
    PROVE  RoundHalfUp(x, y) \in Int
<1>1. 2 * y \in Nat \ {0}
  OBVIOUS
<1>2. 2 * x + y \in Int
  OBVIOUS
<1>3. \A a \in Int, b \in Nat \ {0} : a \div b \in Int
  OBVIOUS
<1> QED
  BY <1>1, <1>2, <1>3 DEF RoundHalfUp

\* A confirmation turns a subscription and a usable price into a row of its type.
LEMMA ConfirmedRowType ==
    ASSUME IsTable(subs, SubIds, Subscription), NEW s \in DOMAIN subs,
           NEW nav \in Nat, subs[s].type = "subscribe" => nav # 0
    PROVE  ConfirmedRow(s, nav) \in Subscription
<1>1. subs[s] \in Subscription
  BY DEF IsTable
<1>2. subs[s].amount * Scale \in Int /\ subs[s].shares * nav \in Int
  BY <1>1, QuantityAssumption DEF Subscription
<1>3. subs[s].type = "subscribe" => SharesOf(subs[s].amount, nav) \in Int
  BY <1>2, RoundedIsInt DEF SharesOf
<1>4. AmountOf(subs[s].shares, nav) \in Int
  BY <1>2, RoundedIsInt, QuantityAssumption DEF AmountOf
<1> QED
  BY <1>1, <1>3, <1>4 DEF ConfirmedRow, Subscription

-----------------------------------------------------------------------------
(* Type correctness                                                        *)

\* The type of the transaction record, on its own.
TxType ==
    tx \in [phase : {"idle", "precheck", "checks", "before", "build", "after", "commit"},
           kind : {"none", "generate", "advance", "recalc", "confirm"},
           day : Days \cup {NoDate}, end : Days \cup {NoDate}, todo : SUBSET SubIds]

\* How far the transaction is: what an automatic confirmation still has to do is
\* pending, the day was found to be a trading day, and when its tables are built
\* nothing is left that its old snapshot priced.
TxProgress ==
    /\ tx.todo \subseteq Pending
    /\ tx.phase \in {"before", "build"} => tx.day \in TradingDays
    /\ tx.phase = "build" => PricedBy(tx.day) = {}

\* The writes of a confirmation keep the tables' types.
LEMMA ConfirmWritesType ==
    ASSUME IsDatabase(DB), NEW s \in DOMAIN subs, NEW nav \in UsablePrices(s),
           ConfirmWrites(s, nav)
    PROVE  /\ pstatus' \in {"draft", "active"} /\ startedAt' \in Days \cup {NoDate}
           /\ IsTable(subs', SubIds, Subscription) /\ IsTable(legs', SubIds, CashLeg)
<1> DEFINE row == ConfirmedRow(s, nav)
<1>1. /\ pstatus \in {"draft", "active"} /\ startedAt \in Days \cup {NoDate}
      /\ IsTable(subs, SubIds, Subscription) /\ IsTable(legs, SubIds, CashLeg)
      /\ \A d \in SnapDays : snap[d].nav \in Nat
  BY DEF IsDatabase, DB, SnapDays
<1>2. nav \in Nat /\ (subs[s].type = "subscribe" => nav # 0)
  BY <1>1, QuantityAssumption DEF UsablePrices, PriceChoices, Par
<1>3. row \in Subscription
  BY <1>1, <1>2, ConfirmedRowType
<1>4. s \in SubIds
  BY <1>1 DEF IsTable
<1>5. IsTable(subs', SubIds, Subscription)
  <2>1. subs' = [subs EXCEPT ![s] = row]
    BY DEF ConfirmWrites
  <2> QED
    BY <1>1, <1>3, <2>1, RewriteIsTable DEF IsTable
<1>6. IsTable(legs', SubIds, CashLeg)
  <2>1. LegOf(row) \in CashLeg
    BY <1>3 DEF LegOf, CashLeg, Subscription
  <2> QED
    BY <1>1, <1>4, <2>1, PutIsTable DEF ConfirmWrites
<1>7. row.confirm \in Days
  BY <1>3, CalendarAssumption DEF Subscription
<1> QED
  BY <1>1, <1>5, <1>6, <1>7 DEF ConfirmWrites

\* The writes of cancelled confirmations keep the tables' types.
LEMMA UnconfirmWritesType ==
    ASSUME IsDatabase(DB), NEW S, UnconfirmWrites(S)
    PROVE  /\ pstatus' \in {"draft", "active"} /\ startedAt' \in Days \cup {NoDate}
           /\ IsTable(subs', SubIds, Subscription) /\ IsTable(legs', SubIds, CashLeg)
<1>1. /\ pstatus \in {"draft", "active"} /\ startedAt \in Days \cup {NoDate}
      /\ IsTable(subs, SubIds, Subscription) /\ IsTable(legs, SubIds, CashLeg)
  BY DEF IsDatabase, DB
<1>2. IsTable(subs', SubIds, Subscription)
  <2>1. \A s \in DOMAIN subs : PendingRow(subs[s]) \in Subscription
    <3> SUFFICES ASSUME NEW row \in Subscription
                 PROVE  PendingRow(row) \in Subscription
      BY <1>1 DEF IsTable
    <3>1. [row EXCEPT !.status = "pending"] \in Subscription
      BY DEF Subscription
    <3>2. \A r \in Subscription : [r EXCEPT !.nav = 0] \in Subscription
      BY DEF Subscription
    <3>3. \A r \in Subscription : /\ [r EXCEPT !.shares = 0] \in Subscription
                                  /\ [r EXCEPT !.amount = 0] \in Subscription
      BY DEF Subscription
    <3> QED
      BY <3>1, <3>2, <3>3 DEF PendingRow
  <2>2. subs' = [s \in DOMAIN subs |->
                   IF s \in S THEN PendingRow(subs[s]) ELSE subs[s]]
    BY DEF UnconfirmWrites
  <2> QED
    BY <1>1, <2>1, <2>2 DEF IsTable
<1>3. IsTable(legs', SubIds, CashLeg)
  BY <1>1, DropIsTable DEF UnconfirmWrites
<1> QED
  BY <1>1, <1>2, <1>3 DEF UnconfirmWrites

\* A step that leaves the transaction alone keeps the types when it keeps those
\* of the tables.
LEMMA TableStepType ==
    ASSUME TypeOK, UNCHANGED <<tx, saved>>, IsDatabase(DB)'
    PROVE  TypeOK'
BY DEF TypeOK, Idle

\* A request that writes only the subscription table.
LEMMA SubsStepType ==
    ASSUME TypeOK, IsTable(subs', SubIds, Subscription),
           UNCHANGED <<pstatus, startedAt, legs, snap, tx, saved>>
    PROVE  TypeOK'
<1>1. IsDatabase(DB)'
  BY DEF TypeOK, IsDatabase, DB
<1> QED
  BY <1>1, TableStepType

\* A step inside a transaction.
LEMMA TxStepType ==
    ASSUME TypeOK, ~Idle, UNCHANGED saved, IsDatabase(DB)', TxType',
           tx'.phase # "idle"
    PROVE  TypeOK'
<1>1. ~Idle'
  BY DEF Idle, NoTx
<1> QED
  BY <1>1 DEF TypeOK, TxType, Idle

\* The phases a transaction can be in are not the idle one.
LEMMA PhaseIsNotIdle ==
    ASSUME tx.phase # "idle" PROVE ~Idle
BY DEF Idle, NoTx

\* Moving to the next phase keeps the type of the transaction record.
LEMMA GotoType ==
    ASSUME TypeOK, NEW phase \in {"checks", "before", "build", "after", "commit"},
           NEW todo \in SUBSET SubIds, Goto(phase, todo)
    PROVE  TxType' /\ tx'.phase # "idle" /\ UNCHANGED saved
BY DEF Goto, TypeOK, TxType

\* Starting a transaction on days of the calendar.
LEMMA BeginType ==
    ASSUME TypeOK,
           NEW phase \in {"precheck", "checks", "after"},
           NEW kind \in {"generate", "advance", "recalc", "confirm"},
           NEW day \in Days, NEW end \in Days, NEW todo \in SUBSET SubIds,
           Begin(phase, kind, day, end, todo)
    PROVE  TypeOK'
<1>1. IsDatabase(DB)' /\ saved' = DB /\ IsDatabase(DB)
  BY DEF Begin, TypeOK, IsDatabase, DB, dbvars
<1>2. TxType' /\ tx'.phase # "idle"
  BY DEF Begin, TxType
<1>3. ~Idle'
  BY <1>2 DEF Idle, NoTx
<1> QED
  BY <1>1, <1>2, <1>3 DEF TypeOK, TxType, Idle

\* What is due is a set of subscription identifiers.
LEMMA DueType ==
    ASSUME TypeOK, NEW d
    PROVE  DueAfter(d) \in SUBSET SubIds /\ DueBefore(d) \in SUBSET SubIds
BY DEF TypeOK, IsDatabase, DB, IsTable, DueAfter, DueBefore, Pending

\* Clearing a day keeps the tables' types.
LEMMA ClearDayType ==
    ASSUME IsDatabase(DB), NEW d, ClearDay(d)
    PROVE  IsDatabase(DB)'
<1>1. UnconfirmWrites(PricedBy(d)) /\ snap' = Drop(snap, {d})
  BY DEF ClearDay
<1>2. DOMAIN snap' \subseteq TradingDays /\ \A e \in DOMAIN snap' : snap'[e].nav \in Nat
  BY <1>1 DEF IsDatabase, DB, Drop
<1> QED
  BY <1>1, <1>2, UnconfirmWritesType DEF IsDatabase, DB

\* Writing a snapshot whose unit price is a number keeps the tables' types.
LEMMA PutSnapshotType ==
    ASSUME IsDatabase(DB), NEW d \in TradingDays, NEW row, row.nav \in Nat,
           snap' = Put(snap, d, row), UNCHANGED <<pstatus, startedAt, subs, legs>>
    PROVE  IsDatabase(DB)'
BY DEF IsDatabase, DB, Put

\* The requests of subscription_service keep the types.
LEMMA RequestType ==
    ASSUME TypeOK, Request
    PROVE  TypeOK'
<1> USE DEF Idle
<1>0. /\ IsTable(subs, SubIds, Subscription)
      /\ \A s \in DOMAIN subs : s \in SubIds /\ subs[s] \in Subscription
  BY DEF TypeOK, IsDatabase, DB, IsTable
<1>1. ASSUME NEW s \in SubIds, NEW row \in Subscription,
             subs' = Put(subs, s, row),
             UNCHANGED <<pstatus, startedAt, legs, snap, tx, saved>>
      PROVE  TypeOK'
  BY <1>0, <1>1, PutIsTable, SubsStepType
<1>2. ASSUME NEW s \in DOMAIN subs, NEW row \in Subscription,
             subs' = [subs EXCEPT ![s] = row],
             UNCHANGED <<pstatus, startedAt, legs, snap, tx, saved>>
      PROVE  TypeOK'
  <2>1. IsTable(subs', SubIds, Subscription)
    BY <1>0, <1>2 DEF IsTable
  <2> QED
    BY <1>2, <2>1, SubsStepType
<1>3. ASSUME NEW s \in SubIds, NEW i \in Investors, NEW d \in TradingDays,
             NEW a \in Amounts, CreateSubscribe(s, i, d, a)
      PROVE  TypeOK'
  <2>1. PICK c \in TradingDays : subs' = Put(subs, s, NewSub("subscribe", i, d, c, a, 0))
    BY <1>3 DEF CreateSubscribe
  <2>2. NewSub("subscribe", i, d, c, a, 0) \in Subscription
    BY QuantityAssumption DEF NewSub, Subscription
  <2> QED
    BY <1>1, <1>3, <2>1, <2>2 DEF CreateSubscribe
<1>4. ASSUME NEW s \in SubIds, NEW i \in Investors, NEW d \in TradingDays,
             NEW q \in ShareCounts, CreateRedeem(s, i, d, q)
      PROVE  TypeOK'
  <2>1. PICK c \in TradingDays : subs' = Put(subs, s, NewSub("redeem", i, d, c, 0, q))
    BY <1>4 DEF CreateRedeem
  <2>2. NewSub("redeem", i, d, c, 0, q) \in Subscription
    BY QuantityAssumption DEF NewSub, Subscription
  <2> QED
    BY <1>1, <1>4, <2>1, <2>2 DEF CreateRedeem
<1>5. ASSUME NEW s \in SubIds, NEW d \in TradingDays, UpdateApplyDate(s, d)
      PROVE  TypeOK'
  <2>1. PICK c \in TradingDays :
          subs' = [subs EXCEPT ![s].apply = d, ![s].confirm = c]
    BY <1>5 DEF UpdateApplyDate
  <2>2. s \in DOMAIN subs
    BY <1>5 DEF UpdateApplyDate, Pending
  <2>3. \A r \in Subscription : [r EXCEPT !.apply = d] \in Subscription
    BY DEF Subscription
  <2>4. \A r \in Subscription : [r EXCEPT !.confirm = c] \in Subscription
    BY DEF Subscription
  <2> DEFINE row == [[subs[s] EXCEPT !.apply = d] EXCEPT !.confirm = c]
  <2>5. row \in Subscription
    BY <1>0, <2>2, <2>3, <2>4
  <2>6. subs' = [subs EXCEPT ![s] = row]
    BY <2>1, <2>2
  <2> QED
    BY <1>2, <1>5, <2>2, <2>5, <2>6 DEF UpdateApplyDate
<1>6. ASSUME NEW s \in SubIds, NEW n \in Amounts \cup ShareCounts, UpdateQuantity(s, n)
      PROVE  TypeOK'
  <2>1. s \in DOMAIN subs /\ n \in Int
    BY <1>6, QuantityAssumption DEF UpdateQuantity, Pending
  <2>2. [subs[s] EXCEPT !.amount = n] \in Subscription
    BY <1>0, <2>1 DEF Subscription
  <2>3. [subs[s] EXCEPT !.shares = n] \in Subscription
    BY <1>0, <2>1 DEF Subscription
  <2>4. CASE subs' = [subs EXCEPT ![s].amount = n]
    BY <1>2, <1>6, <2>1, <2>2, <2>4 DEF UpdateQuantity
  <2>5. CASE subs' = [subs EXCEPT ![s].shares = n]
    BY <1>2, <1>6, <2>1, <2>3, <2>5 DEF UpdateQuantity
  <2> QED
    BY <1>6, <2>4, <2>5 DEF UpdateQuantity
<1>7. ASSUME NEW s \in SubIds, CancelSubscription(s)
      PROVE  TypeOK'
  <2>1. s \in DOMAIN subs
    BY <1>7 DEF CancelSubscription, Pending
  <2>2. [subs[s] EXCEPT !.status = "cancelled"] \in Subscription
    BY <1>0, <2>1 DEF Subscription
  <2> QED
    BY <1>2, <1>7, <2>1, <2>2 DEF CancelSubscription
<1>8. ASSUME NEW s \in SubIds, DeleteSubscription(s)
      PROVE  TypeOK'
  BY <1>0, <1>8, DropIsTable, SubsStepType DEF DeleteSubscription
<1>9. ASSUME NEW s \in SubIds, ConfirmSubscription(s)
      PROVE  TypeOK'
  <2>1. PICK nav \in UsablePrices(s) : ConfirmWrites(s, nav)
    BY <1>9 DEF ConfirmSubscription
  <2>2. s \in DOMAIN subs /\ IsDatabase(DB)
    BY <1>9 DEF ConfirmSubscription, Pending, TypeOK
  <2>3. IsDatabase(DB)'
    BY <1>9, <2>1, <2>2, ConfirmWritesType DEF ConfirmSubscription, IsDatabase, DB
  <2> QED
    BY <1>9, <2>3, TableStepType DEF ConfirmSubscription
<1>10. ASSUME NEW s \in SubIds, UnconfirmSubscription(s)
       PROVE  TypeOK'
  <2>1. IsDatabase(DB)
    BY DEF TypeOK
  <2>2. IsDatabase(DB)'
    BY <1>10, <2>1, UnconfirmWritesType DEF UnconfirmSubscription, IsDatabase, DB
  <2> QED
    BY <1>10, <2>2, TableStepType DEF UnconfirmSubscription
<1> QED
  BY <1>3, <1>4, <1>5, <1>6, <1>7, <1>8, <1>9, <1>10 DEF Request

\* Starting a snapshot transaction, and deleting a snapshot, keep the types.
LEMMA SnapshotRequestType ==
    ASSUME TypeOK, SnapshotRequest
    PROVE  TypeOK'
<1>1. SnapDays \subseteq Days /\ TradingDays \subseteq Days
  BY CalendarAssumption DEF TypeOK, IsDatabase, DB, SnapDays
<1>2. ASSUME NEW d \in TradingDays, BeginGenerate(d)
      PROVE  TypeOK'
  BY <1>1, <1>2, BeginType DEF BeginGenerate
<1>3. ASSUME NEW d \in TradingDays, BeginAdvance(d)
      PROVE  TypeOK'
  BY <1>1, <1>3, BeginType DEF BeginAdvance
<1>4. ASSUME NEW d \in TradingDays, DeleteSnapshot(d)
      PROVE  TypeOK'
  BY <1>4, ClearDayType, TableStepType DEF DeleteSnapshot, TypeOK
<1>5. ASSUME NEW a \in Days, NEW b \in Days, BeginRecalculate(a, b)
      PROVE  TypeOK'
  BY <1>1, <1>5, BeginType DEF BeginRecalculate
<1>6. ASSUME BeginConfirmOnly
      PROVE  TypeOK'
  <2>1. PICK l \in SnapDays : Begin("after", "confirm", l, l, DueAfter(l))
    BY <1>6 DEF BeginConfirmOnly
  <2> QED
    BY <1>1, <2>1, DueType, BeginType
<1> QED
  BY <1>2, <1>3, <1>4, <1>5, <1>6 DEF SnapshotRequest

\* What follows the tables of a day keeps the type of the transaction record.
LEMMA AfterBuildType ==
    ASSUME TypeOK, AfterBuild
    PROVE  TxType' /\ tx'.phase # "idle" /\ UNCHANGED saved
BY GotoType, DueType DEF AfterBuild

\* The steps inside a transaction keep the types.
LEMMA TransactionStepType ==
    ASSUME TypeOK, TxProgress, TxStep
    PROVE  TypeOK'
<1> USE PhaseIsNotIdle
<1>0. /\ IsDatabase(DB) /\ SnapDays \subseteq Nat /\ LastDay \in Nat
      /\ \A d \in SnapDays : snap[d].nav \in Nat
      /\ TxType /\ tx.todo \subseteq SubIds
  <2>1. IsDatabase(DB) /\ TxType
    BY DEF TypeOK, TxType
  <2>2. tx.todo \subseteq SubIds
    BY <2>1 DEF TxType
  <2>3. LastDay \in Nat /\ Days \subseteq Nat /\ TradingDays \subseteq Days
    BY CalendarAssumption DEF Days
  <2>4. SnapDays \subseteq TradingDays /\ \A d \in SnapDays : snap[d].nav \in Nat
    BY <2>1 DEF IsDatabase, DB, SnapDays
  <2> QED
    BY <2>1, <2>2, <2>3, <2>4
<1>1. ASSUME UNCHANGED dbvars PROVE IsDatabase(DB)'
  BY <1>0, <1>1 DEF dbvars, DB, IsDatabase
<1>2. CASE RecalcSkipDay
  <2>1. tx.day + 1 \in Days
    BY <1>0, <1>2 DEF RecalcSkipDay, TxType, Days, NoDate
  <2>2. TxType' /\ tx'.phase # "idle"
    BY <1>0, <1>2, <2>1 DEF RecalcSkipDay, TxType
  <2> QED
    BY <1>1, <1>2, <2>2, TxStepType DEF RecalcSkipDay
<1>3. CASE RecalcClearDay
  <2>1. IsDatabase(DB)'
    BY <1>0, <1>3, ClearDayType DEF RecalcClearDay
  <2> QED
    BY <1>3, <2>1, GotoType, TxStepType DEF RecalcClearDay
<1>4. CASE CheckDay
  BY <1>1, <1>4, DueType, GotoType, TxStepType DEF CheckDay
<1>5. ASSUME NEW s \in SubIds, AutoConfirm(s)
      PROVE  TypeOK'
  <2>1. PICK nav \in UsablePrices(s) : ConfirmWrites(s, nav)
    BY <1>5 DEF AutoConfirm
  <2>2. s \in DOMAIN subs
    BY <1>5 DEF AutoConfirm, NextDue, TxProgress, Pending
  <2>3. IsDatabase(DB)'
    BY <1>0, <1>5, <2>1, <2>2, ConfirmWritesType DEF AutoConfirm, IsDatabase, DB
  <2>4. tx.todo \ {s} \in SUBSET SubIds
    BY <1>0
  <2> QED
    BY <1>5, <2>3, <2>4, GotoType, TxStepType DEF AutoConfirm
<1>6. ASSUME NEW s \in SubIds, AutoConfirmRefused(s)
      PROVE  TypeOK'
  <2>1. tx.todo \ {s} \in SUBSET SubIds
    BY <1>0
  <2> QED
    BY <1>1, <1>6, <2>1, GotoType, TxStepType DEF AutoConfirmRefused
<1>7. CASE ValidateAndClear
  <2>1. IsDatabase(DB)'
    BY <1>0, <1>7, ClearDayType DEF ValidateAndClear
  <2> QED
    BY <1>7, <2>1, GotoType, TxStepType DEF ValidateAndClear
<1>8. CASE BuildNothing
  BY <1>1, <1>8, AfterBuildType, TxStepType DEF BuildNothing
<1>9. CASE BuildFirst
  <2>1. FirstRow(tx.day).nav \in Nat
    BY QuantityAssumption DEF FirstRow, Snapshot, Par
  <2>2. IsDatabase(DB)'
    BY <1>0, <1>9, <2>1, PutSnapshotType DEF BuildFirst, TxProgress
  <2> QED
    BY <1>9, <2>2, AfterBuildType, TxStepType DEF BuildFirst
<1>10. CASE BuildNext
  <2>1. PICK p \in Before(tx.day), nav \in Navs :
          snap' = Put(snap, tx.day, NextRow(p, tx.day, nav))
    BY <1>10 DEF BuildNext
  <2>2. NextRow(p, tx.day, nav).nav \in Nat
    BY QuantityAssumption DEF NextRow, Snapshot, Par
  <2>3. IsDatabase(DB)'
    BY <1>0, <1>10, <2>1, <2>2, PutSnapshotType DEF BuildNext, TxProgress
  <2> QED
    BY <1>10, <2>3, AfterBuildType, TxStepType DEF BuildNext
<1>11. CASE RecalcNextDay
  <2>1. tx.day + 1 \in Days
    BY <1>0, <1>11 DEF RecalcNextDay, TxType, Days, NoDate
  <2>2. TxType' /\ tx'.phase # "idle"
    BY <1>0, <1>11, <2>1 DEF RecalcNextDay, TxType
  <2> QED
    BY <1>1, <1>11, <2>2, TxStepType DEF RecalcNextDay
<1>12. CASE Commit
  BY <1>1, <1>12 DEF Commit, TypeOK, Idle, NoTx
<1>13. CASE Rollback
  BY <1>13 DEF Rollback, TypeOK, Idle, NoTx, IsDatabase, DB
<1> QED
  BY <1>2, <1>3, <1>4, <1>5, <1>6, <1>7, <1>8, <1>9, <1>10, <1>11, <1>12, <1>13
     DEF TxStep

\* The tables have their types at the start.
LEMMA TypeInit == Init => TypeOK
<1> SUFFICES ASSUME Init PROVE TypeOK
  OBVIOUS
<1>1. IsDatabase(DB)
  BY DEF Init, IsDatabase, DB, IsTable, EmptyTable
<1>2. TxType
  BY DEF Init, NoTx, TxType
<1> QED
  BY <1>1, <1>2 DEF Init, TypeOK, TxType, Idle

\* Every step keeps the types.
LEMMA TypeNext == TypeOK /\ TxProgress /\ [Next]_vars => TypeOK'
<1> SUFFICES ASSUME TypeOK, TxProgress, [Next]_vars PROVE TypeOK'
  OBVIOUS
<1>1. CASE Request
  BY <1>1, RequestType
<1>2. CASE SnapshotRequest
  BY <1>2, SnapshotRequestType
<1>3. CASE TxStep
  BY <1>3, TransactionStepType
<1>4. CASE UNCHANGED vars
  BY <1>4 DEF vars, TypeOK, Idle, IsDatabase, DB
<1> QED
  BY <1>1, <1>2, <1>3, <1>4 DEF Next

-----------------------------------------------------------------------------
(* The ledger: what a database state satisfies, now or in saved             *)

ConfirmedIn(t) == {s \in DOMAIN t : t[s].status = "confirmed"}
ArrivalsIn(t) == {s \in ConfirmedIn(t) : t[s].type = "subscribe"}

LegsPaired(t, l) ==
    /\ DOMAIN l = ConfirmedIn(t)
    /\ \A s \in ConfirmedIn(t) : l[s] = LegOf(t[s])

FirstArrival(t, at, st) ==
    /\ ArrivalsIn(t) = {} => at = NoDate
    /\ ArrivalsIn(t) # {} => \E s \in ArrivalsIn(t) : t[s].confirm = at
    /\ \A s \in ArrivalsIn(t) : at <= t[s].confirm
    /\ st = "active" <=> ArrivalsIn(t) # {}

Priced(t, sn) ==
    \A s \in ConfirmedIn(t) :
        t[s].apply \in DOMAIN sn => t[s].nav = sn[t[s].apply].nav

LedgerOK(db) ==
    /\ LegsPaired(db.subs, db.legs)
    /\ FirstArrival(db.subs, db.startedAt, db.pstatus)
    /\ Priced(db.subs, db.snap)

\* The three properties say that the tables of the moment are a good ledger.
LEMMA LedgerIsProperties ==
    LedgerOK(DB) <=> CashLegPaired /\ StartedAtIsFirstArrival /\ PricedByStoredSnapshot
<1>1. Confirmed = ConfirmedIn(subs) /\ Arrivals = ArrivalsIn(subs)
  BY DEF Confirmed, ConfirmedIn, Arrivals, ArrivalsIn
<1>2. LegsPaired(subs, legs) <=> CashLegPaired
  BY <1>1 DEF LegsPaired, CashLegPaired
<1>3. FirstArrival(subs, startedAt, pstatus) <=> StartedAtIsFirstArrival
  BY <1>1 DEF FirstArrival, StartedAtIsFirstArrival, IsEarliestArrival
<1>4. Priced(subs, snap) <=> PricedByStoredSnapshot
  BY <1>1 DEF Priced, PricedByStoredSnapshot, SnapDays
<1> QED
  BY <1>2, <1>3, <1>4 DEF LedgerOK, DB

\* A request that touches no confirmed row keeps the ledger.
LEMMA SubsStepLedger ==
    ASSUME LedgerOK(DB), UNCHANGED <<pstatus, startedAt, legs, snap>>,
           Confirmed' = Confirmed, \A s \in Confirmed : subs'[s] = subs[s]
    PROVE  LedgerOK(DB)'
<1>1. ConfirmedIn(subs)' = ConfirmedIn(subs) /\ ArrivalsIn(subs)' = ArrivalsIn(subs)
  BY DEF Confirmed, ConfirmedIn, ArrivalsIn
<1>2. \A s \in ConfirmedIn(subs) : subs'[s] = subs[s]
  BY DEF Confirmed, ConfirmedIn
<1>3. ArrivalsIn(subs) \subseteq ConfirmedIn(subs)
  BY DEF ArrivalsIn
<1>4. LegsPaired(subs, legs)'
  BY <1>1, <1>2 DEF LedgerOK, DB, LegsPaired
<1>5. FirstArrival(subs, startedAt, pstatus)'
  BY <1>1, <1>2, <1>3 DEF LedgerOK, DB, FirstArrival
<1>6. Priced(subs, snap)'
  BY <1>1, <1>2 DEF LedgerOK, DB, Priced
<1> QED
  BY <1>4, <1>5, <1>6 DEF LedgerOK, DB

\* A confirmation that passes the arrival gate keeps the ledger: the price is that
\* of the stored snapshot, and started_at moves only to the first arrival.
LEMMA ConfirmKeepsLedger ==
    ASSUME IsDatabase(DB), LedgerOK(DB), NEW s \in Pending, ArrivalGate(s),
           NEW nav \in UsablePrices(s), ConfirmWrites(s, nav), UNCHANGED snap
    PROVE  LedgerOK(DB)'
<1> DEFINE row == ConfirmedRow(s, nav)
<1>0. /\ s \in DOMAIN subs /\ s \notin ConfirmedIn(subs)
      /\ IsTable(subs, SubIds, Subscription)
      /\ \A r \in DOMAIN subs : subs[r] \in Subscription /\ subs[r].confirm \in Nat \ {0}
      /\ SnapDays = DOMAIN snap /\ \A d \in SnapDays : snap[d].nav \in Nat
  BY CalendarAssumption
     DEF IsDatabase, DB, IsTable, Pending, ConfirmedIn, Subscription, SnapDays, Days
<1>1. /\ row.status = "confirmed" /\ row.type = subs[s].type
      /\ row.confirm = subs[s].confirm /\ row.apply = subs[s].apply /\ row.nav = nav
  <2>1. subs[s] \in Subscription
    BY <1>0
  <2> QED
    BY <2>1 DEF ConfirmedRow, Subscription
<1>2. /\ DOMAIN subs' = DOMAIN subs /\ subs'[s] = row
      /\ \A r \in DOMAIN subs \ {s} : subs'[r] = subs[r]
  BY <1>0 DEF ConfirmWrites
<1>3. ConfirmedIn(subs') = ConfirmedIn(subs) \cup {s}
  BY <1>0, <1>1, <1>2 DEF ConfirmedIn
<1>4. ArrivalsIn(subs') = IF subs[s].type = "subscribe"
                          THEN ArrivalsIn(subs) \cup {s} ELSE ArrivalsIn(subs)
  BY <1>0, <1>1, <1>2, <1>3 DEF ArrivalsIn, ConfirmedIn
<1>5. ArrivalsIn(subs) \subseteq DOMAIN subs \ {s} /\ Arrivals = ArrivalsIn(subs)
  BY <1>0 DEF ArrivalsIn, ConfirmedIn, Arrivals, Confirmed
<1>6. LegsPaired(subs', legs')
  <2>1. legs' = Put(legs, s, LegOf(row))
    BY DEF ConfirmWrites
  <2>2. DOMAIN legs = ConfirmedIn(subs) /\ \A r \in ConfirmedIn(subs) : legs[r] = LegOf(subs[r])
    BY DEF LedgerOK, DB, LegsPaired
  <2>3. ConfirmedIn(subs) \subseteq DOMAIN subs \ {s}
    BY <1>0 DEF ConfirmedIn
  <2> QED
    BY <1>2, <1>3, <2>1, <2>2, <2>3 DEF LegsPaired, Put
<1>7. FirstArrival(subs', startedAt', pstatus')
  <2>0. FirstArrival(subs, startedAt, pstatus)
    BY DEF LedgerOK, DB
  <2>1. CASE subs[s].type # "subscribe"
    <3>1. startedAt' = startedAt /\ pstatus' = pstatus
      BY <1>1, <2>1 DEF ConfirmWrites
    <3> QED
      BY <1>2, <1>4, <1>5, <2>0, <2>1, <3>1 DEF FirstArrival
  <2>2. CASE subs[s].type = "subscribe" /\ startedAt = NoDate
    <3>1. ArrivalsIn(subs) = {}
      BY <1>0, <1>5, <2>0, <2>2 DEF FirstArrival, NoDate
    <3>2. startedAt' = subs[s].confirm /\ pstatus' = "active"
      BY <1>1, <1>5, <2>2, <3>1 DEF ConfirmWrites
    <3> QED
      BY <1>0, <1>1, <1>2, <1>4, <2>2, <3>1, <3>2 DEF FirstArrival
  <2>3. CASE subs[s].type = "subscribe" /\ startedAt # NoDate
    <3>1. ArrivalsIn(subs) # {} /\ pstatus = "active"
      BY <2>0, <2>3 DEF FirstArrival
    <3>2. startedAt' = startedAt /\ pstatus' = "active"
      BY <1>1, <1>5, <2>3, <3>1 DEF ConfirmWrites
    <3>3. startedAt <= subs[s].confirm
      BY <1>0, <2>0, <2>3, <3>1, <1>5 DEF ArrivalGate, FirstArrival
    <3> QED
      BY <1>0, <1>1, <1>2, <1>4, <1>5, <2>0, <2>3, <3>1, <3>2, <3>3 DEF FirstArrival
  <2> QED
    BY <2>1, <2>2, <2>3
<1>8. Priced(subs', snap)
  <2>1. subs[s].apply \in SnapDays => nav = snap[subs[s].apply].nav
    BY DEF UsablePrices, PriceChoices
  <2> QED
    BY <1>0, <1>1, <1>2, <1>3, <2>1 DEF LedgerOK, DB, Priced, ConfirmedIn
<1> QED
  BY <1>6, <1>7, <1>8 DEF LedgerOK, DB

\* Cancelling confirmations keeps the ledger, whatever snapshots go with them:
\* every leg goes with its row, and started_at is computed from those that stay.
LEMMA UnconfirmKeepsLedger ==
    ASSUME IsDatabase(DB), LedgerOK(DB), NEW S \in SUBSET Confirmed,
           UnconfirmWrites(S), SnapDays' \subseteq SnapDays,
           \A d \in SnapDays' : snap'[d] = snap[d]
    PROVE  LedgerOK(DB)' /\ Confirmed' = Confirmed \ S
                         /\ \A s \in Confirmed \ S : subs'[s] = subs[s]
<1>0. /\ Confirmed = ConfirmedIn(subs) /\ Arrivals = ArrivalsIn(subs)
      /\ \A r \in DOMAIN subs : subs[r] \in Subscription
  BY DEF IsDatabase, DB, IsTable, Confirmed, ConfirmedIn, Arrivals, ArrivalsIn
<1>1. DOMAIN subs' = DOMAIN subs /\ \A r \in DOMAIN subs \ S : subs'[r] = subs[r]
  BY DEF UnconfirmWrites
<1>2. \A r \in DOMAIN subs \cap S : subs'[r].status = "pending"
  <2>1. \A row \in Subscription : PendingRow(row).status = "pending"
    BY DEF PendingRow, Subscription
  <2>2. \A r \in DOMAIN subs \cap S : subs'[r] = PendingRow(subs[r])
    BY DEF UnconfirmWrites
  <2> QED
    BY <1>0, <2>1, <2>2
<1>3. ConfirmedIn(subs') = ConfirmedIn(subs) \ S
  BY <1>1, <1>2 DEF ConfirmedIn
<1>4. ArrivalsIn(subs') = ArrivalsIn(subs) \ S
  BY <1>1, <1>3 DEF ArrivalsIn, ConfirmedIn
<1>5. ConfirmedIn(subs) \ S \subseteq DOMAIN subs \ S /\ ArrivalsIn(subs) \subseteq ConfirmedIn(subs)
  BY DEF ConfirmedIn, ArrivalsIn
<1>6. LegsPaired(subs', legs')
  <2>1. legs' = [k \in DOMAIN legs \ S |-> legs[k]]
    BY DEF UnconfirmWrites, Drop
  <2>2. DOMAIN legs = ConfirmedIn(subs) /\ \A r \in ConfirmedIn(subs) : legs[r] = LegOf(subs[r])
    BY DEF LedgerOK, DB, LegsPaired
  <2> QED
    BY <1>1, <1>3, <1>5, <2>1, <2>2 DEF LegsPaired
<1>7. FirstArrival(subs', startedAt', pstatus')
  <2>0. FirstArrival(subs, startedAt, pstatus)
    BY DEF LedgerOK, DB
  <2>1. CASE S = {}
    <3>1. startedAt' = startedAt /\ pstatus' = pstatus
      BY <2>1 DEF UnconfirmWrites
    <3> QED
      BY <1>1, <1>4, <1>5, <2>0, <2>1, <3>1 DEF FirstArrival
  <2>2. CASE S # {}
    <3>1. IsEarliestArrival(startedAt', Arrivals \ S)
      BY <2>2 DEF UnconfirmWrites
    <3>2. pstatus' = IF Arrivals \ S = {} THEN "draft" ELSE pstatus
      BY <2>2 DEF UnconfirmWrites
    <3> QED
      BY <1>0, <1>1, <1>4, <1>5, <2>0, <3>1, <3>2 DEF FirstArrival, IsEarliestArrival
  <2> QED
    BY <2>1, <2>2
<1>8. Priced(subs', snap')
  <2>1. DOMAIN snap' \subseteq DOMAIN snap /\ \A d \in DOMAIN snap' : snap'[d] = snap[d]
    BY DEF SnapDays
  <2> QED
    BY <1>1, <1>3, <1>5, <2>1 DEF LedgerOK, DB, Priced
<1>9. Confirmed' = ConfirmedIn(subs')
  BY DEF Confirmed, ConfirmedIn
<1> QED
  BY <1>0, <1>1, <1>3, <1>5, <1>6, <1>7, <1>8, <1>9 DEF LedgerOK, DB

\* A new snapshot keeps the ledger when nothing confirmed applied for its day.
LEMMA BuildKeepsLedger ==
    ASSUME LedgerOK(DB), NEW d, PricedBy(d) = {}, NEW row,
           snap' = Put(snap, d, row), UNCHANGED <<pstatus, startedAt, subs, legs>>
    PROVE  LedgerOK(DB)'
<1>1. \A s \in ConfirmedIn(subs) : subs[s].apply # d
  BY DEF PricedBy, Confirmed, ConfirmedIn
<1>2. DOMAIN snap' = DOMAIN snap \cup {d} /\ \A e \in DOMAIN snap \ {d} : snap'[e] = snap[e]
  BY DEF Put
<1>3. Priced(subs', snap')
  BY <1>1, <1>2 DEF LedgerOK, DB, Priced
<1> QED
  BY <1>3 DEF LedgerOK, DB

\* Clearing a day keeps the ledger and leaves nothing that day had priced.
LEMMA ClearDayKeepsLedger ==
    ASSUME IsDatabase(DB), LedgerOK(DB), NEW d, ClearDay(d)
    PROVE  LedgerOK(DB)' /\ PricedBy(d)' = {}
<1>1. PricedBy(d) \in SUBSET Confirmed
  BY DEF PricedBy
<1>2. SnapDays' \subseteq SnapDays /\ \A e \in SnapDays' : snap'[e] = snap[e]
  BY DEF ClearDay, Drop, SnapDays
<1>3. LedgerOK(DB)' /\ Confirmed' = Confirmed \ PricedBy(d)
      /\ \A s \in Confirmed \ PricedBy(d) : subs'[s] = subs[s]
  BY <1>1, <1>2, UnconfirmKeepsLedger DEF ClearDay
<1> QED
  BY <1>3 DEF PricedBy

-----------------------------------------------------------------------------
(* The inductive invariant                                                 *)

SavedOK == ~Idle => LedgerOK(saved)

LedgerInv == TypeOK /\ TxProgress /\ LedgerOK(DB) /\ SavedOK

\* Between transactions there is no progress to keep and nothing saved.
LEMMA IdleStep ==
    ASSUME Idle, UNCHANGED tx
    PROVE  TxProgress' /\ SavedOK'
BY DEF Idle, NoTx, TxProgress, SavedOK

\* The requests of subscription_service keep the ledger.
LEMMA RequestLedger ==
    ASSUME LedgerInv, Request
    PROVE  LedgerOK(DB)' /\ TxProgress' /\ SavedOK'
<1>0. IsDatabase(DB) /\ LedgerOK(DB)
  BY DEF LedgerInv, TypeOK
<1>1. ASSUME NEW s \in SubIds \ Confirmed, NEW row, row.status # "confirmed",
             subs' = Put(subs, s, row), UNCHANGED <<pstatus, startedAt, legs, snap>>
      PROVE  LedgerOK(DB)'
  <2>1. Confirmed' = Confirmed /\ \A r \in Confirmed : subs'[r] = subs[r]
    BY <1>1 DEF Put, Confirmed
  <2> QED
    BY <1>0, <1>1, <2>1, SubsStepLedger
<1>2. ASSUME NEW s \in Pending, NEW row, row.status # "confirmed",
             subs' = [subs EXCEPT ![s] = row], UNCHANGED <<pstatus, startedAt, legs, snap>>
      PROVE  LedgerOK(DB)'
  <2>1. Confirmed' = Confirmed /\ \A r \in Confirmed : subs'[r] = subs[r]
    BY <1>2 DEF Confirmed, Pending
  <2> QED
    BY <1>0, <1>2, <2>1, SubsStepLedger
<1>3. \A s \in Pending : subs[s] \in Subscription /\ subs[s].status = "pending"
  BY <1>0 DEF IsDatabase, DB, IsTable, Pending
<1>4. ASSUME NEW s \in SubIds, NEW i \in Investors, NEW d \in TradingDays,
             \/ \E a \in Amounts : CreateSubscribe(s, i, d, a)
             \/ \E q \in ShareCounts : CreateRedeem(s, i, d, q)
      PROVE  LedgerOK(DB)' /\ TxProgress' /\ SavedOK'
  <2>1. s \notin Confirmed /\ Idle /\ UNCHANGED <<pstatus, startedAt, legs, snap, tx>>
    BY <1>4 DEF CreateSubscribe, CreateRedeem, Confirmed
  <2>2. \A type, c, amount, shares : NewSub(type, i, d, c, amount, shares).status # "confirmed"
    BY DEF NewSub
  <2>3. \E row : row.status # "confirmed" /\ subs' = Put(subs, s, row)
    BY <1>4, <2>2 DEF CreateSubscribe, CreateRedeem
  <2> QED
    BY <1>1, <2>1, <2>3, IdleStep
<1>5. ASSUME NEW s \in SubIds, NEW d \in TradingDays, UpdateApplyDate(s, d)
      PROVE  LedgerOK(DB)' /\ TxProgress' /\ SavedOK'
  <2>1. s \in Pending /\ Idle /\ UNCHANGED <<pstatus, startedAt, legs, snap, tx>>
    BY <1>5 DEF UpdateApplyDate
  <2>2. PICK c : subs' = [subs EXCEPT ![s].apply = d, ![s].confirm = c]
    BY <1>5 DEF UpdateApplyDate
  <2> DEFINE row == [[subs[s] EXCEPT !.apply = d] EXCEPT !.confirm = c]
  <2>3. subs' = [subs EXCEPT ![s] = row]
    BY <2>1, <2>2 DEF Pending
  <2>4. row.status = "pending"
    BY <1>3, <2>1 DEF Subscription
  <2> QED
    BY <1>2, <2>1, <2>3, <2>4, IdleStep
<1>6. ASSUME NEW s \in SubIds, NEW n \in Amounts \cup ShareCounts, UpdateQuantity(s, n)
      PROVE  LedgerOK(DB)' /\ TxProgress' /\ SavedOK'
  <2>1. s \in Pending /\ Idle /\ UNCHANGED <<pstatus, startedAt, legs, snap, tx>>
    BY <1>6 DEF UpdateQuantity
  <2>2. /\ [subs[s] EXCEPT !.amount = n].status = "pending"
        /\ [subs[s] EXCEPT !.shares = n].status = "pending"
    BY <1>3, <2>1 DEF Subscription
  <2>3. \E row : row.status # "confirmed" /\ subs' = [subs EXCEPT ![s] = row]
    BY <1>6, <2>1, <2>2 DEF UpdateQuantity, Pending
  <2> QED
    BY <1>2, <2>1, <2>3, IdleStep
<1>7. ASSUME NEW s \in SubIds, CancelSubscription(s)
      PROVE  LedgerOK(DB)' /\ TxProgress' /\ SavedOK'
  <2>1. s \in Pending /\ Idle /\ UNCHANGED <<pstatus, startedAt, legs, snap, tx>>
    BY <1>7 DEF CancelSubscription
  <2>2. [subs[s] EXCEPT !.status = "cancelled"].status = "cancelled"
    BY <1>3, <2>1 DEF Subscription
  <2>3. subs' = [subs EXCEPT ![s] = [subs[s] EXCEPT !.status = "cancelled"]]
    BY <1>7, <2>1 DEF CancelSubscription, Pending
  <2> QED
    BY <1>2, <2>1, <2>2, <2>3, IdleStep
<1>8. ASSUME NEW s \in SubIds, DeleteSubscription(s)
      PROVE  LedgerOK(DB)' /\ TxProgress' /\ SavedOK'
  <2>1. s \notin Confirmed /\ subs' = Drop(subs, {s}) /\ Idle
        /\ UNCHANGED <<pstatus, startedAt, legs, snap, tx>>
    BY <1>8 DEF DeleteSubscription
  <2>2. Confirmed' = Confirmed /\ \A r \in Confirmed : subs'[r] = subs[r]
    BY <2>1 DEF Drop, Confirmed
  <2> QED
    BY <1>0, <2>1, <2>2, SubsStepLedger, IdleStep
<1>9. ASSUME NEW s \in SubIds, ConfirmSubscription(s)
      PROVE  LedgerOK(DB)' /\ TxProgress' /\ SavedOK'
  BY <1>0, <1>9, ConfirmKeepsLedger, IdleStep DEF ConfirmSubscription
<1>10. ASSUME NEW s \in SubIds, UnconfirmSubscription(s)
       PROVE  LedgerOK(DB)' /\ TxProgress' /\ SavedOK'
  <2>1. {s} \in SUBSET Confirmed /\ Idle /\ UnconfirmWrites({s}) /\ UNCHANGED <<snap, tx>>
    BY <1>10 DEF UnconfirmSubscription
  <2> QED
    BY <1>0, <2>1, UnconfirmKeepsLedger, IdleStep DEF SnapDays
<1> QED
  BY <1>4, <1>5, <1>6, <1>7, <1>8, <1>9, <1>10 DEF Request

\* Starting a transaction saves a good ledger; deleting a snapshot keeps it good.
LEMMA SnapshotRequestLedger ==
    ASSUME LedgerInv, SnapshotRequest
    PROVE  LedgerOK(DB)' /\ TxProgress' /\ SavedOK'
<1>0. IsDatabase(DB) /\ LedgerOK(DB)
  BY DEF LedgerInv, TypeOK
<1>1. ASSUME NEW phase \in {"precheck", "checks", "after"}, NEW kind, NEW day,
             NEW end, NEW todo \in SUBSET Pending, Begin(phase, kind, day, end, todo)
      PROVE  LedgerOK(DB)' /\ TxProgress' /\ SavedOK'
  <2>1. /\ tx'.phase = phase /\ tx'.todo = todo /\ saved' = DB
        /\ UNCHANGED <<pstatus, startedAt, subs, legs, snap>>
    BY <1>1 DEF Begin, dbvars
  <2> QED
    BY <1>0, <2>1 DEF LedgerOK, DB, TxProgress, SavedOK, Pending
<1>2. ASSUME NEW d \in TradingDays, DeleteSnapshot(d)
      PROVE  LedgerOK(DB)' /\ TxProgress' /\ SavedOK'
  BY <1>0, <1>2, ClearDayKeepsLedger, IdleStep DEF DeleteSnapshot
<1>3. \A d : DueAfter(d) \in SUBSET Pending
  BY DEF DueAfter
<1> QED
  BY <1>1, <1>2, <1>3
     DEF SnapshotRequest, BeginGenerate, BeginAdvance, BeginRecalculate, BeginConfirmOnly

\* Inside a transaction SavedOK is kept by every step that leaves saved alone.
LEMMA GotoKeepsSaved ==
    ASSUME SavedOK, ~Idle, UNCHANGED saved
    PROVE  SavedOK'
BY DEF SavedOK

\* The steps inside a transaction keep the ledger, and a rollback finds the saved one.
LEMMA TransactionStepLedger ==
    ASSUME LedgerInv, TxStep
    PROVE  LedgerOK(DB)' /\ TxProgress' /\ SavedOK'
<1> USE PhaseIsNotIdle
<1>0. /\ TypeOK /\ IsDatabase(DB) /\ LedgerOK(DB) /\ TxProgress /\ SavedOK /\ TxType
  BY DEF LedgerInv, TypeOK, TxType
<1>1. ASSUME UNCHANGED dbvars PROVE LedgerOK(DB)'
  BY <1>0, <1>1 DEF dbvars, DB, LedgerOK
<1>2. ASSUME NEW phase \in {"checks", "after", "commit"}, NEW todo \in SUBSET Pending',
             Goto(phase, todo)
      PROVE  TxProgress'
  BY <1>0, <1>2 DEF Goto, TxProgress, TxType
<1>3. \A d : DueAfter(d) \in SUBSET Pending /\ DueBefore(d) \in SUBSET Pending
  BY DEF DueAfter, DueBefore
<1>4. CASE RecalcSkipDay \/ RecalcNextDay
  <2>1. /\ tx'.todo \in SUBSET Pending /\ tx'.phase = "precheck" /\ UNCHANGED <<dbvars, saved>>
    BY <1>0, <1>4 DEF RecalcSkipDay, RecalcNextDay, TxType, TxProgress
  <2>2. TxProgress'
    BY <2>1 DEF TxProgress, dbvars, Pending
  <2>3. ~Idle
    BY <1>4 DEF RecalcSkipDay, RecalcNextDay
  <2> QED
    BY <1>0, <1>1, <2>1, <2>2, <2>3, GotoKeepsSaved
<1>5. CASE RecalcClearDay
  BY <1>0, <1>2, <1>5, ClearDayKeepsLedger, GotoKeepsSaved DEF RecalcClearDay, Goto
<1>6. CASE CheckDay
  <2>1. TxProgress'
    <3>1. tx'.phase = "before" /\ tx'.todo \in SUBSET Pending /\ tx'.day \in TradingDays
      BY <1>0, <1>3, <1>6 DEF CheckDay, Goto, TxType
    <3> QED
      BY <1>6, <3>1 DEF CheckDay, TxProgress, dbvars, Pending
  <2> QED
    BY <1>0, <1>1, <1>6, <2>1, GotoKeepsSaved DEF CheckDay, Goto
<1>7. ASSUME NEW s \in SubIds, AutoConfirm(s)
      PROVE  LedgerOK(DB)' /\ TxProgress' /\ SavedOK'
  <2>1. s \in Pending
    BY <1>0, <1>7 DEF AutoConfirm, NextDue, TxProgress
  <2>2. LedgerOK(DB)'
    BY <1>0, <1>7, <2>1, ConfirmKeepsLedger DEF AutoConfirm
  <2>3. Pending \ {s} \subseteq Pending'
    BY <1>7 DEF AutoConfirm, ConfirmWrites, Pending
  <2>4. TxProgress'
    <3>1. tx'.phase = tx.phase /\ tx'.day = tx.day /\ tx'.todo = tx.todo \ {s}
          /\ tx.phase \in {"before", "after"}
      BY <1>0, <1>7 DEF AutoConfirm, Goto, TxType
    <3> QED
      BY <1>0, <2>3, <3>1 DEF TxProgress
  <2> QED
    BY <1>0, <1>7, <2>2, <2>4, GotoKeepsSaved DEF AutoConfirm, Goto
<1>8. ASSUME NEW s \in SubIds, AutoConfirmRefused(s)
      PROVE  LedgerOK(DB)' /\ TxProgress' /\ SavedOK'
  <2>1. tx'.phase = tx.phase /\ tx'.day = tx.day /\ tx'.todo = tx.todo \ {s}
        /\ tx.phase \in {"before", "after"}
    BY <1>0, <1>8 DEF AutoConfirmRefused, Goto, TxType
  <2>2. TxProgress'
    BY <1>0, <1>8, <2>1 DEF AutoConfirmRefused, TxProgress, dbvars, Pending
  <2> QED
    BY <1>0, <1>1, <1>8, <2>2, GotoKeepsSaved DEF AutoConfirmRefused, Goto
<1>9. CASE ValidateAndClear
  <2>1. PICK d : d = tx.day
    OBVIOUS
  <2>2. ClearDay(d) /\ d \in TradingDays /\ Goto("build", {}) /\ ~Idle
    BY <1>0, <1>9, <2>1 DEF ValidateAndClear, TxProgress
  <2>3. LedgerOK(DB)' /\ PricedBy(d)' = {}
    BY <1>0, <2>2, ClearDayKeepsLedger
  <2>4. tx'.day = d /\ tx'.todo = {} /\ UNCHANGED saved
    BY <1>0, <2>1, <2>2 DEF Goto, TxType
  <2>5. TxProgress'
    BY <2>2, <2>3, <2>4 DEF TxProgress, PricedBy
  <2> QED
    BY <1>0, <2>2, <2>3, <2>4, <2>5, GotoKeepsSaved
<1>10. CASE BuildNothing
  <2>1. TxProgress'
    BY <1>0, <1>2, <1>3, <1>10 DEF BuildNothing, AfterBuild, dbvars, Pending
  <2> QED
    BY <1>0, <1>1, <1>10, <2>1, AfterBuildType, GotoKeepsSaved DEF BuildNothing
<1>11. CASE BuildFirst \/ BuildNext
  <2>1. PICK row : snap' = Put(snap, tx.day, row)
    BY <1>11 DEF BuildFirst, BuildNext
  <2>2. /\ PricedBy(tx.day) = {} /\ AfterBuild /\ ~Idle
        /\ UNCHANGED <<pstatus, startedAt, subs, legs>>
    BY <1>0, <1>11 DEF BuildFirst, BuildNext, TxProgress
  <2>3. LedgerOK(DB)'
    BY <1>0, <2>1, <2>2, BuildKeepsLedger
  <2>4. TxProgress'
    BY <1>0, <1>2, <1>3, <2>2 DEF AfterBuild, Pending
  <2> QED
    BY <1>0, <2>2, <2>3, <2>4, AfterBuildType, GotoKeepsSaved
<1>12. CASE Commit
  <2>1. TxProgress' /\ Idle'
    BY <1>12 DEF Commit, TxProgress, NoTx, Idle
  <2> QED
    BY <1>1, <1>12, <2>1 DEF Commit, SavedOK
<1>13. CASE Rollback
  <2>1. TxProgress' /\ Idle'
    BY <1>13 DEF Rollback, TxProgress, NoTx, Idle
  <2>2. LedgerOK(DB)'
    BY <1>0, <1>13 DEF Rollback, SavedOK, LedgerOK, DB
  <2> QED
    BY <2>1, <2>2 DEF SavedOK
<1> QED
  BY <1>4, <1>5, <1>6, <1>7, <1>8, <1>9, <1>10, <1>11, <1>12, <1>13 DEF TxStep

\* The invariant holds at the start.
LEMMA LedgerInit == Init => LedgerInv
<1> SUFFICES ASSUME Init PROVE LedgerInv
  OBVIOUS
<1>1. TypeOK
  BY TypeInit
<1>2. TxProgress /\ SavedOK
  BY DEF Init, NoTx, TxProgress, SavedOK, Idle
<1>3. LedgerOK(DB)
  BY DEF Init, EmptyTable, LedgerOK, DB, LegsPaired, FirstArrival, Priced,
         ConfirmedIn, ArrivalsIn
<1> QED
  BY <1>1, <1>2, <1>3 DEF LedgerInv

\* Every step keeps the invariant.
LEMMA LedgerNext == LedgerInv /\ [Next]_vars => LedgerInv'
<1> SUFFICES ASSUME LedgerInv, [Next]_vars PROVE LedgerInv'
  OBVIOUS
<1>1. TypeOK'
  BY TypeNext DEF LedgerInv
<1>2. LedgerOK(DB)' /\ TxProgress' /\ SavedOK'
  <2>1. CASE Request
    BY <2>1, RequestLedger
  <2>2. CASE SnapshotRequest
    BY <2>2, SnapshotRequestLedger
  <2>3. CASE TxStep
    BY <2>3, TransactionStepLedger
  <2>4. CASE UNCHANGED vars
    BY <2>4 DEF vars, LedgerInv, LedgerOK, DB, TxProgress, SavedOK, Idle, Pending,
                PricedBy, Confirmed
  <2> QED
    BY <2>1, <2>2, <2>3, <2>4 DEF Next
<1> QED
  BY <1>1, <1>2 DEF LedgerInv

\* The inductive invariant holds throughout.
THEOREM LedgerInvariant == Spec => []LedgerInv
BY LedgerInit, LedgerNext, PTL DEF Spec

\* Every table keeps its type, in the database and in what a rollback restores.
THEOREM TypeCorrect == Spec => []TypeOK
<1>1. LedgerInv => TypeOK
  BY DEF LedgerInv
<1> QED
  BY <1>1, LedgerInvariant, PTL

\* A CASH leg exists exactly for a confirmed subscription and says what it says,
\* through cancelled confirmations, cascades, recalculations and rollbacks.
THEOREM LegsAlwaysPaired == Spec => []CashLegPaired
<1>1. LedgerInv => CashLegPaired
  BY LedgerIsProperties DEF LedgerInv
<1> QED
  BY <1>1, LedgerInvariant, PTL

\* started_at and the portfolio's status always follow the earliest arrival.
THEOREM StartedAtAlwaysFirst == Spec => []StartedAtIsFirstArrival
<1>1. LedgerInv => StartedAtIsFirstArrival
  BY LedgerIsProperties DEF LedgerInv
<1> QED
  BY <1>1, LedgerInvariant, PTL

\* No confirmed subscription is ever priced by a snapshot that has been replaced.
THEOREM AlwaysPricedByStored == Spec => []PricedByStoredSnapshot
<1>1. LedgerInv => PricedByStoredSnapshot
  BY LedgerIsProperties DEF LedgerInv
<1> QED
  BY <1>1, LedgerInvariant, PTL


-----------------------------------------------------------------------------
(* The inductive invariant                                                 *)

\* Rows arrive after their application; what is pending in them arrives after every
\* day of D before n.
Ahead(rows, D, n) ==
    \A s \in DOMAIN rows :
        /\ rows[s].apply < rows[s].confirm
        /\ rows[s].status = "pending" => \A d \in D : d < n => d < rows[s].confirm

Whole(D) == \A d, e \in D : \A m \in TradingDays : d < m /\ m < e => m \in D
\* No trading day is missing from the first day of D up to n.
Filled(D, n) == \A d \in D : \A m \in TradingDays : d < m /\ m < n => m \in D
Within(D, n) == \A d \in D : d <= n

\* The day a transaction has reached, and that before which a recalculation knows
\* that nothing is pending; the others never give that up.
Reached(x) == IF x.phase \in {"after", "commit"} THEN x.day + 1 ELSE x.day
Known(x) == IF x.kind = "recalc" THEN Reached(x) ELSE LastDay + 1

\* What a transaction in state x knows of subscriptions and days.
ChainOK(rows, D, x) ==
    /\ Ahead(rows, D, Known(x))
    /\ x.phase # "idle" => x.day <= x.end /\ (x.kind # "recalc" => x.day = x.end)
    /\ x.phase = "precheck" => x.kind = "recalc"
    /\ x.phase = "commit" => x.kind # "recalc"
    /\ IF x.phase = "idle" \/ (x.phase = "checks" /\ x.kind # "recalc") THEN Whole(D)
       ELSE Filled(D, Reached(x)) /\ Within(D, x.end)
    /\ x.phase = "build" =>
          /\ x.day \notin D
          /\ \A s \in DOMAIN rows : rows[s].status = "pending" => x.day < rows[s].confirm

ChainInv ==
    /\ ChainOK(subs, SnapDays, tx)
    /\ ~Idle => Ahead(saved.subs, DOMAIN saved.snap, LastDay + 1) /\ Whole(DOMAIN saved.snap)

Disciplined == ~DeleteAnyDay /\ ~RecalcAnyStart

-----------------------------------------------------------------------------
(* Days and rows                                                           *)

LEMMA Facts ==
    ASSUME LedgerInv
    PROVE  /\ LastDay \in Nat /\ TradingDays \subseteq Days /\ Days \subseteq Nat \ {0}
           /\ \A d \in Days : d < LastDay + 1
           /\ SnapDays \subseteq TradingDays
           /\ tx.day \in Nat /\ tx.end \in Nat
           /\ \A s \in DOMAIN subs : subs[s] \in Subscription
           /\ \A s \in DOMAIN subs : subs[s].apply \in Nat /\ subs[s].confirm \in Nat
BY CalendarAssumption DEF LedgerInv, TypeOK, IsDatabase, DB, IsTable, Days, NoDate, SnapDays,
   Subscription

\* A nonempty set of days has a last one.
LEMMA LastOf ==
    ASSUME NEW S \in SUBSET Days, S # {}
    PROVE  \E x \in S : \A y \in S : y <= x
<1> DEFINE T == {LastDay - x : x \in S}
<1>1. T \in SUBSET Nat /\ T # {}
  <2>1. \A x \in S : LastDay - x \in Nat
    BY CalendarAssumption DEF Days
  <2> QED
    BY <2>1
<1>2. PICK m \in T : \A n \in T : ~ (<<n, m>> \in OpToRel(<, Nat))
  BY <1>1, NatLessThanWellFounded, WFMin
<1>3. \A n \in T : m <= n
  <2> HIDE DEF T
  <2> SUFFICES ASSUME NEW n \in T, n < m PROVE FALSE
    BY <1>1
  <2>1. <<n, m>> \in Nat \X Nat /\ <<n, m>>[1] < <<n, m>>[2]
    BY <1>1
  <2>2. <<n, m>> \in OpToRel(<, Nat)
    BY <2>1 DEF OpToRel
  <2> QED
    BY <1>2, <2>2
<1>4. PICK x \in S : m = LastDay - x
  BY <1>2
<1>5. \A y \in S : LastDay - x <= LastDay - y
  BY <1>3, <1>4
<1> QED BY <1>5, CalendarAssumption DEF Days

\* A confirmation leaves the dates of all rows and makes none pending.
LEMMA ConfirmDates ==
    ASSUME LedgerInv, NEW s \in Pending, NEW nav, ConfirmWrites(s, nav)
    PROVE  /\ DOMAIN subs' = DOMAIN subs
           /\ \A r \in DOMAIN subs :
                 /\ subs'[r].apply = subs[r].apply /\ subs'[r].confirm = subs[r].confirm
                 /\ subs'[r].status = "pending" => subs[r].status = "pending"
<1>1. s \in DOMAIN subs /\ subs[s] \in Subscription
  BY Facts DEF Pending
<1>2. LET row == ConfirmedRow(s, nav)
      IN  row.status = "confirmed" /\ row.apply = subs[s].apply /\ row.confirm = subs[s].confirm
  BY <1>1 DEF ConfirmedRow, Subscription
<1> QED BY <1>1, <1>2 DEF ConfirmWrites

\* Taking confirmations back leaves the dates of all rows.
LEMMA UnconfirmDates ==
    ASSUME LedgerInv, NEW S, UnconfirmWrites(S)
    PROVE  /\ DOMAIN subs' = DOMAIN subs
           /\ \A r \in DOMAIN subs :
                 /\ subs'[r].apply = subs[r].apply /\ subs'[r].confirm = subs[r].confirm
                 /\ subs'[r].status = "pending" => subs[r].status = "pending" \/ r \in S
<1>1. \A row \in Subscription :
          PendingRow(row).apply = row.apply /\ PendingRow(row).confirm = row.confirm
  BY DEF PendingRow, Subscription
<1> QED BY <1>1, Facts DEF UnconfirmWrites

\* After a day is cleared nothing pending is due on it that was not before.
LEMMA ClearedDates ==
    ASSUME LedgerInv, NEW d, ClearDay(d)
    PROVE  /\ SnapDays' = SnapDays \ {d}
           /\ DOMAIN subs' = DOMAIN subs
           /\ \A r \in DOMAIN subs :
                 /\ subs'[r].apply = subs[r].apply /\ subs'[r].confirm = subs[r].confirm
                 /\ subs'[r].status = "pending" =>
                       subs[r].status = "pending" \/ subs[r].apply = d
<1>1. SnapDays' = SnapDays \ {d}
  BY DEF ClearDay, Drop, SnapDays
<1> QED BY <1>1, UnconfirmDates DEF ClearDay, PricedBy

-----------------------------------------------------------------------------
(* Requests                                                                *)

LEMMA IdleKnows ==
    ASSUME LedgerInv, ChainInv, Idle
    PROVE  Ahead(subs, SnapDays, LastDay + 1) /\ Whole(SnapDays)
BY DEF ChainInv, ChainOK, Idle, NoTx, Known

LEMMA IdleChain ==
    ASSUME Idle', Ahead(subs', SnapDays', LastDay + 1), Whole(SnapDays')
    PROVE  ChainInv'
BY DEF ChainInv, ChainOK, Idle, NoTx, Known

\* A row written with dates ahead of the chain, and fewer or unchanged others.
LEMMA RowsAhead ==
    ASSUME LedgerInv, ChainInv, Idle, UNCHANGED <<snap, tx>>,
           \A s \in DOMAIN subs' :
              \/ /\ s \in DOMAIN subs
                 /\ subs'[s].apply = subs[s].apply /\ subs'[s].confirm = subs[s].confirm
                 /\ subs'[s].status = "pending" => subs[s].status = "pending"
              \/ subs'[s].apply < subs'[s].confirm /\ AfterLatestSnapshot(subs'[s].confirm)
    PROVE  ChainInv'
<1>1. Idle' /\ SnapDays' = SnapDays
  BY DEF Idle, SnapDays
<1>2. Ahead(subs', SnapDays, LastDay + 1)
  BY IdleKnows DEF Ahead, AfterLatestSnapshot
<1> QED BY <1>1, <1>2, IdleKnows, IdleChain

LEMMA RequestChain ==
    ASSUME LedgerInv, ChainInv, Request
    PROVE  ChainInv'
<1>1. ASSUME NEW s \in SubIds, NEW i \in Investors, NEW d \in TradingDays, NEW a \in Amounts,
             CreateSubscribe(s, i, d, a)
      PROVE  ChainInv'
  <2>1. PICK c \in TradingDays :
            /\ IsNextTradingDay(d, c) /\ AfterLatestSnapshot(c)
            /\ subs' = Put(subs, s, NewSub("subscribe", i, d, c, a, 0))
    BY <1>1 DEF CreateSubscribe
  <2>2. d < c
    BY <2>1, Facts DEF IsNextTradingDay
  <2> QED BY <1>1, <2>1, <2>2, RowsAhead DEF CreateSubscribe, Put, NewSub
<1>2. ASSUME NEW s \in SubIds, NEW i \in Investors, NEW d \in TradingDays, NEW q \in ShareCounts,
             CreateRedeem(s, i, d, q)
      PROVE  ChainInv'
  <2>1. PICK c \in TradingDays :
            /\ IsNextTradingDay(d, c) /\ AfterLatestSnapshot(c)
            /\ subs' = Put(subs, s, NewSub("redeem", i, d, c, 0, q))
    BY <1>2 DEF CreateRedeem
  <2>2. d < c
    BY <2>1, Facts DEF IsNextTradingDay
  <2> QED BY <1>2, <2>1, <2>2, RowsAhead DEF CreateRedeem, Put, NewSub
<1>3. ASSUME NEW s \in SubIds, NEW d \in TradingDays, UpdateApplyDate(s, d)
      PROVE  ChainInv'
  <2>1. PICK c \in TradingDays :
            /\ IsNextTradingDay(d, c) /\ AfterLatestSnapshot(c)
            /\ subs' = [subs EXCEPT ![s].apply = d, ![s].confirm = c]
    BY <1>3 DEF UpdateApplyDate
  <2>2. d < c
    BY <2>1, Facts DEF IsNextTradingDay
  <2>3. s \in DOMAIN subs /\ subs[s] \in Subscription
    BY <1>3, Facts DEF UpdateApplyDate, Pending
  <2>4. DOMAIN subs' = DOMAIN subs /\ subs'[s].apply = d /\ subs'[s].confirm = c
        /\ \A r \in DOMAIN subs \ {s} : subs'[r] = subs[r]
    BY <2>1, <2>3 DEF Subscription
  <2> QED BY <1>3, <2>1, <2>2, <2>4, RowsAhead DEF UpdateApplyDate
<1>4. ASSUME NEW s \in SubIds, NEW n \in Amounts \cup ShareCounts, UpdateQuantity(s, n)
      PROVE  ChainInv'
  <2>1. s \in DOMAIN subs /\ subs[s] \in Subscription
    BY <1>4, Facts DEF UpdateQuantity, Pending
  <2>2. subs' = [subs EXCEPT ![s].amount = n] \/ subs' = [subs EXCEPT ![s].shares = n]
    BY <1>4 DEF UpdateQuantity
  <2>3. DOMAIN subs' = DOMAIN subs /\ subs'[s].apply = subs[s].apply
        /\ subs'[s].confirm = subs[s].confirm /\ subs'[s].status = subs[s].status
        /\ \A r \in DOMAIN subs \ {s} : subs'[r] = subs[r]
    BY <2>1, <2>2 DEF Subscription
  <2> QED BY <1>4, <2>3, RowsAhead DEF UpdateQuantity
<1>5. ASSUME NEW s \in SubIds, CancelSubscription(s)
      PROVE  ChainInv'
  <2>1. s \in DOMAIN subs /\ subs[s] \in Subscription
    BY <1>5, Facts DEF CancelSubscription, Pending
  <2>2. DOMAIN subs' = DOMAIN subs /\ subs'[s].apply = subs[s].apply
        /\ subs'[s].confirm = subs[s].confirm /\ subs'[s].status = "cancelled"
        /\ \A r \in DOMAIN subs \ {s} : subs'[r] = subs[r]
    BY <1>5, <2>1 DEF Subscription, CancelSubscription
  <2> QED BY <1>5, <2>2, RowsAhead DEF CancelSubscription
<1>6. ASSUME NEW s \in SubIds, DeleteSubscription(s)
      PROVE  ChainInv'
  BY <1>6, RowsAhead DEF DeleteSubscription, Drop
<1>7. ASSUME NEW s \in SubIds, ConfirmSubscription(s)
      PROVE  ChainInv'
  <2>1. PICK nav : ConfirmWrites(s, nav)
    BY <1>7 DEF ConfirmSubscription
  <2> QED BY <1>7, <2>1, ConfirmDates, RowsAhead DEF ConfirmSubscription
<1>8. ASSUME NEW s \in SubIds, UnconfirmSubscription(s)
      PROVE  ChainInv'
  <2>1. UnconfirmWrites({s}) /\ AfterLatestSnapshot(subs[s].confirm) /\ s \in DOMAIN subs
    BY <1>8 DEF UnconfirmSubscription, AfterLatestSnapshot, Confirmed
  <2>2. subs[s].apply < subs[s].confirm
    BY <1>8, <2>1, IdleKnows DEF Ahead, UnconfirmSubscription
  <2> QED BY <1>8, <2>1, <2>2, UnconfirmDates, RowsAhead DEF UnconfirmSubscription
<1> QED BY <1>1, <1>2, <1>3, <1>4, <1>5, <1>6, <1>7, <1>8 DEF Request

-----------------------------------------------------------------------------
(* Snapshot requests                                                       *)

\* A transaction begins with what was known, which a rollback restores.
LEMMA BeginChain ==
    ASSUME LedgerInv, ChainInv, NEW phase, NEW kind, NEW day, NEW end, NEW todo,
           Begin(phase, kind, day, end, todo),
           LET x == [phase |-> phase, kind |-> kind, day |-> day, end |-> end, todo |-> todo]
           IN  ChainOK(subs, SnapDays, x)
    PROVE  ChainInv'
<1>1. Idle /\ saved' = DB /\ UNCHANGED <<subs, snap>>
  BY DEF Begin, dbvars
<1>2. SnapDays' = SnapDays /\ saved'.subs = subs /\ DOMAIN saved'.snap = SnapDays
  BY <1>1 DEF DB, SnapDays
<1>3. ChainOK(subs', SnapDays', tx')
  BY <1>1, <1>2 DEF Begin
<1> QED BY <1>1, <1>2, <1>3, IdleKnows DEF ChainInv

\* A day of the chain, and the next one after it, is reached by the chain.
LEMMA DayReached ==
    ASSUME LedgerInv, Whole(SnapDays), NEW l \in SnapDays, IsLatest(l), NEW d \in TradingDays,
           d = l \/ IsNextTradingDay(l, d)
    PROVE  Filled(SnapDays, d) /\ Within(SnapDays, d)
<1>1. \A e \in SnapDays : e <= l
  BY DEF IsLatest
<1>2. \A m \in TradingDays : m < d => m <= l
  BY Facts DEF IsNextTradingDay
<1>3. l <= d
  BY Facts DEF IsNextTradingDay
<1>4. Within(SnapDays, d)
  BY <1>1, <1>3, Facts DEF Within
<1>5. ASSUME NEW e \in SnapDays, NEW m \in TradingDays, e < m, m < d
      PROVE  m \in SnapDays
  <2>1. m = l \/ m < l
    BY <1>2, <1>5, Facts
  <2> QED BY <1>5, <2>1 DEF Whole
<1> QED BY <1>4, <1>5 DEF Filled

LEMMA SnapshotRequestChain ==
    ASSUME LedgerInv, ChainInv, SnapshotRequest, Disciplined
    PROVE  ChainInv'
<1>1. ASSUME NEW d \in TradingDays, BeginGenerate(d)
      PROVE  ChainInv'
  <2>1. Idle /\ d \in Nat
    BY <1>1, Facts DEF BeginGenerate, Begin
  <2>2. ChainOK(subs, SnapDays, [phase |-> "checks", kind |-> "generate", day |-> d, end |-> d,
                                 todo |-> {}])
    BY <2>1, IdleKnows DEF ChainOK, Known
  <2> QED BY <1>1, <2>2, BeginChain DEF BeginGenerate
<1>2. ASSUME NEW d \in TradingDays, BeginAdvance(d)
      PROVE  ChainInv'
  <2>1. Idle /\ d \in Nat
    BY <1>2, Facts DEF BeginAdvance, Begin
  <2>2. ChainOK(subs, SnapDays, [phase |-> "checks", kind |-> "advance", day |-> d, end |-> d,
                                 todo |-> {}])
    BY <2>1, IdleKnows DEF ChainOK, Known
  <2> QED BY <1>2, <2>2, BeginChain DEF BeginAdvance
<1>3. ASSUME NEW a \in Days, NEW b \in Days, BeginRecalculate(a, b)
      PROVE  ChainInv'
  <2>1. PICK last \in SnapDays \cup {b} :
            b <= last /\ Within(SnapDays, last) /\ Begin("precheck", "recalc", a, last, {})
    BY <1>3 DEF BeginRecalculate, Within
  <2>2. Idle /\ a \in Nat /\ last \in Nat /\ a <= last
    BY <1>3, <2>1, Facts DEF BeginRecalculate, Begin
  <2>3. Filled(SnapDays, a)
    <3>1. CASE a \in SnapDays
      BY <2>2, <3>1, IdleKnows DEF Filled, Whole
    <3>2. CASE \E l \in SnapDays : IsLatest(l) /\ IsNextTradingDay(l, a)
      <4>1. a \in TradingDays
        BY <3>2 DEF IsNextTradingDay
      <4> QED BY <2>2, <3>2, <4>1, IdleKnows, DayReached
    <3>3. CASE SnapDays = {}
      BY <3>3 DEF Filled
    <3> QED BY <1>3, <3>1, <3>2, <3>3 DEF BeginRecalculate, RecalcStart, Disciplined
  <2>4. Ahead(subs, SnapDays, a)
    BY <2>2, IdleKnows, Facts DEF Ahead
  <2> QED BY <2>1, <2>2, <2>3, <2>4, BeginChain DEF ChainOK, Known, Reached
<1>4. CASE BeginConfirmOnly
  <2>1. PICK l \in SnapDays : IsLatest(l) /\ Begin("after", "confirm", l, l, DueAfter(l))
    BY <1>4 DEF BeginConfirmOnly
  <2>2. Idle /\ l \in TradingDays /\ l \in Nat
    BY <2>1, Facts DEF Begin
  <2>3. Filled(SnapDays, l) /\ Within(SnapDays, l)
    BY <2>1, <2>2, IdleKnows, DayReached
  <2>4. Filled(SnapDays, l + 1)
    BY <2>2, <2>3, Facts DEF Filled
  <2> QED BY <2>1, <2>2, <2>3, <2>4, IdleKnows, BeginChain DEF ChainOK, Known, Reached
<1>5. ASSUME NEW d \in TradingDays, DeleteSnapshot(d)
      PROVE  ChainInv'
  <2>1. Idle /\ Idle' /\ IsLatest(d) /\ ClearDay(d)
    BY <1>5 DEF DeleteSnapshot, Disciplined, Idle
  <2>2. \A e \in SnapDays : e <= d
    BY <2>1 DEF IsLatest
  <2>3. Whole(SnapDays')
    BY <2>1, <2>2, IdleKnows, ClearedDates, Facts DEF Whole
  <2>4. Ahead(subs', SnapDays', LastDay + 1)
    BY <2>1, <2>2, IdleKnows, ClearedDates, Facts DEF Ahead
  <2> QED BY <2>1, <2>3, <2>4, IdleChain
<1> QED BY <1>1, <1>2, <1>3, <1>4, <1>5 DEF SnapshotRequest

-----------------------------------------------------------------------------
(* Steps of a transaction                                                  *)

\* A step that stays inside the transaction keeps what a rollback restores.
LEMMA Inside ==
    ASSUME ChainInv, ~Idle, UNCHANGED saved, ChainOK(subs', SnapDays', tx')
    PROVE  ChainInv'
BY DEF ChainInv

\* A day without a day before it has none before it.
LEMMA NothingBefore ==
    ASSUME LedgerInv, NEW d \in Nat, Before(d) = {}
    PROVE  \A e \in SnapDays : ~ e < d
<1> DEFINE S == {e \in SnapDays : e < d}
<1>1. SUFFICES ASSUME S # {} PROVE FALSE
  OBVIOUS
<1>2. S \in SUBSET Days
  BY Facts
<1>3. PICK x \in S : \A y \in S : y <= x
  BY <1>1, <1>2, LastOf
<1> QED BY <1>3 DEF Before

\* The chain is continued or its last day rebuilt.
LEMMA CheckedDay ==
    ASSUME LedgerInv, Whole(SnapDays), NEW d \in TradingDays, Continuous(d)
    PROVE  Filled(SnapDays, d) /\ Within(SnapDays, d)
<1>1. CASE SnapDays = {}
  BY <1>1 DEF Filled, Within
<1>2. CASE SnapDays # {}
  <2>1. SnapDays \in SUBSET Days
    BY Facts
  <2>2. PICK l \in SnapDays : IsLatest(l)
    BY <1>2, <2>1, LastOf DEF IsLatest
  <2> QED BY <2>2, DayReached DEF Continuous
<1> QED BY <1>1, <1>2

LEMMA CommitChain ==
    ASSUME LedgerInv, ChainInv, Commit
    PROVE  ChainInv'
<1>1. Idle' /\ subs' = subs /\ SnapDays' = SnapDays
  BY DEF Commit, dbvars, Idle, SnapDays
<1>2. /\ Filled(SnapDays, Reached(tx)) /\ Within(SnapDays, tx.end)
      /\ Ahead(subs, SnapDays, Known(tx))
      /\ tx.day <= tx.end /\ (tx.kind # "recalc" => tx.day = tx.end)
  BY DEF Commit, DaysDone, ChainInv, ChainOK
<1>3. \A d \in SnapDays : d < Reached(tx)
  BY <1>2, Facts DEF Commit, DaysDone, ChainInv, ChainOK, Reached, Within
<1>4. Whole(SnapDays)
  BY <1>2, <1>3, Facts DEF Whole, Filled, Reached
<1>5. Ahead(subs, SnapDays, LastDay + 1)
  BY <1>2, <1>3, Facts DEF Ahead, Known
<1> QED BY <1>1, <1>4, <1>5, IdleChain

LEMMA RollbackChain ==
    ASSUME ChainInv, Rollback
    PROVE  ChainInv'
<1>1. /\ Idle' /\ subs' = saved.subs /\ SnapDays' = DOMAIN saved.snap
  BY DEF Rollback, Idle, SnapDays
<1> QED BY <1>1, IdleChain DEF ChainInv, Rollback

LEMMA GotoFields ==
    ASSUME LedgerInv, NEW phase, NEW todo, Goto(phase, todo)
    PROVE  /\ tx'.phase = phase /\ tx'.kind = tx.kind /\ tx'.day = tx.day /\ tx'.end = tx.end
           /\ UNCHANGED saved
BY DEF LedgerInv, TypeOK, Goto

LEMMA AutoConfirmChain ==
    ASSUME LedgerInv, ChainInv, NEW s \in SubIds, AutoConfirm(s) \/ AutoConfirmRefused(s)
    PROVE  ChainInv'
<1>1. /\ tx.phase \in {"before", "after"} /\ Goto(tx.phase, tx.todo \ {s})
      /\ SnapDays' = SnapDays /\ s \in Pending /\ ~Idle
  BY PhaseIsNotIdle DEF AutoConfirm, AutoConfirmRefused, NextDue, LedgerInv, TxProgress, dbvars,
     SnapDays
<1>2. /\ DOMAIN subs' = DOMAIN subs
      /\ \A r \in DOMAIN subs :
            /\ subs'[r].apply = subs[r].apply /\ subs'[r].confirm = subs[r].confirm
            /\ subs'[r].status = "pending" => subs[r].status = "pending"
  <2>1. CASE AutoConfirm(s)
    BY <1>1, <2>1, ConfirmDates DEF AutoConfirm
  <2>2. CASE AutoConfirmRefused(s)
    BY <2>2 DEF AutoConfirmRefused, dbvars
  <2> QED BY <2>1, <2>2
<1>3. Known(tx') = Known(tx) /\ Reached(tx') = Reached(tx)
  BY <1>1, GotoFields DEF Known, Reached
<1>4. ChainOK(subs', SnapDays', tx')
  BY <1>1, <1>2, <1>3, GotoFields DEF ChainInv, ChainOK, Ahead
<1> QED BY <1>1, <1>4, Inside, GotoFields

LEMMA BuildChain ==
    ASSUME LedgerInv, ChainInv, BuildNothing \/ BuildFirst \/ BuildNext
    PROVE  ChainInv'
<1>1. /\ tx.phase = "build" /\ AfterBuild /\ subs' = subs /\ ~Idle
      /\ tx.day \in TradingDays
  BY PhaseIsNotIdle DEF BuildNothing, BuildFirst, BuildNext, dbvars, LedgerInv, TxProgress
<1>2. /\ tx'.phase = IF tx.kind = "generate" THEN "commit" ELSE "after"
      /\ tx'.kind = tx.kind /\ tx'.day = tx.day /\ tx'.end = tx.end /\ UNCHANGED saved
  BY <1>1, GotoFields DEF AfterBuild
<1>3. \/ SnapDays' = SnapDays \cup {tx.day}
      \/ SnapDays' = SnapDays /\ \A e \in SnapDays : ~ e < tx.day
  <2>1. CASE BuildNothing
    BY <2>1, NothingBefore, Facts DEF BuildNothing, dbvars, SnapDays
  <2>2. CASE BuildFirst \/ BuildNext
    BY <2>2 DEF BuildFirst, BuildNext, Put, SnapDays
  <2> QED BY <2>1, <2>2
<1>4. /\ Ahead(subs, SnapDays, Known(tx)) /\ Filled(SnapDays, tx.day) /\ Within(SnapDays, tx.end)
      /\ tx.day \notin SnapDays
      /\ \A s \in DOMAIN subs : subs[s].status = "pending" => tx.day < subs[s].confirm
      /\ tx.day <= tx.end /\ (tx.kind # "recalc" => tx.day = tx.end)
  BY <1>1 DEF ChainInv, ChainOK, Reached
<1>5. /\ Reached(tx') = tx.day + 1
      /\ Known(tx') = IF tx.kind = "recalc" THEN tx.day + 1 ELSE LastDay + 1
      /\ Known(tx) = IF tx.kind = "recalc" THEN tx.day ELSE LastDay + 1
  BY <1>1, <1>2 DEF Reached, Known
<1>6. Filled(SnapDays', tx.day + 1) /\ Within(SnapDays', tx.end)
  BY <1>3, <1>4, Facts DEF Filled, Within
<1>7. Ahead(subs, SnapDays', Known(tx'))
  BY <1>3, <1>4, <1>5, Facts DEF Ahead
<1>8. ChainOK(subs', SnapDays', tx')
  BY <1>1, <1>2, <1>4, <1>5, <1>6, <1>7 DEF ChainOK
<1> QED BY <1>1, <1>2, <1>8, Inside

LEMMA ClearChain ==
    ASSUME LedgerInv, ChainInv, RecalcClearDay \/ ValidateAndClear
    PROVE  ChainInv'
<1>1. /\ ~Idle /\ ClearDay(tx.day) /\ NoPendingDue(tx.day) /\ tx.phase \in {"precheck", "before"}
  BY PhaseIsNotIdle DEF RecalcClearDay, ValidateAndClear
<1>2. /\ tx'.phase = IF tx.phase = "precheck" THEN "checks" ELSE "build"
      /\ tx'.kind = tx.kind /\ tx'.day = tx.day /\ tx'.end = tx.end /\ UNCHANGED saved
  BY GotoFields DEF RecalcClearDay, ValidateAndClear
<1>3. /\ Ahead(subs, SnapDays, Known(tx)) /\ Filled(SnapDays, tx.day) /\ Within(SnapDays, tx.end)
      /\ tx.day <= tx.end /\ (tx.kind # "recalc" => tx.day = tx.end)
      /\ tx.phase = "precheck" => tx.kind = "recalc"
  BY <1>1 DEF ChainInv, ChainOK, Reached
<1>4. SnapDays' = SnapDays \ {tx.day}
  BY <1>1, ClearedDates
<1>5. \A s \in DOMAIN subs' :
          /\ s \in DOMAIN subs /\ subs'[s].apply < subs'[s].confirm
          /\ subs'[s].status = "pending" => tx.day < subs'[s].confirm
  <2>1. \A s \in DOMAIN subs : subs[s].status = "pending" => tx.day < subs[s].confirm
    BY <1>1 DEF NoPendingDue, Pending
  <2> QED BY <1>1, <1>3, <2>1, ClearedDates DEF Ahead
<1>6. Filled(SnapDays', tx.day) /\ Within(SnapDays', tx.end)
  BY <1>3, <1>4, Facts DEF Filled, Within
<1>7. Reached(tx') = tx.day /\ Known(tx') = IF tx.kind = "recalc" THEN tx.day ELSE LastDay + 1
  BY <1>2 DEF Reached, Known
<1>8. Ahead(subs', SnapDays', Known(tx'))
  <2>1. ASSUME NEW s \in DOMAIN subs', subs'[s].status = "pending", NEW d \in SnapDays',
               d < Known(tx')
        PROVE  d < subs'[s].confirm
    <3>1. d <= tx.day
      BY <1>3, <1>6, <1>7, <2>1, <1>4, Facts DEF Within
    <3>2. subs'[s].confirm \in Nat
      BY <1>1, <2>1, ClearedDates, Facts
    <3> QED BY <1>4, <1>5, <2>1, <3>1, <3>2, Facts
  <2> QED BY <1>5, <2>1 DEF Ahead
<1>9. ChainOK(subs', SnapDays', tx')
  BY <1>1, <1>2, <1>3, <1>4, <1>5, <1>6, <1>7, <1>8 DEF ChainOK
<1> QED BY <1>1, <1>2, <1>9, Inside

LEMMA TxStepChain ==
    ASSUME LedgerInv, ChainInv, TxStep
    PROVE  ChainInv'
<1>1. CASE RecalcSkipDay \/ RecalcNextDay
  <2>1. /\ ~Idle /\ UNCHANGED saved /\ subs' = subs /\ SnapDays' = SnapDays
        /\ tx.day < tx.end /\ tx.phase \in {"precheck", "after"}
    BY <1>1, PhaseIsNotIdle DEF RecalcSkipDay, RecalcNextDay, dbvars, SnapDays
  <2>2. /\ tx'.phase = "precheck" /\ tx'.kind = tx.kind /\ tx'.day = tx.day + 1 /\ tx'.end = tx.end
        /\ tx.kind = "recalc"
    BY <1>1 DEF RecalcSkipDay, RecalcNextDay, LedgerInv, TypeOK, ChainInv, ChainOK
  <2>3. tx.phase = "precheck" => tx.day \notin TradingDays
    BY <1>1 DEF RecalcSkipDay, RecalcNextDay
  <2>4. Known(tx') = tx.day + 1 /\ Reached(tx') = tx.day + 1
    BY <2>2 DEF Known, Reached
  <2>5. Known(tx) = Reached(tx) /\ Reached(tx) = IF tx.phase = "after" THEN tx.day + 1 ELSE tx.day
    BY <2>1, <2>2 DEF Known, Reached
  <2>6. /\ Ahead(subs, SnapDays, Reached(tx)) /\ Filled(SnapDays, Reached(tx))
        /\ Within(SnapDays, tx.end)
    BY <2>1, <2>2, <2>5 DEF ChainInv, ChainOK
  <2>7. Ahead(subs, SnapDays, tx.day + 1) /\ Filled(SnapDays, tx.day + 1)
    BY <2>1, <2>3, <2>5, <2>6, Facts DEF Ahead, Filled
  <2>8. ChainOK(subs', SnapDays', tx')
    BY <2>1, <2>2, <2>4, <2>6, <2>7, Facts DEF ChainOK
  <2> QED BY <2>1, <2>8, Inside
<1>2. CASE RecalcClearDay \/ ValidateAndClear
  BY <1>2, ClearChain
<1>3. CASE CheckDay
  <2>1. /\ ~Idle /\ tx.phase = "checks" /\ tx.day \in TradingDays /\ subs' = subs
        /\ SnapDays' = SnapDays
        /\ tx'.phase = "before" /\ tx'.kind = tx.kind /\ tx'.day = tx.day /\ tx'.end = tx.end
        /\ UNCHANGED saved
    BY <1>3, PhaseIsNotIdle, GotoFields DEF CheckDay, dbvars, SnapDays
  <2>2. Filled(SnapDays, tx.day) /\ Within(SnapDays, tx.end)
    <3>1. CASE tx.kind = "recalc"
      BY <2>1, <3>1 DEF ChainInv, ChainOK, Reached
    <3>2. CASE tx.kind # "recalc"
      BY <1>3, <2>1, <3>2, CheckedDay DEF ChainInv, ChainOK, CheckDay
    <3> QED BY <3>1, <3>2
  <2>3. Known(tx') = Known(tx) /\ Reached(tx') = tx.day
    BY <2>1 DEF Known, Reached
  <2>4. ChainOK(subs', SnapDays', tx')
    BY <2>1, <2>2, <2>3 DEF ChainInv, ChainOK
  <2> QED BY <2>1, <2>4, Inside
<1>4. CASE \E s \in SubIds : AutoConfirm(s) \/ AutoConfirmRefused(s)
  BY <1>4, AutoConfirmChain
<1>5. CASE BuildNothing \/ BuildFirst \/ BuildNext
  BY <1>5, BuildChain
<1> QED BY <1>1, <1>2, <1>3, <1>4, <1>5, CommitChain, RollbackChain DEF TxStep

-----------------------------------------------------------------------------
(* Theorems                                                                *)

LEMMA ChainInit == Init => ChainInv
BY DEF Init, ChainInv, ChainOK, Ahead, Whole, Idle, NoTx, Known, SnapDays, EmptyTable

LEMMA ChainNext == Disciplined /\ LedgerInv /\ ChainInv /\ [Next]_vars => ChainInv'
<1> SUFFICES ASSUME Disciplined, LedgerInv, ChainInv, [Next]_vars PROVE ChainInv'
  OBVIOUS
<1>1. CASE UNCHANGED vars
  BY <1>1 DEF vars, ChainInv, SnapDays, Idle
<1> QED BY <1>1, RequestChain, SnapshotRequestChain, TxStepChain DEF Next

\* The chain of a portfolio whose days are deleted from the end and recalculated
\* from a day they reach (delete_snapshots_bulk, recalculate_snapshots).
THEOREM ChainInvariant == ASSUME Disciplined PROVE Spec => []ChainInv
<1>1. LedgerInv /\ ChainInv /\ [Next]_vars => ChainInv'
  BY ChainNext
<1> QED BY ChainInit, <1>1, LedgerInvariant, PTL DEF Spec

\* No trading day is missing between two snapshots, whatever a recalculation skips
\* on the way (_validate_snapshot_continuity).
THEOREM AlwaysContiguous == ASSUME Disciplined PROVE Spec => []SnapshotsContiguous
<1>1. LedgerInv /\ ChainInv => SnapshotsContiguous
  BY IdleKnows DEF SnapshotsContiguous, Whole
<1> QED BY <1>1, ChainInvariant, LedgerInvariant, PTL

\* No pending subscription is due on a day of the chain, whatever the cascades of
\* deletions and recalculations took back (_check_pending_transactions).
THEOREM PendingAlwaysAhead == ASSUME Disciplined PROVE Spec => []PendingLiesAhead
<1>1. LedgerInv /\ ChainInv => PendingLiesAhead
  <2> SUFFICES ASSUME LedgerInv, ChainInv, Idle, NEW s \in Pending, NEW d \in SnapDays
               PROVE  d < subs[s].confirm
    BY DEF PendingLiesAhead
  <2> QED BY IdleKnows, Facts DEF Ahead, Pending
<1> QED BY <1>1, ChainInvariant, LedgerInvariant, PTL

-----------------------------------------------------------------------------
(* The books                                                               *)

\* What snapshots up to day d have counted, and what a row is worth to them.
Counted(rows, d) ==
    {s \in DOMAIN rows : rows[s].status = "confirmed" /\ rows[s].confirm <= d}
CountedOf(rows, i, d) == {s \in Counted(rows, d) : rows[s].investor = i}
SharesIn(row) == IF row.type = "subscribe" THEN row.shares ELSE -row.shares
CashIn(row) == IF row.type = "subscribe" THEN row.amount ELSE -row.amount
SharesMap(rows) == [s \in DOMAIN rows |-> SharesIn(rows[s])]
CashMap(rows) == [s \in DOMAIN rows |-> CashIn(rows[s])]
NetShares(rows, i, d) == SumFunctionOnSet(SharesMap(rows), CountedOf(rows, i, d))
NeverShort(rows, D, i, d) == \A e \in D : e <= d => NetShares(rows, i, e) >= 0

\* Day d of a table holds what a replay of the rows up to it gives.
Fits(rows, table, d) ==
    /\ \A s \in SubIds :
          table[d].booked[s] = IF s \in Counted(rows, d) THEN SharesIn(rows[s]) ELSE 0
    /\ table[d].cash = SumFunctionOnSet(CashMap(rows), Counted(rows, d))
    /\ \A i \in Investors :
          NeverShort(rows, DOMAIN table, i, d) => table[d].held[i] = NetShares(rows, i, d)

\* If no day of D precedes day n, nothing confirmed does.
Opened(rows, D, n) ==
    (\A d \in D : n <= d) =>
        \A s \in DOMAIN rows : rows[s].status = "confirmed" => n <= rows[s].confirm

\* Shares and amount of a confirmed row go by its price, which is 1.0000 when it
\* does not come from a snapshot.
ValuedRow(row) ==
    IF row.type = "subscribe" THEN row.shares = SharesOf(row.amount, row.nav)
    ELSE row.amount = AmountOf(row.shares, row.nav)
Valued(rows, D) ==
    \A s \in DOMAIN rows : rows[s].status = "confirmed" =>
        ValuedRow(rows[s]) /\ (rows[s].apply \notin D => rows[s].nav = Par)

\* The days a transaction has left behind, or has yet to touch, fit.
BookOK(rows, table, x) ==
    /\ IsFiniteSet(DOMAIN rows)
    /\ Valued(rows, DOMAIN table)
    /\ \A d \in DOMAIN table :
          d < Known(x) => Fits(rows, table, d) /\ Opened(rows, DOMAIN table, d)
    /\ x.kind = "recalc" \/ x.phase \in {"before", "build", "after", "commit"} =>
          Opened(rows, DOMAIN table, Reached(x))
    /\ x.phase = "before" =>
          \A s \in x.todo : DOMAIN table # {} /\ \A d \in DOMAIN table : d < rows[s].confirm
    /\ x.phase \in {"build", "after", "commit"} =>
          \A s \in DOMAIN rows : rows[s].status = "pending" => x.day < rows[s].confirm

BookInv ==
    /\ BookOK(subs, snap, tx)
    /\ ~Idle => BookOK(saved.subs, saved.snap, NoTx)

-----------------------------------------------------------------------------
(* Sums and rows                                                           *)

\* A change of rows that no day of D before n has counted, or will have.
Moves(rows, new, D, n) ==
    \A s \in DOMAIN rows \cup DOMAIN new :
        \/ s \in DOMAIN rows \cap DOMAIN new /\ new[s] = rows[s]
        \/ /\ s \in DOMAIN rows /\ rows[s].status = "confirmed" =>
                  \A d \in D : d < n => d < rows[s].confirm
           /\ s \in DOMAIN new /\ new[s].status = "confirmed" =>
                  \A d \in D : d < n => d < new[s].confirm

RowTable(rows) == rows \in [DOMAIN rows -> Subscription] /\ IsFiniteSet(DOMAIN rows)

LEMMA RowFacts ==
    ASSUME NEW rows, RowTable(rows)
    PROVE  \A s \in DOMAIN rows :
              /\ rows[s].confirm \in Nat /\ rows[s].confirm \in TradingDays
              /\ rows[s].apply \in Nat
              /\ rows[s].shares \in Int /\ rows[s].amount \in Int /\ rows[s].nav \in Nat
              /\ SharesMap(rows)[s] = SharesIn(rows[s]) /\ SharesMap(rows)[s] \in Int
              /\ CashMap(rows)[s] = CashIn(rows[s]) /\ CashMap(rows)[s] \in Int
BY CalendarAssumption DEF RowTable, Subscription, Days, SharesMap, CashMap, SharesIn, CashIn

LEMMA CountedFinite ==
    ASSUME NEW rows, RowTable(rows), NEW d
    PROVE  /\ IsFiniteSet(Counted(rows, d)) /\ Counted(rows, d) \subseteq DOMAIN rows
           /\ \A i : IsFiniteSet(CountedOf(rows, i, d)) /\ CountedOf(rows, i, d) \subseteq DOMAIN rows
BY FS_Subset DEF RowTable, Counted, CountedOf

LEMMA NetIsInt ==
    ASSUME NEW rows, RowTable(rows), NEW d, NEW i
    PROVE  /\ NetShares(rows, i, d) \in Int
           /\ SumFunctionOnSet(CashMap(rows), Counted(rows, d)) \in Int
<1>1. \A x \in CountedOf(rows, i, d) : SharesMap(rows)[x] \in Int
  BY RowFacts, CountedFinite
<1>2. \A x \in Counted(rows, d) : CashMap(rows)[x] \in Int
  BY RowFacts, CountedFinite
<1>3. NetShares(rows, i, d) \in Int
  BY <1>1, CountedFinite, SumRemove DEF NetShares
<1> QED BY <1>2, <1>3, CountedFinite, SumRemove

\* What no day up to d has counted does not matter to it.
LEMMA CountedKept ==
    ASSUME NEW rows, NEW new, RowTable(rows), RowTable(new), NEW D, NEW n,
           Moves(rows, new, D, n), NEW d \in D, d \in Nat, d < n, NEW e \in Nat, e <= d
    PROVE  /\ Counted(new, e) = Counted(rows, e)
           /\ \A s \in Counted(rows, e) : new[s] = rows[s]
           /\ \A i : CountedOf(new, i, e) = CountedOf(rows, i, e)
<1>1. ASSUME NEW s \in Counted(rows, e) PROVE s \in DOMAIN new /\ new[s] = rows[s]
  BY <1>1, RowFacts DEF Counted, Moves
<1>2. ASSUME NEW s \in Counted(new, e) PROVE s \in DOMAIN rows /\ new[s] = rows[s]
  BY <1>2, RowFacts DEF Counted, Moves
<1>3. Counted(new, e) = Counted(rows, e)
  BY <1>1, <1>2 DEF Counted
<1> QED BY <1>1, <1>3 DEF CountedOf

LEMMA NetKept ==
    ASSUME NEW rows, NEW new, RowTable(rows), RowTable(new), NEW D, NEW n,
           Moves(rows, new, D, n), NEW d \in D, d \in Nat, d < n, NEW e \in Nat, e <= d
    PROVE  /\ \A i : NetShares(new, i, e) = NetShares(rows, i, e)
           /\ SumFunctionOnSet(CashMap(new), Counted(new, e)) =
                  SumFunctionOnSet(CashMap(rows), Counted(rows, e))
<1>1. /\ Counted(new, e) = Counted(rows, e)
      /\ \A s \in Counted(rows, e) : new[s] = rows[s]
      /\ \A i : CountedOf(new, i, e) = CountedOf(rows, i, e)
  BY CountedKept
<1>2. \A s \in Counted(rows, e) : s \in DOMAIN rows /\ s \in DOMAIN new
  BY <1>1 DEF Counted
<1>3. \A s \in Counted(rows, e) : CashMap(new)[s] = CashMap(rows)[s]
  BY <1>1, <1>2, RowFacts
<1>4. \A s \in Counted(rows, e) : SharesMap(new)[s] = SharesMap(rows)[s]
  BY <1>1, <1>2, RowFacts
<1>5. ASSUME NEW i PROVE NetShares(new, i, e) = NetShares(rows, i, e)
  <2>1. \A s \in CountedOf(rows, i, e) : SharesMap(new)[s] = SharesMap(rows)[s]
    BY <1>4 DEF CountedOf
  <2> QED BY <1>1, <2>1, CountedFinite, SumAgree DEF NetShares
<1> QED BY <1>1, <1>3, <1>5, CountedFinite, SumAgree

LEMMA MovesKeep ==
    ASSUME NEW rows, NEW new, RowTable(rows), RowTable(new), NEW table, DOMAIN table \subseteq Nat,
           NEW n, Moves(rows, new, DOMAIN table, n), NEW d \in DOMAIN table, d < n,
           Fits(rows, table, d), Opened(rows, DOMAIN table, d)
    PROVE  Fits(new, table, d) /\ Opened(new, DOMAIN table, d)
<1>0. d \in Nat /\ d <= d
  OBVIOUS
<1>1. /\ Counted(new, d) = Counted(rows, d)
      /\ \A s \in Counted(rows, d) : new[s] = rows[s]
  BY <1>0, CountedKept
<1>2. \A e \in Nat : e <= d =>
         /\ \A i : NetShares(new, i, e) = NetShares(rows, i, e)
         /\ SumFunctionOnSet(CashMap(new), Counted(new, e)) =
                SumFunctionOnSet(CashMap(rows), Counted(rows, e))
  BY <1>0, NetKept
<1>3. \A i : NeverShort(new, DOMAIN table, i, d) <=> NeverShort(rows, DOMAIN table, i, d)
  BY <1>0, <1>2 DEF NeverShort
<1>4. Fits(new, table, d)
  BY <1>0, <1>1, <1>2, <1>3 DEF Fits
<1>5. Opened(new, DOMAIN table, d)
  <2> SUFFICES ASSUME \A e \in DOMAIN table : d <= e,
                      NEW s \in DOMAIN new, new[s].status = "confirmed"
               PROVE  d <= new[s].confirm
    BY DEF Opened
  <2>1. CASE s \in DOMAIN rows /\ new[s] = rows[s]
    BY <2>1 DEF Opened
  <2>2. CASE ~(s \in DOMAIN rows /\ new[s] = rows[s])
    BY <2>2, RowFacts DEF Moves
  <2> QED BY <2>1, <2>2
<1> QED BY <1>4, <1>5

\* Days after d may come and go.
LEMMA LaterDays ==
    ASSUME NEW rows, NEW table, NEW other, DOMAIN table \subseteq Nat, DOMAIN other \subseteq Nat,
           NEW d \in DOMAIN table \cap DOMAIN other, other[d] = table[d],
           \A e \in Nat : e <= d => (e \in DOMAIN other <=> e \in DOMAIN table),
           Fits(rows, table, d), Opened(rows, DOMAIN table, d)
    PROVE  Fits(rows, other, d) /\ Opened(rows, DOMAIN other, d)
<1>1. \A i : NeverShort(rows, DOMAIN other, i, d) <=> NeverShort(rows, DOMAIN table, i, d)
  BY DEF NeverShort
<1>2. (\A e \in DOMAIN other : d <= e) => (\A e \in DOMAIN table : d <= e)
  <2> SUFFICES ASSUME \A e \in DOMAIN other : d <= e, NEW e \in DOMAIN table, e < d PROVE FALSE
    OBVIOUS
  <2> QED OBVIOUS
<1>3. Opened(rows, DOMAIN other, d)
  BY <1>2 DEF Opened
<1> QED BY <1>1, <1>3 DEF Fits

\* The rows and days of the current state.
LEMMA BookFacts ==
    ASSUME LedgerInv, BookInv
    PROVE  /\ RowTable(subs) /\ SnapDays \subseteq Nat /\ SnapDays \subseteq Days
           /\ \A d \in SnapDays : d < LastDay + 1
           /\ LegsPaired(subs, legs) /\ Confirmed = ConfirmedIn(subs)
BY Facts DEF LedgerInv, BookInv, BookOK, TypeOK, IsDatabase, DB, IsTable, RowTable, LedgerOK,
   Confirmed, ConfirmedIn

-----------------------------------------------------------------------------
(* Requests                                                                *)

LEMMA IdleBook ==
    ASSUME LedgerInv, BookInv, LedgerInv', Idle, Idle', UNCHANGED snap,
           Moves(subs, subs', SnapDays, LastDay + 1), IsFiniteSet(DOMAIN subs'),
           Valued(subs', SnapDays)
    PROVE  BookInv'
<1>1. RowTable(subs) /\ SnapDays \subseteq Nat /\ \A d \in SnapDays : d < LastDay + 1
  BY BookFacts
<1>2. RowTable(subs')
  BY DEF RowTable, LedgerInv, TypeOK, IsDatabase, DB, IsTable
<1>3. \A d \in SnapDays : Fits(subs, snap, d) /\ Opened(subs, SnapDays, d)
  BY <1>1 DEF BookInv, BookOK, Idle, NoTx, Known, SnapDays
<1>4. \A d \in SnapDays : Fits(subs', snap, d) /\ Opened(subs', SnapDays, d)
  BY <1>1, <1>2, <1>3, MovesKeep DEF SnapDays
<1>5. BookOK(subs', snap, NoTx)
  BY <1>4 DEF BookOK, NoTx, SnapDays
<1> QED BY <1>5 DEF BookInv, Idle

\* A request that leaves the confirmed rows alone.
LEMMA QuietBook ==
    ASSUME LedgerInv, BookInv, LedgerInv', Idle, UNCHANGED <<snap, tx>>,
           IsFiniteSet(DOMAIN subs'), Confirmed' = Confirmed, \A s \in Confirmed : subs'[s] = subs[s]
    PROVE  BookInv'
<1>1. Moves(subs, subs', SnapDays, LastDay + 1)
  BY DEF Moves, Confirmed
<1>2. Valued(subs, SnapDays)
  BY DEF BookInv, BookOK, SnapDays
<1>3. Valued(subs', SnapDays)
  BY <1>2 DEF Valued, Confirmed
<1> QED BY <1>1, <1>3, IdleBook DEF Idle

\* What a confirmation does to the rows.
LEMMA ConfirmRows ==
    ASSUME LedgerInv, BookInv, NEW s \in Pending, NEW nav \in UsablePrices(s), ConfirmWrites(s, nav),
           LedgerInv'
    PROVE  /\ DOMAIN subs' = DOMAIN subs /\ s \in DOMAIN subs
           /\ \A r \in DOMAIN subs \ {s} : subs'[r] = subs[r]
           /\ subs'[s].status = "confirmed" /\ subs'[s].confirm = subs[s].confirm
           /\ subs'[s].apply = subs[s].apply
           /\ RowTable(subs') /\ Valued(subs', SnapDays)
<1>1. s \in DOMAIN subs /\ subs[s] \in Subscription
  BY Facts DEF Pending
<1>2. LET row == ConfirmedRow(s, nav)
      IN  /\ row.status = "confirmed" /\ row.apply = subs[s].apply
          /\ row.confirm = subs[s].confirm /\ row.nav = nav /\ ValuedRow(row)
  BY <1>1 DEF ConfirmedRow, Subscription, ValuedRow
<1>3. /\ DOMAIN subs' = DOMAIN subs /\ subs'[s] = ConfirmedRow(s, nav)
      /\ \A r \in DOMAIN subs \ {s} : subs'[r] = subs[r]
  BY <1>1 DEF ConfirmWrites
<1>4. subs[s].apply \notin SnapDays => nav = Par
  BY DEF UsablePrices, PriceChoices
<1>5. Valued(subs, SnapDays) /\ IsFiniteSet(DOMAIN subs)
  BY DEF BookInv, BookOK, SnapDays
<1>6. Valued(subs', SnapDays)
  BY <1>1, <1>2, <1>3, <1>4, <1>5 DEF Valued
<1>7. RowTable(subs')
  BY <1>3, <1>5 DEF RowTable, LedgerInv, TypeOK, IsDatabase, DB, IsTable
<1> QED BY <1>1, <1>2, <1>3, <1>6, <1>7

\* What taking confirmations back does to the rows.
LEMMA UnconfirmRows ==
    ASSUME LedgerInv, BookInv, NEW S, UnconfirmWrites(S), LedgerInv'
    PROVE  /\ DOMAIN subs' = DOMAIN subs
           /\ \A r \in DOMAIN subs \ S : subs'[r] = subs[r]
           /\ \A r \in S : r \in DOMAIN subs => subs'[r].status = "pending"
           /\ RowTable(subs')
           /\ Valued(subs', SnapDays)
<1>1. \A row \in Subscription : PendingRow(row).status = "pending"
  BY DEF PendingRow, Subscription
<1>2. /\ DOMAIN subs' = DOMAIN subs
      /\ \A r \in DOMAIN subs \ S : subs'[r] = subs[r]
      /\ \A r \in S : r \in DOMAIN subs => subs'[r].status = "pending"
  BY <1>1, Facts DEF UnconfirmWrites
<1>3. Valued(subs, SnapDays) /\ IsFiniteSet(DOMAIN subs)
  BY DEF BookInv, BookOK, SnapDays
<1>4. Valued(subs', SnapDays)
  BY <1>2, <1>3 DEF Valued
<1>5. RowTable(subs')
  BY <1>2, <1>3 DEF RowTable, LedgerInv, TypeOK, IsDatabase, DB, IsTable
<1> QED BY <1>2, <1>4, <1>5

LEMMA RequestBook ==
    ASSUME LedgerInv, ChainInv, BookInv, LedgerInv', Request
    PROVE  BookInv'
<1>0. /\ IsFiniteSet(DOMAIN subs) /\ RowTable(subs)
      /\ \A s \in DOMAIN subs : subs[s] \in Subscription
  BY BookFacts DEF RowTable
<1>1. ASSUME NEW s \in SubIds, NEW row, s \notin DOMAIN subs, row.status = "pending", Idle,
             subs' = Put(subs, s, row), UNCHANGED <<snap, tx>>
      PROVE  BookInv'
  <2>1. DOMAIN subs' = DOMAIN subs \cup {s} /\ subs'[s] = row
        /\ \A r \in DOMAIN subs : subs'[r] = subs[r]
    BY <1>1 DEF Put
  <2>2. IsFiniteSet(DOMAIN subs')
    BY <1>0, <2>1, FS_AddElement
  <2>3. Confirmed' = Confirmed /\ \A r \in Confirmed : subs'[r] = subs[r]
    BY <1>1, <2>1 DEF Confirmed
  <2> QED BY <1>1, <2>2, <2>3, QuietBook
<1>2. ASSUME NEW s \in Pending, DOMAIN subs' = DOMAIN subs, subs'[s].status # "confirmed",
             \A r \in DOMAIN subs \ {s} : subs'[r] = subs[r], UNCHANGED <<snap, tx>>, Idle
      PROVE  BookInv'
  <2>1. Confirmed' = Confirmed /\ \A r \in Confirmed : subs'[r] = subs[r]
    BY <1>2 DEF Confirmed, Pending
  <2> QED BY <1>0, <1>2, <2>1, QuietBook
<1>3. ASSUME NEW s \in SubIds, NEW i \in Investors, NEW d \in TradingDays,
             (\E a \in Amounts : CreateSubscribe(s, i, d, a))
             \/ (\E q \in ShareCounts : CreateRedeem(s, i, d, q))
      PROVE  BookInv'
  <2>1. \A type, c, amount, shares : NewSub(type, i, d, c, amount, shares).status = "pending"
    BY DEF NewSub
  <2>2. /\ \E row : row.status = "pending" /\ subs' = Put(subs, s, row)
        /\ s \notin DOMAIN subs /\ Idle /\ UNCHANGED <<snap, tx>>
    BY <1>3, <2>1 DEF CreateSubscribe, CreateRedeem
  <2> QED BY <1>1, <2>2
<1>4. ASSUME NEW s \in SubIds, NEW d \in TradingDays, UpdateApplyDate(s, d)
      PROVE  BookInv'
  <2>1. PICK c \in TradingDays : subs' = [subs EXCEPT ![s].apply = d, ![s].confirm = c]
    BY <1>4 DEF UpdateApplyDate
  <2>2. /\ s \in Pending /\ s \in DOMAIN subs /\ subs[s].status = "pending" /\ Idle
        /\ UNCHANGED <<snap, tx>>
    BY <1>4 DEF UpdateApplyDate, Pending
  <2>3. DOMAIN subs' = DOMAIN subs /\ subs'[s].status = "pending"
        /\ \A r \in DOMAIN subs \ {s} : subs'[r] = subs[r]
    BY <1>0, <2>1, <2>2 DEF Subscription
  <2> QED BY <1>2, <2>2, <2>3
<1>5. ASSUME NEW s \in SubIds, NEW n \in Amounts \cup ShareCounts, UpdateQuantity(s, n)
      PROVE  BookInv'
  <2>1. subs' = [subs EXCEPT ![s].amount = n] \/ subs' = [subs EXCEPT ![s].shares = n]
    BY <1>5 DEF UpdateQuantity
  <2>2. /\ s \in Pending /\ s \in DOMAIN subs /\ subs[s].status = "pending" /\ Idle
        /\ UNCHANGED <<snap, tx>>
    BY <1>5 DEF UpdateQuantity, Pending
  <2>3. DOMAIN subs' = DOMAIN subs /\ subs'[s].status = "pending"
        /\ \A r \in DOMAIN subs \ {s} : subs'[r] = subs[r]
    BY <1>0, <2>1, <2>2 DEF Subscription
  <2> QED BY <1>2, <2>2, <2>3
<1>6. ASSUME NEW s \in SubIds, CancelSubscription(s)
      PROVE  BookInv'
  <2>1. /\ s \in Pending /\ s \in DOMAIN subs /\ Idle /\ UNCHANGED <<snap, tx>>
        /\ subs' = [subs EXCEPT ![s].status = "cancelled"]
    BY <1>6 DEF CancelSubscription, Pending
  <2>2. DOMAIN subs' = DOMAIN subs /\ subs'[s].status = "cancelled"
        /\ \A r \in DOMAIN subs \ {s} : subs'[r] = subs[r]
    BY <1>0, <2>1 DEF Subscription
  <2> QED BY <1>2, <2>1, <2>2
<1>7. ASSUME NEW s \in SubIds, DeleteSubscription(s)
      PROVE  BookInv'
  <2>1. /\ s \in DOMAIN subs \ Confirmed /\ Idle /\ UNCHANGED <<snap, tx>>
        /\ subs' = Drop(subs, {s})
    BY <1>7 DEF DeleteSubscription
  <2>2. DOMAIN subs' = DOMAIN subs \ {s} /\ \A r \in DOMAIN subs \ {s} : subs'[r] = subs[r]
    BY <2>1 DEF Drop
  <2>3. IsFiniteSet(DOMAIN subs')
    BY <1>0, <2>2, FS_Subset
  <2>4. Confirmed' = Confirmed /\ \A r \in Confirmed : subs'[r] = subs[r]
    BY <2>1, <2>2 DEF Confirmed
  <2> QED BY <2>1, <2>3, <2>4, QuietBook
<1>8. ASSUME NEW s \in SubIds, ConfirmSubscription(s)
      PROVE  BookInv'
  <2>1. PICK nav \in UsablePrices(s) : ConfirmWrites(s, nav)
    BY <1>8 DEF ConfirmSubscription
  <2>2. s \in Pending /\ Idle /\ UNCHANGED <<snap, tx>>
    BY <1>8 DEF ConfirmSubscription
  <2>3. /\ DOMAIN subs' = DOMAIN subs /\ s \in DOMAIN subs
        /\ \A r \in DOMAIN subs \ {s} : subs'[r] = subs[r]
        /\ subs'[s].confirm = subs[s].confirm
        /\ RowTable(subs') /\ Valued(subs', SnapDays)
    BY <2>1, <2>2, ConfirmRows
  <2>4. \A d \in SnapDays : d < subs[s].confirm
    BY <2>2, <2>3, IdleKnows, Facts DEF Ahead, Pending
  <2>5. Moves(subs, subs', SnapDays, LastDay + 1)
    BY <2>3, <2>4 DEF Moves
  <2> QED BY <2>2, <2>3, <2>5, IdleBook DEF RowTable, Idle
<1>9. ASSUME NEW s \in SubIds, UnconfirmSubscription(s)
      PROVE  BookInv'
  <2>1. /\ s \in Confirmed /\ Idle /\ UNCHANGED <<snap, tx>> /\ UnconfirmWrites({s})
        /\ \A d \in SnapDays : d < subs[s].confirm
    BY <1>9 DEF UnconfirmSubscription
  <2>2. /\ DOMAIN subs' = DOMAIN subs
        /\ \A r \in DOMAIN subs \ {s} : subs'[r] = subs[r]
        /\ \A r \in {s} : r \in DOMAIN subs => subs'[r].status = "pending"
        /\ RowTable(subs')
        /\ Valued(subs', SnapDays)
    BY <2>1, UnconfirmRows
  <2>3. Moves(subs, subs', SnapDays, LastDay + 1)
    BY <2>1, <2>2 DEF Moves
  <2> QED BY <2>1, <2>2, <2>3, IdleBook DEF RowTable, Idle
<1> QED BY <1>3, <1>4, <1>5, <1>6, <1>7, <1>8, <1>9 DEF Request

-----------------------------------------------------------------------------
(* Clearing a day                                                          *)

LEMMA ClearBook ==
    ASSUME LedgerInv, BookInv, LedgerInv', NEW d \in Days, ClearDay(d),
           \A s \in DOMAIN subs : subs[s].apply < subs[s].confirm,
           NEW n, \A e \in SnapDays : e < n /\ e # d => e < d /\ Fits(subs, snap, e) /\ Opened(subs, SnapDays, e)
    PROVE  /\ SnapDays' = SnapDays \ {d}
           /\ \A e \in SnapDays' : e < n => Fits(subs', snap', e) /\ Opened(subs', SnapDays', e)
           /\ Valued(subs', SnapDays') /\ IsFiniteSet(DOMAIN subs')
           /\ \A s \in DOMAIN subs' : s \in DOMAIN subs /\ subs'[s].confirm = subs[s].confirm
           /\ \A s \in DOMAIN subs' : subs'[s].status = "confirmed" =>
                 s \in DOMAIN subs /\ subs'[s] = subs[s]
<1>0. /\ RowTable(subs) /\ SnapDays \subseteq Nat /\ d \in Nat
  BY BookFacts, Facts
<1>1. /\ DOMAIN subs' = DOMAIN subs
      /\ \A r \in DOMAIN subs \ PricedBy(d) : subs'[r] = subs[r]
      /\ \A r \in PricedBy(d) : r \in DOMAIN subs => subs'[r].status = "pending"
      /\ RowTable(subs') /\ Valued(subs', SnapDays)
  BY UnconfirmRows DEF ClearDay
<1>2. SnapDays' = SnapDays \ {d} /\ \A e \in SnapDays' : snap'[e] = snap[e]
  BY DEF ClearDay, Drop, SnapDays
<1>3. \A s \in DOMAIN subs : subs'[s].confirm = subs[s].confirm
  BY ClearedDates
<1>4. Moves(subs, subs', SnapDays, d)
  <2>1. ASSUME NEW s \in PricedBy(d), s \in DOMAIN subs PROVE d < subs[s].confirm
    BY <2>1 DEF PricedBy
  <2> QED BY <1>0, <1>1, <2>1, RowFacts DEF Moves
<1>5. Valued(subs', SnapDays')
  <2>1. \A s \in DOMAIN subs' : subs'[s].status = "confirmed" => subs'[s].apply # d
    BY <1>1 DEF PricedBy, Confirmed
  <2> QED BY <1>1, <1>2, <2>1 DEF Valued
<1>6. ASSUME NEW e \in SnapDays', e < n
      PROVE  Fits(subs', snap', e) /\ Opened(subs', SnapDays', e)
  <2>1. e \in SnapDays /\ e < d /\ Fits(subs, snap, e) /\ Opened(subs, SnapDays, e)
    BY <1>2, <1>6
  <2>2. Fits(subs', snap, e) /\ Opened(subs', SnapDays, e)
    BY <1>0, <1>1, <1>4, <2>1, MovesKeep DEF SnapDays
  <2>3. /\ DOMAIN snap' \subseteq Nat /\ e \in DOMAIN snap \cap DOMAIN snap' /\ snap'[e] = snap[e]
        /\ \A f \in Nat : f <= e => (f \in DOMAIN snap' <=> f \in DOMAIN snap)
    BY <1>0, <1>2, <2>1 DEF SnapDays
  <2> QED BY <1>0, <2>2, <2>3, LaterDays DEF SnapDays
<1> QED BY <1>1, <1>2, <1>3, <1>5, <1>6 DEF RowTable

-----------------------------------------------------------------------------
(* Snapshot requests                                                       *)

LEMMA IdleBooked ==
    ASSUME LedgerInv, BookInv, Idle
    PROVE  /\ \A d \in SnapDays : Fits(subs, snap, d) /\ Opened(subs, SnapDays, d)
           /\ BookOK(subs, snap, NoTx) /\ IsFiniteSet(DOMAIN subs) /\ Valued(subs, SnapDays)
<1>1. \A d \in SnapDays : d < LastDay + 1
  BY BookFacts
<1> QED BY <1>1 DEF BookInv, BookOK, Idle, NoTx, Known, SnapDays

LEMMA BeginBook ==
    ASSUME LedgerInv, BookInv, NEW phase, NEW kind, NEW day, NEW end, NEW todo,
           Begin(phase, kind, day, end, todo),
           LET x == [phase |-> phase, kind |-> kind, day |-> day, end |-> end, todo |-> todo]
           IN  BookOK(subs, snap, x)
    PROVE  BookInv'
<1>1. Idle /\ saved'.subs = subs /\ saved'.snap = snap /\ UNCHANGED <<subs, snap>>
  BY DEF Begin, dbvars, DB
<1>2. BookOK(subs', snap', tx')
  BY <1>1 DEF Begin
<1> QED BY <1>1, <1>2, IdleBooked DEF BookInv

LEMMA SnapshotRequestBook ==
    ASSUME LedgerInv, ChainInv, BookInv, LedgerInv', SnapshotRequest, Disciplined
    PROVE  BookInv'
<1>0. SnapDays \subseteq Nat
  BY BookFacts
<1>1. ASSUME NEW d \in TradingDays, NEW kind \in {"generate", "advance"},
             Begin("checks", kind, d, d, {})
      PROVE  BookInv'
  <2>1. Idle
    BY <1>1 DEF Begin
  <2>2. BookOK(subs, snap, [phase |-> "checks", kind |-> kind, day |-> d, end |-> d, todo |-> {}])
    BY <1>1, <2>1, IdleBooked DEF BookOK, SnapDays
  <2> QED BY <1>1, <2>2, BeginBook
<1>3. ASSUME NEW a \in Days, NEW b \in Days, BeginRecalculate(a, b)
      PROVE  BookInv'
  <2>1. PICK last \in SnapDays \cup {b} : Begin("precheck", "recalc", a, last, {})
    BY <1>3 DEF BeginRecalculate
  <2>2. Idle /\ a \in Nat
    BY <2>1, Facts DEF Begin
  <2>3. Opened(subs, SnapDays, a)
    <3>1. CASE a \in SnapDays
      BY <2>2, <3>1, IdleBooked
    <3>2. CASE \E l \in SnapDays : IsLatest(l) /\ IsNextTradingDay(l, a)
      <4>1. PICK l \in SnapDays : l < a
        BY <1>0, <2>2, <3>2 DEF IsNextTradingDay, IsLatest
      <4> QED BY <1>0, <2>2, <4>1 DEF Opened
    <3>3. CASE SnapDays = {} /\ \A s \in Confirmed : a <= subs[s].confirm
      BY <3>3 DEF Opened, Confirmed
    <3> QED BY <1>3, <3>1, <3>2, <3>3 DEF BeginRecalculate, RecalcStart, Disciplined
  <2>4. BookOK(subs, snap, [phase |-> "precheck", kind |-> "recalc", day |-> a, end |-> last,
                            todo |-> {}])
    BY <2>2, <2>3, IdleBooked DEF BookOK, SnapDays, Reached
  <2> QED BY <2>1, <2>4, BeginBook
<1>4. CASE BeginConfirmOnly
  <2>1. PICK l \in SnapDays : IsLatest(l) /\ Begin("after", "confirm", l, l, DueAfter(l))
    BY <1>4 DEF BeginConfirmOnly
  <2>2. Idle /\ l \in Nat
    BY <1>0, <2>1 DEF Begin
  <2>3. Opened(subs, SnapDays, l + 1)
    BY <2>2 DEF Opened
  <2>4. \A s \in DOMAIN subs : subs[s].status = "pending" => l < subs[s].confirm
    BY <2>2, IdleKnows, Facts DEF Ahead
  <2>5. BookOK(subs, snap, [phase |-> "after", kind |-> "confirm", day |-> l, end |-> l,
                            todo |-> DueAfter(l)])
    BY <2>2, <2>3, <2>4, IdleBooked DEF BookOK, SnapDays, Reached
  <2> QED BY <2>1, <2>5, BeginBook
<1>5. ASSUME NEW d \in TradingDays, DeleteSnapshot(d)
      PROVE  BookInv'
  <2>1. Idle /\ Idle' /\ IsLatest(d) /\ ClearDay(d) /\ d \in Days
    BY <1>5, Facts DEF DeleteSnapshot, Disciplined, Idle
  <2>2. \A e \in SnapDays : e < LastDay + 1 /\ e # d =>
            e < d /\ Fits(subs, snap, e) /\ Opened(subs, SnapDays, e)
    BY <1>0, <2>1, IdleBooked, Facts DEF IsLatest
  <2>3. \A s \in DOMAIN subs : subs[s].apply < subs[s].confirm
    BY <2>1, IdleKnows DEF Ahead
  <2>4. /\ SnapDays' = SnapDays \ {d}
        /\ \A e \in SnapDays' : e < LastDay + 1 =>
              Fits(subs', snap', e) /\ Opened(subs', SnapDays', e)
        /\ Valued(subs', SnapDays') /\ IsFiniteSet(DOMAIN subs')
    BY <2>1, <2>2, <2>3, ClearBook
  <2>5. BookOK(subs', snap', NoTx)
    BY <2>4 DEF BookOK, NoTx, SnapDays, Known
  <2> QED BY <2>1, <2>5 DEF BookInv, Idle
<1> QED BY <1>1, <1>3, <1>4, <1>5 DEF SnapshotRequest, BeginGenerate, BeginAdvance

-----------------------------------------------------------------------------
(* Steps of a transaction                                                  *)

LEMMA InsideBook ==
    ASSUME BookInv, ~Idle, UNCHANGED saved, BookOK(subs', snap', tx')
    PROVE  BookInv'
BY DEF BookInv

LEMMA CommitBook ==
    ASSUME LedgerInv, ChainInv, BookInv, Commit
    PROVE  BookInv'
<1>1. Idle' /\ subs' = subs /\ snap' = snap
  BY DEF Commit, dbvars, Idle
<1>2. /\ Within(SnapDays, tx.end)
      /\ tx.day <= tx.end /\ (tx.kind # "recalc" => tx.day = tx.end)
  BY DEF Commit, DaysDone, ChainInv, ChainOK
<1>3. \A d \in SnapDays : d < Reached(tx)
  BY <1>2, Facts DEF Commit, DaysDone, ChainInv, ChainOK, Reached, Within
<1>4. \A d \in SnapDays : d < Known(tx)
  BY <1>3, Facts DEF Known
<1>5. BookOK(subs, snap, NoTx)
  BY <1>4 DEF BookInv, BookOK, NoTx, SnapDays
<1> QED BY <1>1, <1>5 DEF BookInv, Idle

LEMMA RollbackBook ==
    ASSUME BookInv, Rollback
    PROVE  BookInv'
<1>1. Idle' /\ subs' = saved.subs /\ snap' = saved.snap /\ ~Idle
  BY DEF Rollback, Idle
<1> QED BY <1>1 DEF BookInv, Idle

LEMMA AutoConfirmBook ==
    ASSUME LedgerInv, ChainInv, BookInv, LedgerInv', NEW s \in SubIds,
           AutoConfirm(s) \/ AutoConfirmRefused(s)
    PROVE  BookInv'
<1>0. RowTable(subs) /\ SnapDays \subseteq Nat /\ SnapDays \subseteq Days
  BY BookFacts
<1>1. /\ tx.phase \in {"before", "after"} /\ Goto(tx.phase, tx.todo \ {s}) /\ s \in tx.todo
      /\ snap' = snap /\ s \in Pending /\ ~Idle
  BY PhaseIsNotIdle DEF AutoConfirm, AutoConfirmRefused, NextDue, LedgerInv, TxProgress, dbvars
<1>2. /\ tx'.phase = tx.phase /\ tx'.kind = tx.kind /\ tx'.day = tx.day /\ UNCHANGED saved
      /\ tx'.todo = tx.todo \ {s}
  BY <1>1, GotoFields DEF Goto, LedgerInv, TypeOK
<1>3. Known(tx') = Known(tx) /\ Reached(tx') = Reached(tx)
  BY <1>2 DEF Known, Reached
<1>4. CASE AutoConfirmRefused(s)
  <2>1. subs' = subs
    BY <1>4 DEF AutoConfirmRefused, dbvars
  <2>2. BookOK(subs', snap', tx')
    BY <1>1, <1>2, <1>3, <2>1 DEF BookInv, BookOK
  <2> QED BY <1>1, <1>2, <2>2, InsideBook
<1>5. CASE AutoConfirm(s)
  <2>1. PICK nav \in UsablePrices(s) : ConfirmWrites(s, nav)
    BY <1>5 DEF AutoConfirm
  <2>2. /\ DOMAIN subs' = DOMAIN subs /\ s \in DOMAIN subs
        /\ \A r \in DOMAIN subs \ {s} : subs'[r] = subs[r]
        /\ subs'[s].status = "confirmed" /\ subs'[s].confirm = subs[s].confirm
        /\ RowTable(subs') /\ Valued(subs', SnapDays)
    BY <1>1, <2>1, ConfirmRows
  <2>3. \A d \in SnapDays : d < Known(tx) => d < subs[s].confirm
    BY <1>1, <2>2 DEF ChainInv, ChainOK, Ahead, Pending
  <2>4. Moves(subs, subs', SnapDays, Known(tx))
    BY <2>2, <2>3 DEF Moves
  <2>5. \A d \in SnapDays : d < Known(tx) => Fits(subs', snap, d) /\ Opened(subs', SnapDays, d)
    <3>1. \A d \in SnapDays : d < Known(tx) => Fits(subs, snap, d) /\ Opened(subs, SnapDays, d)
      BY DEF BookInv, BookOK, SnapDays
    <3> QED BY <1>0, <2>2, <2>4, <3>1, MovesKeep DEF SnapDays
  <2>6. Opened(subs', SnapDays, Reached(tx))
    <3>1. Opened(subs, SnapDays, Reached(tx))
      BY <1>1 DEF BookInv, BookOK, SnapDays
    <3>2. (\A d \in SnapDays : Reached(tx) <= d) => Reached(tx) <= subs[s].confirm
      <4>1. subs[s].confirm \in Nat /\ tx.day \in Nat
        BY <2>2, Facts
      <4>2. CASE tx.phase = "before"
        <5>1. SnapDays # {} /\ \A d \in SnapDays : d < subs[s].confirm
          BY <1>1, <4>2 DEF BookInv, BookOK, SnapDays
        <5>2. PICK d \in SnapDays : d < subs[s].confirm
          BY <5>1
        <5> QED BY <1>0, <4>1, <4>2, <5>2 DEF Reached
      <4>3. CASE tx.phase = "after"
        <5>1. tx.day < subs[s].confirm
          BY <1>1, <2>2, <4>3 DEF BookInv, BookOK, Pending
        <5> QED BY <4>1, <4>3, <5>1 DEF Reached
      <4> QED BY <1>1, <4>2, <4>3
    <3> QED BY <2>2, <3>1, <3>2 DEF Opened
  <2>7. BookOK(subs', snap, tx')
    <3>1. tx'.phase = "before" =>
             \A r \in tx'.todo : DOMAIN snap # {} /\ \A d \in DOMAIN snap : d < subs'[r].confirm
      <4>1. tx.todo \subseteq DOMAIN subs
        BY DEF LedgerInv, TxProgress, Pending
      <4> QED BY <1>2, <2>2, <4>1 DEF BookInv, BookOK
    <3>2. tx'.phase \in {"build", "after", "commit"} =>
             \A r \in DOMAIN subs' : subs'[r].status = "pending" => tx'.day < subs'[r].confirm
      BY <1>2, <2>2 DEF BookInv, BookOK
    <3> QED BY <1>3, <2>2, <2>5, <2>6, <3>1, <3>2 DEF BookOK, SnapDays, RowTable
  <2> QED BY <1>1, <1>2, <2>7, InsideBook
<1> QED BY <1>4, <1>5

LEMMA ClearDayBook ==
    ASSUME LedgerInv, ChainInv, BookInv, LedgerInv', RecalcClearDay \/ ValidateAndClear
    PROVE  BookInv'
<1>0. SnapDays \subseteq Nat /\ tx.day \in Nat
  BY BookFacts, Facts
<1>1. /\ ~Idle /\ ClearDay(tx.day) /\ NoPendingDue(tx.day) /\ tx.phase \in {"precheck", "before"}
      /\ tx.day \in TradingDays /\ tx.day \in Days
  BY PhaseIsNotIdle, Facts DEF RecalcClearDay, ValidateAndClear, LedgerInv, TxProgress
<1>2. /\ tx'.phase = IF tx.phase = "precheck" THEN "checks" ELSE "build"
      /\ tx'.kind = tx.kind /\ tx'.day = tx.day /\ tx'.end = tx.end /\ UNCHANGED saved
  BY GotoFields DEF RecalcClearDay, ValidateAndClear
<1>3. /\ Ahead(subs, SnapDays, Known(tx)) /\ Within(SnapDays, tx.end)
      /\ tx.kind # "recalc" => tx.day = tx.end
      /\ tx.phase = "precheck" => tx.kind = "recalc"
  BY <1>1 DEF ChainInv, ChainOK, Reached
<1>4. /\ Known(tx) = IF tx.kind = "recalc" THEN tx.day ELSE LastDay + 1
      /\ Reached(tx) = tx.day /\ Reached(tx') = tx.day /\ Known(tx') = Known(tx)
  BY <1>1, <1>2 DEF Known, Reached
<1>5. \A e \in SnapDays : e < Known(tx) /\ e # tx.day =>
          e < tx.day /\ Fits(subs, snap, e) /\ Opened(subs, SnapDays, e)
  BY <1>0, <1>3, <1>4 DEF BookInv, BookOK, Within, SnapDays
<1>6. \A s \in DOMAIN subs : subs[s].apply < subs[s].confirm
  BY <1>3 DEF Ahead
<1>7. /\ SnapDays' = SnapDays \ {tx.day}
      /\ \A e \in SnapDays' : e < Known(tx) => Fits(subs', snap', e) /\ Opened(subs', SnapDays', e)
      /\ Valued(subs', SnapDays') /\ IsFiniteSet(DOMAIN subs')
      /\ \A s \in DOMAIN subs' : s \in DOMAIN subs /\ subs'[s].confirm = subs[s].confirm
      /\ \A s \in DOMAIN subs' : subs'[s].status = "confirmed" =>
                s \in DOMAIN subs /\ subs'[s] = subs[s]
  BY <1>1, <1>5, <1>6, ClearBook
<1>8. Opened(subs', SnapDays', tx.day)
  <2>1. Opened(subs, SnapDays, tx.day)
    BY <1>1, <1>3, <1>4 DEF BookInv, BookOK, SnapDays
  <2>2. (\A d \in SnapDays' : tx.day <= d) => (\A d \in SnapDays : tx.day <= d)
    BY <1>0, <1>7
  <2> QED BY <1>7, <2>1, <2>2 DEF Opened
<1>9. \A s \in DOMAIN subs' : subs'[s].status = "pending" => tx.day < subs'[s].confirm
  <2>1. \A s \in DOMAIN subs : subs[s].status = "pending" => tx.day < subs[s].confirm
    BY <1>1 DEF NoPendingDue, Pending
  <2>2. \A s \in DOMAIN subs' : subs'[s].status = "pending" =>
            subs[s].status = "pending" \/ subs[s].apply = tx.day
    BY <1>1, ClearedDates
  <2> QED BY <1>6, <1>7, <2>1, <2>2
<1>10. BookOK(subs', snap', tx')
  BY <1>1, <1>2, <1>4, <1>7, <1>8, <1>9 DEF BookOK, SnapDays
<1> QED BY <1>1, <1>2, <1>10, InsideBook

\* The steps that move on in the calendar or check a day.
LEMMA MoveOnBook ==
    ASSUME LedgerInv, ChainInv, BookInv, RecalcSkipDay \/ RecalcNextDay
    PROVE  BookInv'
<1>0. RowTable(subs) /\ SnapDays \subseteq Nat /\ tx.day \in Nat
  BY BookFacts, Facts
<1>1. /\ ~Idle /\ UNCHANGED saved /\ subs' = subs /\ snap' = snap
      /\ tx.phase \in {"precheck", "after"}
      /\ tx.phase = "precheck" => tx.day \notin TradingDays
  BY PhaseIsNotIdle DEF RecalcSkipDay, RecalcNextDay, dbvars
<1>2. /\ tx'.phase = "precheck" /\ tx'.kind = tx.kind /\ tx'.day = tx.day + 1
      /\ tx.kind = "recalc"
  BY DEF RecalcSkipDay, RecalcNextDay, LedgerInv, TypeOK, ChainInv, ChainOK
<1>3. /\ Known(tx') = tx.day + 1 /\ Reached(tx') = tx.day + 1
      /\ Known(tx) = IF tx.phase = "after" THEN tx.day + 1 ELSE tx.day
      /\ Reached(tx) = Known(tx)
  BY <1>1, <1>2 DEF Known, Reached
<1>4. \A d \in SnapDays : d < tx.day + 1 => d < Known(tx)
  BY <1>0, <1>1, <1>3, Facts
<1>5. Opened(subs, SnapDays, Known(tx))
  BY <1>2, <1>3 DEF BookInv, BookOK, SnapDays
<1>6. Opened(subs, SnapDays, tx.day + 1)
  <2>1. CASE tx.phase = "after"
    BY <1>3, <1>5, <2>1
  <2>2. CASE tx.phase = "precheck"
    <3>1. \A s \in DOMAIN subs : subs[s].confirm \in Nat /\ subs[s].confirm # tx.day
      BY <1>0, <1>1, <2>2, RowFacts
    <3> QED BY <1>0, <1>3, <1>5, <2>2, <3>1 DEF Opened
  <2> QED BY <1>1, <2>1, <2>2
<1>7. BookOK(subs, snap, tx')
  BY <1>2, <1>3, <1>4, <1>6 DEF BookInv, BookOK, SnapDays
<1> QED BY <1>1, <1>7, InsideBook

LEMMA CheckDayBook ==
    ASSUME LedgerInv, ChainInv, BookInv, CheckDay
    PROVE  BookInv'
<1>0. RowTable(subs) /\ SnapDays \subseteq Nat /\ SnapDays \in SUBSET Days /\ tx.day \in Nat
  BY BookFacts, Facts
<1>1. /\ ~Idle /\ tx.phase = "checks" /\ subs' = subs /\ snap' = snap
      /\ tx'.phase = "before" /\ tx'.kind = tx.kind /\ tx'.day = tx.day
      /\ UNCHANGED saved /\ tx'.todo = DueBefore(tx.day)
  BY PhaseIsNotIdle, GotoFields DEF CheckDay, dbvars, Goto, LedgerInv, TypeOK
<1>2. Known(tx') = Known(tx) /\ Reached(tx') = tx.day /\ Reached(tx) = tx.day
  BY <1>1 DEF Known, Reached
<1>3. Opened(subs, SnapDays, tx.day)
  <2>1. CASE tx.kind = "recalc"
    BY <1>2, <2>1 DEF BookInv, BookOK, SnapDays
  <2>2. CASE tx.kind # "recalc" /\ SnapDays = {}
    BY <2>2 DEF CheckDay, NoHistoryGap, Opened, Confirmed
  <2>3. CASE tx.kind # "recalc" /\ SnapDays # {}
    <3>1. PICK l \in SnapDays : \A e \in SnapDays : e <= l
      BY <1>0, <2>3, LastOf
    <3>2. tx.day = l \/ l < tx.day
      BY <1>0, <2>3, <3>1 DEF CheckDay, Continuous, IsLatest, IsNextTradingDay
    <3>3. CASE l < tx.day
      BY <1>0, <3>1, <3>3 DEF Opened
    <3>4. CASE tx.day = l
      <4>1. l < Known(tx)
        BY <2>3, Facts DEF Known
      <4> QED BY <3>1, <3>4, <4>1 DEF BookInv, BookOK, SnapDays
    <3> QED BY <3>2, <3>3, <3>4
  <2> QED BY <2>1, <2>2, <2>3
<1>4. \A s \in DueBefore(tx.day) : SnapDays # {} /\ \A d \in SnapDays : d < subs[s].confirm
  BY DEF DueBefore, AfterLatestSnapshot
<1>5. BookOK(subs, snap, tx')
  BY <1>1, <1>2, <1>3, <1>4 DEF BookInv, BookOK, SnapDays
<1> QED BY <1>1, <1>5, InsideBook

-----------------------------------------------------------------------------
(* Building a day                                                          *)

\* At 1.0000 shares and amount are the same number.
LEMMA RoundedAtPar ==
    ASSUME NEW a \in Int, NEW n \in Nat \ {0}
    PROVE  RoundHalfUp(a * n, n) = a
<1>1. 2 * (a * n) + n = a * (2 * n) + n
  OBVIOUS
<1>2. (2 * (a * n) + n) \div (2 * n) = a
  OBVIOUS
<1> QED BY <1>2 DEF RoundHalfUp

LEMMA ParRow ==
    ASSUME NEW row \in Subscription, ValuedRow(row), row.nav = Par
    PROVE  SharesIn(row) = CashIn(row)
<1>1. row.amount \in Int /\ row.shares \in Int /\ Scale \in Nat \ {0}
  BY QuantityAssumption DEF Subscription
<1> QED BY <1>1, RoundedAtPar DEF ValuedRow, SharesOf, AmountOf, Par, SharesIn, CashIn

\* A leg is worth what its row is, and the sums of the model are sums of maps.
LEMMA LegWorth ==
    ASSUME LedgerInv, BookInv
    PROVE  /\ DOMAIN legs = Confirmed
           /\ \A s \in Confirmed :
                 /\ s \in DOMAIN subs /\ legs[s].confirm = subs[s].confirm
                 /\ SignedCash(s) = CashIn(subs[s]) /\ SignedShares(s) = SharesIn(subs[s])
<1>1. LegsPaired(subs, legs) /\ Confirmed = ConfirmedIn(subs)
  BY BookFacts
<1>2. \A s \in Confirmed : s \in DOMAIN subs /\ subs[s] \in Subscription
  BY Facts DEF Confirmed
<1> QED
  BY <1>1, <1>2 DEF LegsPaired, LegOf, SignedCash, SignedShares, CashIn, SharesIn, Subscription

LEMMA SumsOfMaps ==
    ASSUME LedgerInv, BookInv, NEW S \in SUBSET Confirmed
    PROVE  /\ Sum(SignedCash, S) = SumFunctionOnSet(CashMap(subs), S)
           /\ Sum(SignedShares, S) = SumFunctionOnSet(SharesMap(subs), S)
<1>1. IsFiniteSet(S) /\ S \subseteq DOMAIN subs /\ RowTable(subs)
  BY BookFacts, FS_Subset DEF Confirmed, RowTable
<1>2. /\ \A s \in S : [x \in S |-> SignedCash(x)][s] = CashMap(subs)[s]
      /\ \A s \in S : [x \in S |-> SignedShares(x)][s] = SharesMap(subs)[s]
  BY <1>1, LegWorth, RowFacts
<1>3. SumFunctionOnSet([x \in S |-> SignedCash(x)], S) = SumFunctionOnSet(CashMap(subs), S)
  BY <1>1, <1>2, SumAgree
<1>4. SumFunctionOnSet([x \in S |-> SignedShares(x)], S) = SumFunctionOnSet(SharesMap(subs), S)
  BY <1>1, <1>2, SumAgree
<1> QED BY <1>3, <1>4 DEF Sum

\* The last of one day.
LEMMA OneDay ==
    ASSUME NEW d \in Nat
    PROVE  Max({d}) = d
BY DEF Max

LEMMA BeforeIsLast ==
    ASSUME LedgerInv, BookInv, NEW d \in Nat, NEW p \in Before(d)
    PROVE  /\ p \in SnapDays /\ p < d /\ p \in Nat /\ \A e \in SnapDays : e < d => e <= p
           /\ Before(d) = {p} /\ Max(Before(d)) = p
<1>1. p \in SnapDays /\ p < d /\ p \in Nat /\ \A e \in SnapDays : e < d => e <= p
  BY BookFacts DEF Before
<1>2. ASSUME NEW q \in Before(d) PROVE q = p
  <2>1. q \in SnapDays /\ q < d /\ q \in Nat /\ p <= q
    BY <1>1, <1>2, BookFacts DEF Before
  <2> QED BY <1>1, <2>1
<1>3. Before(d) = {p}
  BY <1>2
<1> QED BY <1>1, <1>3, OneDay

\* What a step of a transaction that builds a day knows.
LEMMA BuildKnows ==
    ASSUME LedgerInv, ChainInv, BookInv, tx.phase = "build"
    PROVE  /\ tx.day \in Nat /\ tx.day \in TradingDays /\ tx.day \notin SnapDays /\ ~Idle
           /\ Opened(subs, SnapDays, tx.day) /\ Filled(SnapDays, tx.day)
           /\ Valued(subs, SnapDays)
           /\ \A d \in SnapDays : d < tx.day => Fits(subs, snap, d) /\ Opened(subs, SnapDays, d)
           /\ \A s \in DOMAIN subs : subs[s].apply < subs[s].confirm
<1>1. tx.day \in Nat /\ \A d \in SnapDays : d < tx.day => d < Known(tx)
  BY Facts DEF Known, Reached
<1>2. Filled(SnapDays, tx.day) /\ tx.day \notin SnapDays
      /\ \A s \in DOMAIN subs : subs[s].apply < subs[s].confirm
  BY DEF ChainInv, ChainOK, Reached, Ahead
<1> QED BY <1>1, <1>2, PhaseIsNotIdle DEF LedgerInv, TxProgress, BookInv, BookOK, SnapDays, Reached

LEMMA FirstFits ==
    ASSUME LedgerInv, ChainInv, BookInv, tx.phase = "build", Before(tx.day) = {},
           NEW table, table = Put(snap, tx.day, FirstRow(tx.day))
    PROVE  Fits(subs, table, tx.day)
<1> DEFINE d == tx.day
           W == LegWindow(d)
<1>0. RowTable(subs) /\ SnapDays \subseteq Nat /\ d \in Nat /\ d \notin SnapDays
      /\ Opened(subs, SnapDays, d) /\ Valued(subs, SnapDays)
  BY BookFacts, BuildKnows
<1>1. \A e \in SnapDays : d < e
  BY <1>0, NothingBefore
<1>2. \A s \in Confirmed : s \in DOMAIN subs /\ d <= subs[s].confirm /\ subs[s].confirm \in Nat
  BY <1>0, <1>1, RowFacts DEF Opened, Confirmed
<1>3. W = Counted(subs, d) /\ W \subseteq Confirmed
  BY <1>0, <1>2, LegWorth DEF LegWindow, InWindow, Counted, Confirmed
<1>4. \A s \in W : SignedCash(s) = SharesIn(subs[s])
  <2> SUFFICES ASSUME NEW s \in W PROVE SignedCash(s) = SharesIn(subs[s])
    OBVIOUS
  <2>1. /\ s \in Confirmed /\ s \in DOMAIN subs /\ subs[s].status = "confirmed"
        /\ subs[s] \in Subscription /\ subs[s].confirm <= d
    BY <1>3, Facts DEF Confirmed, Counted
  <2>2. subs[s].apply \notin SnapDays
    BY <1>0, <1>1, <2>1, BuildKnows, RowFacts
  <2>3. subs[s].nav = Par /\ ValuedRow(subs[s])
    BY <1>0, <2>1, <2>2 DEF Valued
  <2> QED BY <2>1, <2>3, ParRow, LegWorth
<1>5. table[d] = FirstRow(d)
  BY DEF Put
<1>6. \A s \in SubIds :
          table[d].booked[s] = IF s \in Counted(subs, d) THEN SharesIn(subs[s]) ELSE 0
  <2> HIDE DEF W
  <2>1. table[d].booked = [s \in SubIds |-> IF s \in W THEN SignedCash(s) ELSE 0]
    BY <1>5 DEF FirstRow, Snapshot, W
  <2> QED BY <1>3, <1>4, <2>1
<1>7. table[d].cash = SumFunctionOnSet(CashMap(subs), Counted(subs, d))
  <2>1. table[d].cash = CashOn(d)
    BY <1>5 DEF FirstRow, Snapshot
  <2>2. CashOn(d) = 0 + Sum(SignedCash, W)
    BY DEF CashOn
  <2>3. Sum(SignedCash, W) = SumFunctionOnSet(CashMap(subs), Counted(subs, d))
    BY <1>3, SumsOfMaps
  <2>4. SumFunctionOnSet(CashMap(subs), Counted(subs, d)) \in Int
    BY <1>0, NetIsInt
  <2> QED BY <2>1, <2>2, <2>3, <2>4
<1>8. ASSUME NEW i \in Investors, NeverShort(subs, DOMAIN table, i, d)
      PROVE  table[d].held[i] = NetShares(subs, i, d)
  <2> DEFINE own == {s \in SubWindow(HoldersBefore(d), d) : subs[s].investor = i}
  <2>1. HoldersBefore(d) = {}
    <3>1. \A e \in SnapDays : ~ e < d
      BY <1>0, <1>1
    <3> QED BY <3>1 DEF HoldersBefore
  <2>2. own = CountedOf(subs, i, d) /\ own \in SUBSET Confirmed
    BY <1>0, <1>2, <2>1 DEF SubWindow, InWindow, CountedOf, Counted, Confirmed
  <2>3. Sum(SignedShares, own) = NetShares(subs, i, d)
    <3> HIDE DEF own
    <3> QED BY <2>2, SumsOfMaps DEF NetShares
  <2>4. NetShares(subs, i, d) \in Int /\ NetShares(subs, i, d) >= 0
    <3>1. d \in DOMAIN table
      BY DEF Put
    <3> QED BY <1>0, <1>8, <3>1, NetIsInt DEF NeverShort
  <2>5. table[d].held = HeldOn(d)
    BY <1>5 DEF FirstRow, Snapshot
  <2>6. HeldOn(d)[i] = IF 0 + Sum(SignedShares, own) > 0 THEN 0 + Sum(SignedShares, own) ELSE 0
    BY <2>1 DEF HeldOn
  <2> HIDE DEF own
  <2> QED BY <2>3, <2>4, <2>5, <2>6
<1> QED BY <1>6, <1>7, <1>8 DEF Fits

\* What was counted on day d, by what was counted on an earlier day and came since.
LEMMA CountedSince ==
    ASSUME LedgerInv, BookInv, NEW p \in Nat, NEW d \in Nat, p < d
    PROVE  /\ Counted(subs, d) = Counted(subs, p) \cup SubWindow({p}, d)
           /\ Counted(subs, p) \cap SubWindow({p}, d) = {}
           /\ SubWindow({p}, d) \in SUBSET Confirmed
<1>1. \A s \in Confirmed : s \in DOMAIN subs /\ subs[s].confirm \in Nat
  BY BookFacts, RowFacts DEF Confirmed
<1> QED BY <1>1 DEF Counted, SubWindow, InWindow, Confirmed

LEMMA NetSince ==
    ASSUME LedgerInv, BookInv, NEW p \in Nat, NEW d \in Nat, p < d, NEW i,
           NEW own, own = {s \in SubWindow({p}, d) : subs[s].investor = i}
    PROVE  NetShares(subs, i, d) = NetShares(subs, i, p) + Sum(SignedShares, own)
<1>1. RowTable(subs) /\ CountedOf(subs, i, d) = CountedOf(subs, i, p) \cup own
      /\ CountedOf(subs, i, p) \cap own = {} /\ own \in SUBSET Confirmed
  BY BookFacts, CountedSince DEF CountedOf
<1>2. /\ IsFiniteSet(CountedOf(subs, i, p)) /\ IsFiniteSet(own)
      /\ \A s \in CountedOf(subs, i, p) \cup own : SharesMap(subs)[s] \in Int
  <2>1. IsFiniteSet(CountedOf(subs, i, d)) /\ CountedOf(subs, i, d) \subseteq DOMAIN subs
    BY <1>1, CountedFinite
  <2> QED BY <1>1, <2>1, RowFacts, FS_Subset
<1>3. Sum(SignedShares, own) = SumFunctionOnSet(SharesMap(subs), own)
  BY <1>1, SumsOfMaps
<1>4. SumFunctionOnSet(SharesMap(subs), CountedOf(subs, i, p) \cup own)
          = SumFunctionOnSet(SharesMap(subs), CountedOf(subs, i, p))
              + SumFunctionOnSet(SharesMap(subs), own)
  BY <1>1, <1>2, SumUnion
<1> QED BY <1>1, <1>3, <1>4 DEF NetShares

LEMMA CashSince ==
    ASSUME LedgerInv, BookInv, NEW p \in Nat, NEW d \in Nat, p < d
    PROVE  SumFunctionOnSet(CashMap(subs), Counted(subs, d))
               = SumFunctionOnSet(CashMap(subs), Counted(subs, p))
                     + Sum(SignedCash, SubWindow({p}, d))
<1> DEFINE own == SubWindow({p}, d)
<1>1. RowTable(subs) /\ Counted(subs, d) = Counted(subs, p) \cup own
      /\ Counted(subs, p) \cap own = {} /\ own \in SUBSET Confirmed
  BY BookFacts, CountedSince
<1> HIDE DEF own
<1>2. /\ IsFiniteSet(Counted(subs, p)) /\ IsFiniteSet(own)
      /\ \A s \in Counted(subs, p) \cup own : CashMap(subs)[s] \in Int
  <2>1. IsFiniteSet(Counted(subs, d)) /\ Counted(subs, d) \subseteq DOMAIN subs
    BY <1>1, CountedFinite
  <2> QED BY <1>1, <2>1, RowFacts, FS_Subset
<1>3. Sum(SignedCash, own) = SumFunctionOnSet(CashMap(subs), own)
  BY <1>1, SumsOfMaps
<1>4. SumFunctionOnSet(CashMap(subs), Counted(subs, p) \cup own)
          = SumFunctionOnSet(CashMap(subs), Counted(subs, p))
              + SumFunctionOnSet(CashMap(subs), own)
  BY <1>1, <1>2, SumUnion
<1> QED BY <1>1, <1>3, <1>4 DEF own

LEMMA NextFits ==
    ASSUME LedgerInv, ChainInv, BookInv, tx.phase = "build", NEW p \in Before(tx.day), NEW nav,
           NEW table, table = Put(snap, tx.day, NextRow(p, tx.day, nav))
    PROVE  Fits(subs, table, tx.day)
<1> DEFINE d == tx.day
           W == SubWindow({p}, d)
<1>0. RowTable(subs) /\ SnapDays \subseteq Nat /\ d \in Nat /\ d \in TradingDays
      /\ Filled(SnapDays, d)
      /\ \A e \in SnapDays : e < d => Fits(subs, snap, e)
  BY BookFacts, BuildKnows
<1>1. /\ p \in SnapDays /\ p < d /\ p \in Nat /\ \A e \in SnapDays : e < d => e <= p
      /\ Before(d) = {p} /\ Max(Before(d)) = p
  BY <1>0, BeforeIsLast
<1>2. Fits(subs, snap, p)
  BY <1>0, <1>1
<1>3. /\ Counted(subs, d) = Counted(subs, p) \cup W /\ Counted(subs, p) \cap W = {}
      /\ W \in SUBSET Confirmed
  BY <1>0, <1>1, CountedSince
<1>4. table[d] = NextRow(p, d, nav) /\ DOMAIN table = SnapDays \cup {d}
  BY DEF Put, SnapDays
<1>5. \A s \in SubIds :
          table[d].booked[s] = IF s \in Counted(subs, d) THEN SharesIn(subs[s]) ELSE 0
  <2> HIDE DEF W
  <2>1. table[d].booked = [s \in SubIds |-> IF s \in W THEN snap[p].booked[s] + SignedShares(s)
                                            ELSE snap[p].booked[s]]
    <3>1. NextRow(p, d, nav).booked =
              [s \in SubIds |-> IF s \in SubWindow({p}, d) THEN snap[p].booked[s] + SignedShares(s)
                               ELSE snap[p].booked[s]]
      BY DEF NextRow, Snapshot
    <3> QED BY <1>4, <3>1 DEF W
  <2>2. \A s \in SubIds :
            snap[p].booked[s] = IF s \in Counted(subs, p) THEN SharesIn(subs[s]) ELSE 0
    BY <1>2 DEF Fits
  <2>3. \A s \in W : SignedShares(s) = SharesIn(subs[s]) /\ SharesIn(subs[s]) \in Int
    BY <1>0, <1>3, LegWorth, RowFacts
  <2> QED BY <1>3, <2>1, <2>2, <2>3
<1>6. table[d].cash = SumFunctionOnSet(CashMap(subs), Counted(subs, d))
  <2>1. table[d].cash = CashOn(d)
    BY <1>4 DEF NextRow, Snapshot
  <2>2. LegWindow(d) = W
    BY <1>1, LegWorth DEF LegWindow, SubWindow
  <2>3. CashOn(d) = snap[p].cash + Sum(SignedCash, W)
    BY <1>1, <2>2 DEF CashOn
  <2>4. snap[p].cash = SumFunctionOnSet(CashMap(subs), Counted(subs, p))
    BY <1>2 DEF Fits
  <2> QED BY <1>0, <1>1, <2>1, <2>3, <2>4, CashSince
<1>7. ASSUME NEW i \in Investors, NeverShort(subs, DOMAIN table, i, d)
      PROVE  table[d].held[i] = NetShares(subs, i, d)
  <2> DEFINE P == HoldersBefore(d)
             own == {s \in SubWindow(P, d) : subs[s].investor = i}
             base == IF P = {} THEN 0 ELSE snap[Max(P)].held[i]
             total == base + Sum(SignedShares, own)
  <2>1. table[d].held[i] = IF total > 0 THEN total ELSE 0
    <3>1. table[d].held = HeldOn(d)
      BY <1>4 DEF NextRow, Snapshot
    <3>2. HeldOn(d)[i] = IF total > 0 THEN total ELSE 0
      BY DEF HeldOn
    <3> QED BY <3>1, <3>2
  <2>2. NetShares(subs, i, d) \in Int /\ NetShares(subs, i, d) >= 0
    BY <1>0, <1>4, <1>7, NetIsInt DEF NeverShort
  <2>3. ASSUME NEW e \in SnapDays, e < d
        PROVE  snap[e].held[i] = NetShares(subs, i, e)
    <3>1. NeverShort(subs, DOMAIN snap, i, e)
      BY <1>0, <1>4, <1>7, <2>3 DEF NeverShort, SnapDays
    <3> QED BY <1>0, <2>3, <3>1 DEF Fits
  <2>4. total = NetShares(subs, i, d)
    <3>1. ASSUME NEW q \in SnapDays, q < d, P = {q}
          PROVE  total = NetShares(subs, i, d)
      <4>1. q \in Nat /\ base = snap[q].held[i] /\ own = {s \in SubWindow({q}, d) : subs[s].investor = i}
        BY <1>0, <3>1, OneDay
      <4>2. base = NetShares(subs, i, q)
        BY <2>3, <3>1, <4>1
      <4> HIDE DEF P, own, base
      <4>3. NetShares(subs, i, d) = NetShares(subs, i, q) + Sum(SignedShares, own)
        BY <1>0, <3>1, <4>1, NetSince
      <4> QED BY <4>2, <4>3
    <3>2. CASE P # {}
      <4>1. PICK q \in P : TRUE
        BY <3>2
      <4>2. q \in SnapDays /\ q < d /\ q \in Nat
        BY <1>0, <4>1 DEF HoldersBefore
      <4>3. ASSUME NEW r \in P PROVE r = q
        <5>1. r \in SnapDays /\ r \in Nat /\ r <= q /\ q <= r
          BY <1>0, <4>1, <4>3 DEF HoldersBefore
        <5> QED BY <4>2, <5>1
      <4>4. P = {q}
        BY <4>1, <4>3
      <4> QED BY <3>1, <4>2, <4>4
    <3>3. CASE P = {}
      <4>1. \A e \in SnapDays : e < d => snap[e].held[i] = 0
        <5> DEFINE days == {e \in SnapDays : e < d /\ \E j \in Investors : snap[e].held[j] # 0}
        <5>1. days \in SUBSET Days
          BY BookFacts
        <5>2. days = {}
          <6>1. SUFFICES ASSUME days # {} PROVE FALSE
            OBVIOUS
          <6>2. PICK x \in days : \A y \in days : y <= x
            BY <5>1, <6>1, LastOf
          <6>3. x \in P
            BY <6>2 DEF HoldersBefore
          <6> QED BY <3>3, <6>3
        <5> QED BY <5>2
      <4>2. NetShares(subs, i, p) = 0
        BY <1>1, <2>3, <4>1
      <4>3. own = {s \in SubWindow({p}, d) : subs[s].investor = i}
        <5>1. \A s \in Confirmed : /\ s \in DOMAIN subs /\ subs[s].confirm \in TradingDays
                                   /\ subs[s].confirm \in Nat
          BY <1>0, RowFacts DEF Confirmed
        <5>2. \A s \in Confirmed : p < subs[s].confirm /\ subs[s].confirm <= d => subs[s].confirm = d
          <6> SUFFICES ASSUME NEW s \in Confirmed, p < subs[s].confirm, subs[s].confirm < d
                       PROVE  FALSE
            BY <1>0, <5>1
          <6>1. subs[s].confirm \in SnapDays
            BY <1>0, <1>1, <5>1 DEF Filled
          <6> QED BY <1>1, <5>1, <6>1
        <5>3. \A s \in Confirmed : InWindow(subs[s].confirm, {}, d) <=> InWindow(subs[s].confirm, {p}, d)
          BY <1>0, <1>1, <5>1, <5>2 DEF InWindow
        <5> QED BY <3>3, <5>3 DEF SubWindow
      <4>4. base = 0
        BY <3>3
      <4> HIDE DEF P, own, base
      <4>5. NetShares(subs, i, d) = NetShares(subs, i, p) + Sum(SignedShares, own)
        BY <1>0, <1>1, <4>3, NetSince
      <4> QED BY <4>2, <4>4, <4>5
    <3> QED BY <3>2, <3>3
  <2> HIDE DEF total
  <2> QED BY <2>1, <2>2, <2>4
<1> QED BY <1>5, <1>6, <1>7 DEF Fits

LEMMA BuildBook ==
    ASSUME LedgerInv, ChainInv, BookInv, BuildNothing \/ BuildFirst \/ BuildNext
    PROVE  BookInv'
<1>0. RowTable(subs) /\ SnapDays \subseteq Nat
  BY BookFacts
<1>1. tx.phase = "build" /\ AfterBuild /\ subs' = subs
  BY DEF BuildNothing, BuildFirst, BuildNext, dbvars
<1>2. /\ tx.day \in Nat /\ tx.day \in TradingDays /\ tx.day \notin SnapDays /\ ~Idle
      /\ Opened(subs, SnapDays, tx.day)
      /\ Valued(subs, SnapDays)
      /\ \A d \in SnapDays : d < tx.day => Fits(subs, snap, d) /\ Opened(subs, SnapDays, d)
  BY <1>1, BuildKnows
<1>3. /\ tx'.phase = IF tx.kind = "generate" THEN "commit" ELSE "after"
      /\ tx'.kind = tx.kind /\ tx'.day = tx.day /\ UNCHANGED saved
  BY <1>1, GotoFields DEF AfterBuild
<1>4. /\ Reached(tx') = tx.day + 1
      /\ Known(tx') = IF tx.kind = "recalc" THEN tx.day + 1 ELSE LastDay + 1
  BY <1>3 DEF Reached, Known
<1>5. \A s \in DOMAIN subs : subs[s].status = "pending" => tx.day < subs[s].confirm
  BY <1>1 DEF BookInv, BookOK
<1>6. \A d \in SnapDays : d < Known(tx') => d < tx.day
  <2>1. Within(SnapDays, tx.end) /\ (tx.kind # "recalc" => tx.day = tx.end)
    BY <1>1 DEF ChainInv, ChainOK
  <2> QED BY <1>0, <1>2, <1>4, <2>1 DEF Within
<1>7. CASE BuildNothing
  <2>1. snap' = snap /\ \A e \in SnapDays : tx.day < e
    BY <1>0, <1>2, <1>7, NothingBefore DEF BuildNothing, dbvars
  <2>2. \A s \in Confirmed : subs[s].confirm \in Nat /\ tx.day <= subs[s].confirm
                             /\ subs[s].confirm # tx.day
    BY <1>0, <1>2, <1>7, <2>1, LegWorth, RowFacts
       DEF BuildNothing, LegWindow, InWindow, Opened, Confirmed
  <2>3. Opened(subs, SnapDays, tx.day + 1)
    BY <1>2, <2>2 DEF Opened, Confirmed
  <2>4. BookOK(subs, snap, tx')
    BY <1>1, <1>2, <1>3, <1>4, <1>5, <1>6, <2>3 DEF BookInv, BookOK, SnapDays
  <2> QED BY <1>1, <1>2, <1>3, <2>1, <2>4, InsideBook
<1>8. CASE BuildFirst \/ BuildNext
  <2>1. \E row : snap' = Put(snap, tx.day, row)
    BY <1>8 DEF BuildFirst, BuildNext
  <2>2. /\ SnapDays' = SnapDays \cup {tx.day} /\ \A e \in SnapDays : snap'[e] = snap[e]
        /\ SnapDays' \subseteq Nat
    BY <1>0, <1>2, <2>1 DEF Put, SnapDays
  <2>3. Fits(subs, snap', tx.day)
    <3>1. CASE BuildFirst
      BY <1>1, <3>1, FirstFits DEF BuildFirst
    <3>2. CASE BuildNext
      <4>1. PICK p \in Before(tx.day), nav \in Navs : snap' = Put(snap, tx.day, NextRow(p, tx.day, nav))
        BY <3>2 DEF BuildNext
      <4> QED BY <1>1, <4>1, NextFits
    <3> QED BY <1>8, <3>1, <3>2
  <2>4. Opened(subs, SnapDays', tx.day) /\ Opened(subs, SnapDays', tx.day + 1)
    <3>1. ~ \A e \in SnapDays' : tx.day + 1 <= e
      BY <1>2, <2>2
    <3> QED BY <1>2, <2>2, <3>1 DEF Opened
  <2>5. ASSUME NEW d \in SnapDays', d < Known(tx')
        PROVE  Fits(subs, snap', d) /\ Opened(subs, SnapDays', d)
    <3>1. CASE d = tx.day
      BY <2>3, <2>4, <3>1
    <3>2. CASE d # tx.day
      <4>1. d \in SnapDays /\ d < tx.day
        BY <1>6, <2>2, <2>5, <3>2
      <4>2. /\ d \in DOMAIN snap \cap DOMAIN snap' /\ snap'[d] = snap[d] /\ DOMAIN snap \subseteq Nat
            /\ DOMAIN snap' \subseteq Nat
            /\ \A e \in Nat : e <= d => (e \in DOMAIN snap' <=> e \in DOMAIN snap)
        BY <1>0, <1>2, <2>2, <4>1 DEF SnapDays
      <4> QED BY <1>2, <4>1, <4>2, LaterDays DEF SnapDays
    <3> QED BY <3>1, <3>2
  <2>6. Valued(subs, SnapDays')
    BY <1>2, <2>2 DEF Valued
  <2>7. BookOK(subs, snap', tx')
    BY <1>0, <1>3, <1>4, <1>5, <2>4, <2>5, <2>6 DEF BookOK, SnapDays, RowTable
  <2> QED BY <1>1, <1>2, <1>3, <2>7, InsideBook
<1> QED BY <1>7, <1>8

LEMMA BookInit == Init => BookInv
<1> SUFFICES ASSUME Init PROVE BookInv
  OBVIOUS
<1>1. DOMAIN subs = {} /\ DOMAIN snap = {} /\ tx = NoTx
  BY DEF Init, EmptyTable
<1>2. BookOK(subs, snap, tx)
  BY <1>1, FS_EmptySet DEF BookOK, NoTx, Valued
<1> QED BY <1>1, <1>2 DEF BookInv, Idle

LEMMA BookNext ==
    Disciplined /\ LedgerInv /\ ChainInv /\ BookInv /\ LedgerInv' /\ [Next]_vars => BookInv'
<1> SUFFICES ASSUME Disciplined, LedgerInv, ChainInv, BookInv, LedgerInv', [Next]_vars
             PROVE  BookInv'
  OBVIOUS
<1>1. CASE UNCHANGED vars
  BY <1>1 DEF vars, BookInv, Idle
<1>2. CASE TxStep
  <2>1. CASE \E s \in SubIds : AutoConfirm(s) \/ AutoConfirmRefused(s)
    BY <2>1, AutoConfirmBook
  <2> QED BY <1>2, <2>1, MoveOnBook, ClearDayBook, CheckDayBook, BuildBook, CommitBook, RollbackBook
          DEF TxStep
<1> QED BY <1>1, <1>2, RequestBook, SnapshotRequestBook DEF Next

\* The rows of snapshots, accumulated from day to day, hold what a replay of the
\* subscriptions gives, in every state of a recalculation for the days it has left
\* behind (_generate_portfolio_snapshot, _generate_investor_holding).
THEOREM BookInvariant == ASSUME Disciplined PROVE Spec => []BookInv
<1>1. LedgerInv /\ ChainInv /\ BookInv /\ LedgerInv' /\ [Next]_vars => BookInv'
  BY BookNext
<1> QED BY BookInit, <1>1, LedgerInvariant, ChainInvariant, PTL DEF Spec

\* Every committed snapshot has counted every subscription confirmed by its day
\* once and nothing else, in shares and in cash, whatever was taken back, rebuilt
\* or confirmed again in between (recalculate_snapshots, delete_snapshots_bulk).
THEOREM AlwaysBookedOnce == ASSUME Disciplined PROVE Spec => []BookedExactlyOnce
<1>1. LedgerInv /\ BookInv => BookedExactlyOnce
  <2> SUFFICES ASSUME LedgerInv, BookInv, Idle, NEW d \in SnapDays
               PROVE  /\ \A s \in SubIds : snap[d].booked[s] =
                            IF s \in Confirmed /\ subs[s].confirm <= d THEN SignedShares(s) ELSE 0
                      /\ snap[d].cash =
                            Sum(SignedCash, {s \in DOMAIN legs : legs[s].confirm <= d})
    BY DEF BookedExactlyOnce
  <2>1. Fits(subs, snap, d)
    BY IdleBooked
  <2>2. \A s : s \in Counted(subs, d) <=> s \in Confirmed /\ subs[s].confirm <= d
    BY DEF Counted, Confirmed
  <2>3. \A s \in Confirmed : SignedShares(s) = SharesIn(subs[s])
    BY LegWorth
  <2>4. {s \in DOMAIN legs : legs[s].confirm <= d} = Counted(subs, d)
    BY <2>2, LegWorth
  <2>5. Counted(subs, d) \in SUBSET Confirmed
    BY <2>2
  <2>6. Sum(SignedCash, Counted(subs, d)) = SumFunctionOnSet(CashMap(subs), Counted(subs, d))
    BY <2>5, SumsOfMaps
  <2> QED BY <2>1, <2>2, <2>3, <2>4, <2>6 DEF Fits
<1> QED BY <1>1, LedgerInvariant, BookInvariant, PTL

\* An investor who was never short holds the net of the ledger on every committed
\* day, although days without holders are skipped (_generate_investor_holding).
THEOREM HoldingsAlwaysFollow == ASSUME Disciplined PROVE Spec => []HoldingsFollowLedger
<1>1. LedgerInv /\ BookInv => HoldingsFollowLedger
  <2> SUFFICES ASSUME LedgerInv, BookInv, Idle, NEW i \in Investors, NEW d \in SnapDays,
                      \A e \in SnapshotsUpTo(d) : Balance(i, e) >= 0
               PROVE  snap[d].held[i] = Balance(i, d)
    BY DEF HoldingsFollowLedger
  <2>1. Fits(subs, snap, d)
    BY IdleBooked
  <2>2. ASSUME NEW e \in SnapDays PROVE Balance(i, e) = NetShares(subs, i, e)
    <3> DEFINE own == {s \in Confirmed : subs[s].investor = i /\ subs[s].confirm <= e}
    <3>1. own = CountedOf(subs, i, e) /\ own \in SUBSET Confirmed
      BY DEF CountedOf, Counted, Confirmed
    <3>2. Balance(i, e) = Sum(SignedShares, own)
      BY DEF Balance
    <3> HIDE DEF own
    <3> QED BY <3>1, <3>2, SumsOfMaps DEF NetShares
  <2>3. NeverShort(subs, SnapDays, i, d)
    BY <2>2 DEF NeverShort, SnapshotsUpTo
  <2> QED BY <2>1, <2>2, <2>3 DEF Fits, SnapDays
<1> QED BY <1>1, LedgerInvariant, BookInvariant, PTL

-----------------------------------------------------------------------------
(* Rebuilding: what a recalculation takes back it confirms again            *)

FirstOf(D, d) == d \in D /\ \A e \in D : d <= e

\* A row is due on the next trading day, redeems something, and has a price when
\* shares were bought at it.
Sound(rows) ==
    \A s \in DOMAIN rows :
        /\ IsNextTradingDay(rows[s].apply, rows[s].confirm)
        /\ rows[s].type = "redeem" => rows[s].shares > 0
        /\ rows[s].type = "subscribe" /\ rows[s].status = "confirmed" => rows[s].nav # 0

\* Without a snapshot of its day an arrival was confirmed in the initial window:
\* no cash had arrived by then.
FirstWindow(rows, D) ==
    \A s \in ArrivalsIn(rows) :
        rows[s].apply \in D \/ \A r \in ArrivalsIn(rows) : rows[s].apply < rows[r].confirm

\* Cash arrives before, or on, the first snapshot.
StartedBefore(at, D) == \A d \in D : at # NoDate /\ at <= d

\* A first day before n with a price has cash.
FirstCash(table, n) ==
    \A d \in DOMAIN table :
        FirstOf(DOMAIN table, d) /\ d < n /\ table[d].nav # 0 => table[d].cash > 0

Steady(rows, table, at, n) ==
    /\ Sound(rows) /\ FirstWindow(rows, DOMAIN table)
    /\ StartedBefore(at, DOMAIN table) /\ FirstCash(table, n)

\* Rows keep their dates and type, and those due by the first of the old days are
\* left alone.
RowsKept(rows, was, old) ==
    /\ DOMAIN rows = DOMAIN was
    /\ \A s \in DOMAIN was :
          /\ rows[s].apply = was[s].apply /\ rows[s].confirm = was[s].confirm
          /\ rows[s].type = was[s].type
          /\ \A e \in old : FirstOf(old, e) /\ was[s].confirm <= e => rows[s] = was[s]

\* The old days are rebuilt one after the other, from one of them on, and no day
\* is new but those passed.
DaysKept(D, old, x) ==
    /\ \A e \in old : e < Reached(x) => e \in D
    /\ \A e \in D : e < Reached(x) \/ e \in old
    /\ old # {} => \E e \in old : e <= x.day

\* The first arrival never moves forward, and there is one once a day was checked.
StartKept ==
    /\ StartedBefore(startedAt, DOMAIN saved.snap)
    /\ startedAt # NoDate => saved.startedAt # NoDate /\ saved.startedAt <= startedAt
    /\ tx.phase \in {"before", "build", "after"} => startedAt # NoDate

\* Once cleared a day has neither row nor anything it priced, and nothing is due.
DayCleared ==
    /\ tx.phase \in {"checks", "before"} =>
          PricedBy(tx.day) = {} /\ tx.day \notin SnapDays /\ NoPendingDue(tx.day)
    /\ tx.phase = "before" => tx.todo = {}

\* What was confirmed before still is, or waits for the price of the day.
Awaited ==
    \A s \in ConfirmedIn(saved.subs) :
        \/ s \in Confirmed
        \/ /\ tx.phase \in {"checks", "before", "build", "after"}
           /\ s \in Pending /\ subs[s].apply = tx.day
           /\ tx.phase = "after" => s \in tx.todo

\* What is confirmed for the first time was applied for by the day.
NewcomersPast ==
    \A s \in Confirmed : s \in ConfirmedIn(saved.subs) \/ subs[s].apply <= tx.day

\* After its build a day has a row, or lies before all; the row has a price if
\* someone is waiting to buy at it.
DayPriced ==
    tx.phase = "after" =>
        /\ \A s \in tx.todo : subs[s].apply <= tx.day
        /\ tx.day \in SnapDays \/ \A e \in SnapDays : tx.day < e
        /\ tx.day \in SnapDays /\ snap[tx.day].nav = 0 =>
              \A s \in ArrivalsIn(saved.subs) : saved.subs[s].apply # tx.day

Rebuilding ==
    tx.kind = "recalc" =>
        /\ RowsKept(subs, saved.subs, DOMAIN saved.snap)
        /\ DaysKept(SnapDays, DOMAIN saved.snap, tx)
        /\ StartKept /\ DayCleared /\ Awaited /\ NewcomersPast /\ DayPriced

\* What holds of the tables holds of those a rollback restores.
SteadyInv ==
    /\ Steady(subs, snap, startedAt, Known(tx))
    /\ ~Idle => Steady(saved.subs, saved.snap, saved.startedAt, LastDay + 1)
RebuildInv == SteadyInv /\ Rebuilding

-----------------------------------------------------------------------------
(* Confirming, taking back and clearing                                     *)

\* started_at, told from the arrivals.
LEMMA FirstFacts ==
    ASSUME LedgerInv
    PROVE  /\ Arrivals = ArrivalsIn(subs) /\ Arrivals \subseteq Confirmed
           /\ Confirmed \subseteq DOMAIN subs /\ Confirmed = ConfirmedIn(subs)
           /\ startedAt \in Nat
           /\ \A s \in DOMAIN subs : subs[s].confirm \in Nat \ {0} /\ subs[s].apply \in Nat \ {0}
           /\ startedAt = NoDate <=> Arrivals = {}
           /\ pstatus = "active" <=> Arrivals # {}
           /\ Arrivals # {} => \E s \in Arrivals : subs[s].confirm = startedAt
           /\ \A s \in Arrivals : startedAt <= subs[s].confirm
<1>1. /\ Arrivals = ArrivalsIn(subs) /\ Arrivals \subseteq Confirmed
      /\ Confirmed \subseteq DOMAIN subs /\ Confirmed = ConfirmedIn(subs)
  BY DEF Arrivals, ArrivalsIn, Confirmed, ConfirmedIn
<1>2. FirstArrival(subs, startedAt, pstatus)
  BY DEF LedgerInv, LedgerOK, DB
<1>3. \A s \in DOMAIN subs : subs[s].confirm \in Nat \ {0} /\ subs[s].apply \in Nat \ {0}
  BY Facts, CalendarAssumption DEF Subscription, Days
<1>4. startedAt \in Nat
  BY CalendarAssumption DEF LedgerInv, TypeOK, IsDatabase, DB, Days, NoDate
<1> QED BY <1>1, <1>2, <1>3, <1>4 DEF FirstArrival, NoDate

LEMMA ConfirmSteady ==
    ASSUME LedgerInv, BookInv, NEW n, Steady(subs, snap, startedAt, n), NEW s \in Pending,
           ArrivalGate(s), NEW nav \in UsablePrices(s), ConfirmWrites(s, nav), LedgerInv'
    PROVE  /\ Steady(subs', snap, startedAt', n)
           /\ startedAt # NoDate => startedAt' = startedAt
           /\ DOMAIN subs' = DOMAIN subs /\ \A r \in DOMAIN subs \ {s} : subs'[r] = subs[r]
           /\ subs'[s].apply = subs[s].apply /\ subs'[s].confirm = subs[s].confirm
           /\ subs'[s].type = subs[s].type /\ subs'[s].status = "confirmed"
<1>1. s \in DOMAIN subs /\ subs[s] \in Subscription
  BY Facts DEF Pending
<1>2. LET row == ConfirmedRow(s, nav)
      IN  /\ row.status = "confirmed" /\ row.apply = subs[s].apply /\ row.type = subs[s].type
          /\ row.confirm = subs[s].confirm /\ row.nav = nav
          /\ row.type = "redeem" => row.shares = subs[s].shares
  BY <1>1 DEF ConfirmedRow, Subscription
<1>3. /\ DOMAIN subs' = DOMAIN subs /\ subs'[s] = ConfirmedRow(s, nav)
      /\ \A r \in DOMAIN subs \ {s} : subs'[r] = subs[r]
  BY <1>1 DEF ConfirmWrites
<1>4. startedAt # NoDate => startedAt' = startedAt
  BY DEF ConfirmWrites
<1>5. Sound(subs')
  BY <1>1, <1>2, <1>3 DEF Sound, Steady, UsablePrices
<1>6. ArrivalsIn(subs') \subseteq ArrivalsIn(subs) \cup {s}
      /\ (s \in ArrivalsIn(subs') => subs[s].type = "subscribe")
  BY <1>1, <1>2, <1>3 DEF ArrivalsIn, ConfirmedIn
<1>7. FirstWindow(subs', SnapDays)
  <2> SUFFICES ASSUME NEW a \in ArrivalsIn(subs'), subs'[a].apply \notin SnapDays,
                      NEW r \in ArrivalsIn(subs')
               PROVE  subs'[a].apply < subs'[r].confirm
    BY DEF FirstWindow
  <2>0. FirstWindow(subs, SnapDays)
    BY DEF Steady, SnapDays
  <2>1. CASE a = s /\ r = s
    BY <1>1, <1>2, <1>3, <2>1 DEF Steady, Sound, IsNextTradingDay
  <2>2. CASE a = s /\ r # s
    <3>1. r \in Arrivals /\ r \in DOMAIN subs
      BY <1>6, <2>2, FirstFacts
    <3>2. ~ subs[r].confirm <= subs[s].apply
      BY <1>2, <1>3, <2>2, <3>1 DEF UsablePrices, PriceChoices
    <3> QED BY <1>1, <1>2, <1>3, <2>2, <3>1, <3>2, FirstFacts
  <2>3. CASE a # s /\ r # s
    <3>1. a \in ArrivalsIn(subs) /\ r \in ArrivalsIn(subs) /\ a \in DOMAIN subs /\ r \in DOMAIN subs
      BY <1>6, <2>3, FirstFacts
    <3> QED BY <1>3, <2>0, <2>3, <3>1 DEF FirstWindow
  <2>4. CASE a # s /\ r = s
    <3>1. a \in ArrivalsIn(subs) /\ a \in Arrivals /\ a \in DOMAIN subs
      BY <1>6, <2>4, FirstFacts
    <3>2. PICK q \in Arrivals : subs[q].confirm = startedAt
      BY <3>1, FirstFacts
    <3>3. subs[a].apply < subs[q].confirm
      BY <1>3, <2>0, <2>4, <3>1, FirstFacts DEF FirstWindow
    <3>4. startedAt <= subs[s].confirm
      BY <1>6, <2>4, <3>1, FirstFacts DEF ArrivalGate
    <3> QED BY <1>1, <1>2, <1>3, <2>4, <3>1, <3>2, <3>3, <3>4, FirstFacts
  <2> QED BY <2>1, <2>2, <2>3, <2>4
<1>8. StartedBefore(startedAt', SnapDays)
  BY <1>4 DEF Steady, StartedBefore, SnapDays
<1> QED BY <1>1, <1>2, <1>3, <1>4, <1>5, <1>7, <1>8 DEF Steady, SnapDays

\* The first arrival stays if nothing that arrives then is taken back.
LEMMA KeepsFirst ==
    ASSUME LedgerInv, LedgerInv', NEW S, UnconfirmWrites(S), startedAt # NoDate,
           \A r \in S \cap Arrivals : subs[r].confirm # startedAt
    PROVE  startedAt' = startedAt
<1>1. CASE S = {}
  BY <1>1 DEF UnconfirmWrites
<1>2. CASE S # {}
  <2>1. PICK q \in Arrivals : subs[q].confirm = startedAt
    BY FirstFacts
  <2>2. q \in Arrivals \ S
    BY <2>1
  <2>3. PICK d \in Days \cup {NoDate} : IsEarliestArrival(d, Arrivals \ S) /\ startedAt' = d
    BY <1>2 DEF UnconfirmWrites
  <2>4. d <= startedAt /\ \E s \in Arrivals : subs[s].confirm = d
    BY <2>1, <2>2, <2>3 DEF IsEarliestArrival
  <2>5. startedAt <= d /\ d \in Nat
    BY <2>4, FirstFacts
  <2> QED BY <2>3, <2>4, <2>5, FirstFacts
<1> QED BY <1>1, <1>2

\* Rows of S are taken back; the days may change, but keep those of arrivals.
LEMMA UnconfirmSteady ==
    ASSUME LedgerInv, LedgerInv', BookInv, NEW S \in SUBSET Confirmed, UnconfirmWrites(S),
           Sound(subs), FirstWindow(subs, SnapDays), NEW D,
           \A s \in Confirmed \ S : subs[s].apply \in SnapDays => subs[s].apply \in D
    PROVE  /\ Sound(subs') /\ FirstWindow(subs', D)
           /\ DOMAIN subs' = DOMAIN subs
           /\ \A r \in DOMAIN subs \ S : subs'[r] = subs[r]
           /\ \A r \in S : subs'[r].status = "pending"
           /\ \A r \in DOMAIN subs : /\ subs'[r].apply = subs[r].apply
                                     /\ subs'[r].confirm = subs[r].confirm
                                     /\ subs'[r].type = subs[r].type
<1>1. \A row \in Subscription :
          LET new == PendingRow(row)
          IN  /\ new.apply = row.apply /\ new.confirm = row.confirm /\ new.type = row.type
              /\ new.status = "pending" /\ (row.type = "redeem" => new.shares = row.shares)
  BY DEF PendingRow, Subscription
<1>2. /\ DOMAIN subs' = DOMAIN subs /\ Confirmed \subseteq DOMAIN subs
      /\ \A r \in DOMAIN subs \ S : subs'[r] = subs[r]
      /\ \A r \in S : subs'[r] = PendingRow(subs[r]) /\ subs[r] \in Subscription
  BY Facts DEF UnconfirmWrites, Confirmed
<1>3. \A r \in DOMAIN subs : /\ subs'[r].apply = subs[r].apply
                             /\ subs'[r].confirm = subs[r].confirm
                             /\ subs'[r].type = subs[r].type
  BY <1>1, <1>2
<1>4. Sound(subs')
  <2> SUFFICES ASSUME NEW r \in DOMAIN subs
               PROVE  /\ IsNextTradingDay(subs'[r].apply, subs'[r].confirm)
                      /\ subs'[r].type = "redeem" => subs'[r].shares > 0
                      /\ subs'[r].type = "subscribe" /\ subs'[r].status = "confirmed"
                            => subs'[r].nav # 0
    BY <1>2 DEF Sound
  <2>1. CASE r \in S
    BY <1>1, <1>2, <2>1 DEF Sound
  <2>2. CASE r \notin S
    BY <1>2, <2>2 DEF Sound
  <2> QED BY <2>1, <2>2
<1>5. \A s \in ArrivalsIn(subs') : s \in ArrivalsIn(subs) /\ s \in Confirmed \ S
                                   /\ s \in DOMAIN subs
  BY <1>1, <1>2 DEF ArrivalsIn, ConfirmedIn, Confirmed
<1>6. FirstWindow(subs', D)
  BY <1>3, <1>5 DEF FirstWindow
<1> QED BY <1>1, <1>2, <1>3, <1>4, <1>6

\* Clearing a day that is not before the start of the chain, or has nothing to take
\* back.
LEMMA ClearSteady ==
    ASSUME LedgerInv, LedgerInv', BookInv, NEW n, NEW m, Steady(subs, snap, startedAt, n),
           NEW d \in Days, ClearDay(d),
           \A s \in DOMAIN subs : subs[s].apply < subs[s].confirm,
           \/ PricedBy(d) = {} \/ SnapDays \ {d} = {} \/ (startedAt # NoDate /\ startedAt <= d),
           \A e \in SnapDays \ {d} : e < m => e < d /\ e < n
    PROVE  Steady(subs', snap', startedAt', m)
<1>0. /\ SnapDays \subseteq Nat /\ d \in Nat
      /\ UnconfirmWrites(PricedBy(d)) /\ PricedBy(d) \subseteq Confirmed
  BY BookFacts, Facts DEF ClearDay, PricedBy
<1>1. SnapDays' = SnapDays \ {d} /\ \A e \in SnapDays' : snap'[e] = snap[e]
  BY DEF ClearDay, Drop, SnapDays
<1>2. \A s \in Confirmed \ PricedBy(d) : subs[s].apply \in SnapDays => subs[s].apply \in SnapDays'
  BY <1>1 DEF PricedBy
<1>3. Sound(subs') /\ FirstWindow(subs', SnapDays')
  <2>1. Sound(subs) /\ FirstWindow(subs, SnapDays)
    BY DEF Steady, SnapDays
  <2> QED BY <1>0, <1>2, <2>1, UnconfirmSteady
<1>4. StartedBefore(startedAt', SnapDays')
  <2>0. StartedBefore(startedAt, SnapDays)
    BY DEF Steady, SnapDays
  <2>1. CASE PricedBy(d) = {}
    <3>1. startedAt' = startedAt
      BY <1>0, <2>1 DEF UnconfirmWrites
    <3> QED BY <1>1, <2>0, <3>1 DEF StartedBefore
  <2>2. CASE SnapDays \ {d} = {}
    BY <1>1, <2>2 DEF StartedBefore
  <2>3. CASE startedAt # NoDate /\ startedAt <= d
    <3>1. \A r \in PricedBy(d) \cap Arrivals : subs[r].confirm # startedAt
      BY <1>0, <2>3, FirstFacts DEF PricedBy
    <3>2. startedAt' = startedAt
      BY <1>0, <2>3, <3>1, KeepsFirst
    <3> QED BY <1>1, <2>0, <3>2 DEF StartedBefore
  <2> QED BY <2>1, <2>2, <2>3
<1>5. FirstCash(snap', m)
  <2> SUFFICES ASSUME NEW e \in SnapDays', FirstOf(SnapDays', e), e < m, snap'[e].nav # 0
               PROVE  snap'[e].cash > 0
    BY DEF FirstCash, SnapDays
  <2>1. e \in SnapDays /\ e < d /\ e < n /\ snap'[e] = snap[e]
    BY <1>1
  <2>2. FirstOf(SnapDays, e)
    BY <1>0, <1>1, <2>1 DEF FirstOf
  <2> QED BY <2>1, <2>2 DEF Steady, FirstCash, SnapDays
<1> QED BY <1>3, <1>4, <1>5 DEF Steady, SnapDays

-----------------------------------------------------------------------------
(* Requests                                                                *)

LEMMA IdleRebuild ==
    ASSUME LedgerInv', Idle', Steady(subs', snap', startedAt', LastDay + 1)
    PROVE  RebuildInv'
<1>1. tx'.kind # "recalc" /\ Known(tx') = LastDay + 1
  BY DEF Idle, NoTx, Known
<1> QED BY <1>1 DEF RebuildInv, SteadyInv, Rebuilding

LEMMA IdleSteady ==
    ASSUME RebuildInv, Idle
    PROVE  Steady(subs, snap, startedAt, LastDay + 1)
BY DEF RebuildInv, SteadyInv, Idle, NoTx, Known

\* A request that leaves the arrivals alone.
LEMMA QuietSteady ==
    ASSUME LedgerInv', RebuildInv, Idle, UNCHANGED <<startedAt, snap, tx>>, Sound(subs'),
           Confirmed' = Confirmed, \A s \in Confirmed : subs'[s] = subs[s]
    PROVE  RebuildInv'
<1>1. /\ ArrivalsIn(subs') = ArrivalsIn(subs)
      /\ \A s \in ArrivalsIn(subs) : subs'[s] = subs[s]
  BY DEF ArrivalsIn, ConfirmedIn, Confirmed
<1>2. FirstWindow(subs', DOMAIN snap)
  BY <1>1, IdleSteady DEF Steady, FirstWindow
<1>3. Steady(subs', snap', startedAt', LastDay + 1)
  BY <1>2, IdleSteady DEF Steady
<1> QED BY <1>3, IdleRebuild DEF Idle

LEMMA RequestRebuild ==
    ASSUME LedgerInv, ChainInv, BookInv, RebuildInv, LedgerInv', Request
    PROVE  RebuildInv'
<1>0. /\ \A s \in DOMAIN subs : subs[s] \in Subscription
      /\ Idle => Sound(subs)
      /\ ShareCounts \subseteq Nat \ {0}
  BY Facts, IdleSteady, QuantityAssumption DEF Steady
<1>1. ASSUME NEW s \in SubIds, NEW row, s \notin DOMAIN subs, row.status = "pending", Idle,
             IsNextTradingDay(row.apply, row.confirm), row.type = "redeem" => row.shares > 0,
             subs' = Put(subs, s, row), UNCHANGED <<startedAt, snap, tx>>
      PROVE  RebuildInv'
  <2>1. DOMAIN subs' = DOMAIN subs \cup {s} /\ subs'[s] = row
        /\ \A r \in DOMAIN subs : subs'[r] = subs[r]
    BY <1>1 DEF Put
  <2>2. Sound(subs')
    BY <1>0, <1>1, <2>1 DEF Sound
  <2>3. Confirmed' = Confirmed /\ \A r \in Confirmed : subs'[r] = subs[r]
    BY <1>1, <2>1 DEF Confirmed
  <2> QED BY <1>1, <2>2, <2>3, QuietSteady
<1>2. ASSUME NEW s \in Pending, DOMAIN subs' = DOMAIN subs, subs'[s].status # "confirmed",
             IsNextTradingDay(subs'[s].apply, subs'[s].confirm),
             subs'[s].type = "redeem" => subs'[s].shares > 0,
             \A r \in DOMAIN subs \ {s} : subs'[r] = subs[r], UNCHANGED <<startedAt, snap, tx>>, Idle
      PROVE  RebuildInv'
  <2>1. Confirmed' = Confirmed /\ \A r \in Confirmed : subs'[r] = subs[r]
    BY <1>2 DEF Confirmed, Pending
  <2>2. Sound(subs')
    BY <1>0, <1>2 DEF Sound
  <2> QED BY <1>2, <2>1, <2>2, QuietSteady
<1>3. ASSUME NEW s \in SubIds, NEW i \in Investors, NEW d \in TradingDays,
             (\E a \in Amounts : CreateSubscribe(s, i, d, a))
             \/ (\E q \in ShareCounts : CreateRedeem(s, i, d, q))
      PROVE  RebuildInv'
  <2>1. \A type, c, amount, shares :
            LET row == NewSub(type, i, d, c, amount, shares)
            IN  /\ row.status = "pending" /\ row.type = type /\ row.shares = shares
                /\ row.apply = d /\ row.confirm = c
    BY DEF NewSub
  <2>2. /\ s \notin DOMAIN subs /\ Idle /\ UNCHANGED <<startedAt, snap, tx>>
        /\ \E row : /\ row.status = "pending" /\ IsNextTradingDay(row.apply, row.confirm)
                    /\ row.type = "redeem" => row.shares > 0
                    /\ subs' = Put(subs, s, row)
    BY <1>0, <1>3, <2>1 DEF CreateSubscribe, CreateRedeem
  <2> QED BY <1>1, <2>2
<1>4. ASSUME NEW s \in SubIds, NEW d \in TradingDays, UpdateApplyDate(s, d)
      PROVE  RebuildInv'
  <2>1. PICK c \in TradingDays : /\ IsNextTradingDay(d, c)
                                 /\ subs' = [subs EXCEPT ![s].apply = d, ![s].confirm = c]
    BY <1>4 DEF UpdateApplyDate
  <2>2. /\ s \in Pending /\ s \in DOMAIN subs /\ subs[s].status = "pending" /\ Idle
        /\ UNCHANGED <<startedAt, snap, tx>>
    BY <1>4 DEF UpdateApplyDate, Pending
  <2>3. DOMAIN subs' = DOMAIN subs /\ subs'[s].status = "pending"
        /\ subs'[s].apply = d /\ subs'[s].confirm = c
        /\ subs'[s].type = subs[s].type /\ subs'[s].shares = subs[s].shares
        /\ \A r \in DOMAIN subs \ {s} : subs'[r] = subs[r]
    BY <1>0, <2>1, <2>2 DEF Subscription
  <2> QED BY <1>0, <1>2, <2>1, <2>2, <2>3 DEF Sound
<1>5. ASSUME NEW s \in SubIds, NEW n \in Amounts \cup ShareCounts, UpdateQuantity(s, n)
      PROVE  RebuildInv'
  <2>1. \/ subs[s].type = "subscribe" /\ subs' = [subs EXCEPT ![s].amount = n]
        \/ n \in ShareCounts /\ subs' = [subs EXCEPT ![s].shares = n]
    BY <1>5 DEF UpdateQuantity
  <2>2. /\ s \in Pending /\ s \in DOMAIN subs /\ subs[s].status = "pending" /\ Idle
        /\ UNCHANGED <<startedAt, snap, tx>>
    BY <1>5 DEF UpdateQuantity, Pending
  <2>3. /\ DOMAIN subs' = DOMAIN subs /\ subs'[s].status = "pending"
        /\ subs'[s].apply = subs[s].apply /\ subs'[s].confirm = subs[s].confirm
        /\ subs'[s].type = subs[s].type
        /\ (subs[s].type = "subscribe" \/ (n \in ShareCounts /\ subs'[s].shares = n))
        /\ \A r \in DOMAIN subs \ {s} : subs'[r] = subs[r]
    BY <1>0, <2>1, <2>2 DEF Subscription
  <2>4. subs'[s].type = "redeem" => subs'[s].shares > 0
    <3>1. \A q \in ShareCounts : q > 0
      BY <1>0
    <3>2. CASE subs[s].type = "subscribe"
      BY <2>3, <3>2
    <3>3. CASE n \in ShareCounts /\ subs'[s].shares = n
      BY <3>1, <3>3
    <3> QED BY <2>3, <3>2, <3>3
  <2>5. IsNextTradingDay(subs'[s].apply, subs'[s].confirm)
    BY <1>0, <2>2, <2>3 DEF Sound
  <2> QED BY <1>2, <2>2, <2>3, <2>4, <2>5
<1>6. ASSUME NEW s \in SubIds, CancelSubscription(s)
      PROVE  RebuildInv'
  <2>1. /\ s \in Pending /\ s \in DOMAIN subs /\ Idle /\ UNCHANGED <<startedAt, snap, tx>>
        /\ subs' = [subs EXCEPT ![s].status = "cancelled"]
    BY <1>6 DEF CancelSubscription, Pending
  <2>2. DOMAIN subs' = DOMAIN subs /\ subs'[s].status = "cancelled"
        /\ subs'[s].apply = subs[s].apply /\ subs'[s].confirm = subs[s].confirm
        /\ subs'[s].type = subs[s].type /\ subs'[s].shares = subs[s].shares
        /\ \A r \in DOMAIN subs \ {s} : subs'[r] = subs[r]
    BY <1>0, <2>1 DEF Subscription
  <2> QED BY <1>0, <1>2, <2>1, <2>2 DEF Sound
<1>7. ASSUME NEW s \in SubIds, DeleteSubscription(s)
      PROVE  RebuildInv'
  <2>1. /\ s \in DOMAIN subs \ Confirmed /\ Idle /\ UNCHANGED <<startedAt, snap, tx>>
        /\ subs' = Drop(subs, {s})
    BY <1>7 DEF DeleteSubscription
  <2>2. DOMAIN subs' = DOMAIN subs \ {s} /\ \A r \in DOMAIN subs \ {s} : subs'[r] = subs[r]
    BY <2>1 DEF Drop
  <2>3. Sound(subs')
    BY <1>0, <2>1, <2>2 DEF Sound
  <2>4. Confirmed' = Confirmed /\ \A r \in Confirmed : subs'[r] = subs[r]
    BY <2>1, <2>2 DEF Confirmed
  <2> QED BY <2>1, <2>3, <2>4, QuietSteady
<1>8. ASSUME NEW s \in SubIds, ConfirmSubscription(s)
      PROVE  RebuildInv'
  <2>1. PICK nav \in UsablePrices(s) : ConfirmWrites(s, nav)
    BY <1>8 DEF ConfirmSubscription
  <2>2. s \in Pending /\ Idle /\ UNCHANGED <<snap, tx>> /\ ArrivalGate(s)
    BY <1>8 DEF ConfirmSubscription
  <2>3. Steady(subs', snap, startedAt', LastDay + 1)
    BY <2>1, <2>2, IdleSteady, ConfirmSteady
  <2> QED BY <2>2, <2>3, IdleRebuild DEF Idle
<1>9. ASSUME NEW s \in SubIds, UnconfirmSubscription(s)
      PROVE  RebuildInv'
  <2>1. /\ s \in Confirmed /\ Idle /\ UNCHANGED <<snap, tx>> /\ UnconfirmWrites({s})
        /\ \A d \in SnapDays : d < subs[s].confirm
    BY <1>9 DEF UnconfirmSubscription
  <2>2. Steady(subs, snap, startedAt, LastDay + 1)
    BY <2>1, IdleSteady
  <2>3. Sound(subs') /\ FirstWindow(subs', SnapDays)
    <3>1. Sound(subs) /\ FirstWindow(subs, SnapDays) /\ {s} \in SUBSET Confirmed
      BY <2>1, <2>2 DEF Steady, SnapDays
    <3> QED BY <2>1, <3>1, UnconfirmSteady
  <2>4. StartedBefore(startedAt', SnapDays)
    <3> SUFFICES ASSUME NEW d \in SnapDays PROVE startedAt' # NoDate /\ startedAt' <= d
      BY DEF StartedBefore
    <3>1. startedAt # NoDate /\ startedAt <= d /\ d \in Nat
      BY <2>2, BookFacts DEF Steady, StartedBefore, SnapDays
    <3>2. subs[s].confirm # startedAt
      BY <2>1, <3>1, FirstFacts
    <3>3. startedAt' = startedAt
      BY <2>1, <3>1, <3>2, KeepsFirst
    <3> QED BY <3>1, <3>3
  <2>5. Steady(subs', snap', startedAt', LastDay + 1)
    BY <2>1, <2>2, <2>3, <2>4 DEF Steady, SnapDays
  <2> QED BY <2>1, <2>5, IdleRebuild DEF Idle
<1> QED BY <1>3, <1>4, <1>5, <1>6, <1>7, <1>8, <1>9 DEF Request

-----------------------------------------------------------------------------
(* Snapshot requests                                                       *)

\* A transaction begins with the tables it finds.
LEMMA BeginRebuild ==
    ASSUME LedgerInv, RebuildInv, Idle, NEW n,
           UNCHANGED dbvars, saved' = DB, n = Known(tx'), Rebuilding'
    PROVE  RebuildInv'
<1>1. /\ saved'.subs = subs /\ saved'.snap = snap /\ saved'.startedAt = startedAt
      /\ UNCHANGED <<subs, snap, startedAt>>
  BY DEF dbvars, DB
<1>2. Steady(subs, snap, startedAt, LastDay + 1)
  BY IdleSteady
<1>3. FirstCash(snap, n)
  BY <1>2, Facts DEF Steady, FirstCash, SnapDays
<1> QED BY <1>1, <1>2, <1>3 DEF RebuildInv, SteadyInv, Steady

LEMMA SnapshotRequestRebuild ==
    ASSUME LedgerInv, ChainInv, BookInv, RebuildInv, LedgerInv', SnapshotRequest, Disciplined
    PROVE  RebuildInv'
<1>0. SnapDays \subseteq Nat
  BY BookFacts
<1>1. ASSUME NEW phase, NEW kind, NEW day, NEW end, NEW todo, kind # "recalc",
             Begin(phase, kind, day, end, todo)
      PROVE  RebuildInv'
  <2>1. Idle /\ UNCHANGED dbvars /\ saved' = DB /\ Rebuilding'
    BY <1>1 DEF Begin, Rebuilding
  <2> QED BY <2>1, BeginRebuild
<1>2. ASSUME NEW a \in Days, NEW b \in Days, BeginRecalculate(a, b)
      PROVE  RebuildInv'
  <2>1. PICK last \in SnapDays \cup {b} : Begin("precheck", "recalc", a, last, {})
    BY <1>2 DEF BeginRecalculate
  <2>2. /\ Idle /\ a \in Nat /\ UNCHANGED dbvars /\ saved' = DB
        /\ tx'.phase = "precheck" /\ tx'.kind = "recalc" /\ tx'.day = a
    BY <2>1, Facts DEF Begin
  <2>3. /\ saved'.subs = subs /\ saved'.snap = snap /\ saved'.startedAt = startedAt
        /\ UNCHANGED <<subs, snap, startedAt>>
    BY <2>2 DEF dbvars, DB
  <2>4. RowsKept(subs', saved'.subs, DOMAIN saved'.snap)
    BY <2>3 DEF RowsKept
  <2>5. DaysKept(SnapDays', DOMAIN saved'.snap, tx')
    <3>1. SnapDays # {} => \E e \in SnapDays : e <= a
      <4>1. CASE a \in SnapDays
        BY <2>2, <4>1
      <4>2. CASE \E l \in SnapDays : IsLatest(l) /\ IsNextTradingDay(l, a)
        BY <1>0, <2>2, <4>2 DEF IsNextTradingDay
      <4> QED BY <1>2, <4>1, <4>2 DEF BeginRecalculate, RecalcStart, Disciplined
    <3> QED BY <2>2, <2>3, <3>1 DEF DaysKept, SnapDays
  <2>6. StartKept'
    <3>1. StartedBefore(startedAt, DOMAIN snap)
      BY <2>2, IdleSteady DEF Steady
    <3>2. startedAt \in Nat
      BY FirstFacts
    <3> QED BY <2>2, <2>3, <3>1, <3>2 DEF StartKept
  <2>7. Confirmed' = Confirmed /\ ConfirmedIn(saved'.subs) = Confirmed
    BY <2>3, FirstFacts DEF Confirmed
  <2>8. DayCleared' /\ Awaited' /\ NewcomersPast' /\ DayPriced'
    BY <2>2, <2>7 DEF DayCleared, Awaited, NewcomersPast, DayPriced
  <2>9. Rebuilding'
    BY <2>4, <2>5, <2>6, <2>8 DEF Rebuilding
  <2> QED BY <2>2, <2>9, BeginRebuild
<1>3. CASE BeginConfirmOnly
  BY <1>1, <1>3 DEF BeginConfirmOnly
<1>4. ASSUME NEW d \in TradingDays, DeleteSnapshot(d)
      PROVE  RebuildInv'
  <2>1. Idle /\ Idle' /\ IsLatest(d) /\ ClearDay(d) /\ d \in Days
    BY <1>4, Facts DEF DeleteSnapshot, Disciplined, Idle
  <2>2. Steady(subs, snap, startedAt, LastDay + 1)
    BY <2>1, IdleSteady
  <2>3. startedAt # NoDate /\ startedAt <= d
    BY <2>1, <2>2 DEF IsLatest, Steady, StartedBefore, SnapDays
  <2>4. \A e \in SnapDays \ {d} : e < LastDay + 1 => e < d /\ e < LastDay + 1
    BY <1>0, <2>1, Facts DEF IsLatest
  <2>5. \A s \in DOMAIN subs : subs[s].apply < subs[s].confirm
    BY <2>1, IdleKnows DEF Ahead
  <2>6. Steady(subs', snap', startedAt', LastDay + 1)
    BY <2>1, <2>2, <2>3, <2>4, <2>5, ClearSteady
  <2> QED BY <2>1, <2>6, IdleRebuild
<1> QED BY <1>1, <1>2, <1>3, <1>4 DEF SnapshotRequest, BeginGenerate, BeginAdvance

-----------------------------------------------------------------------------
(* Steps of a transaction                                                  *)

LEMMA InsideRebuild ==
    ASSUME RebuildInv, ~Idle, UNCHANGED saved,
           Steady(subs', snap', startedAt', Known(tx')), Rebuilding'
    PROVE  RebuildInv'
BY DEF RebuildInv, SteadyInv

\* What a transaction saved.
LEMMA SavedFacts ==
    ASSUME LedgerInv, ~Idle
    PROVE  /\ DOMAIN saved.snap \subseteq TradingDays /\ DOMAIN saved.snap \subseteq Nat
           /\ \A s \in DOMAIN saved.subs : saved.subs[s] \in Subscription
           /\ \A s \in DOMAIN saved.subs :
                 saved.subs[s].apply \in Nat /\ saved.subs[s].confirm \in Nat
           /\ saved.startedAt \in Nat
           /\ LedgerOK(saved)
<1>1. IsDatabase(saved) /\ LedgerOK(saved)
  BY DEF LedgerInv, TypeOK, SavedOK
<1>2. TradingDays \subseteq Nat /\ Days \subseteq Nat /\ NoDate \in Nat
  BY Facts DEF NoDate
<1>3. /\ DOMAIN saved.snap \subseteq TradingDays /\ saved.startedAt \in Nat
      /\ saved.subs \in [DOMAIN saved.subs -> Subscription]
  BY <1>1, <1>2 DEF IsDatabase, IsTable
<1> QED BY <1>1, <1>2, <1>3 DEF Subscription

\* The steps that move on in the calendar.
LEMMA MoveOnRebuild ==
    ASSUME LedgerInv, ChainInv, BookInv, RebuildInv, RecalcSkipDay \/ RecalcNextDay
    PROVE  RebuildInv'
<1>0. SnapDays \subseteq Nat /\ SnapDays \subseteq TradingDays /\ tx.day \in Nat
  BY BookFacts, Facts
<1>1. /\ ~Idle /\ UNCHANGED saved /\ subs' = subs /\ snap' = snap /\ startedAt' = startedAt
      /\ tx.phase \in {"precheck", "after"}
      /\ tx.phase = "precheck" => tx.day \notin TradingDays
      /\ tx.phase = "after" => tx.todo = {}
  BY PhaseIsNotIdle DEF RecalcSkipDay, RecalcNextDay, dbvars
<1>2. /\ tx'.phase = "precheck" /\ tx'.kind = tx.kind /\ tx'.day = tx.day + 1
      /\ tx.kind = "recalc"
  BY DEF RecalcSkipDay, RecalcNextDay, LedgerInv, TypeOK, ChainInv, ChainOK
<1>3. /\ Known(tx') = tx.day + 1 /\ Reached(tx') = tx.day + 1
      /\ Known(tx) = IF tx.phase = "after" THEN tx.day + 1 ELSE tx.day
      /\ Reached(tx) = Known(tx)
  BY <1>1, <1>2 DEF Known, Reached
<1>4. \A d \in TradingDays : d < tx.day + 1 => d < Known(tx)
  BY <1>0, <1>1, <1>3, Facts
<1>5. Steady(subs, snap, startedAt, tx.day + 1)
  <2>1. Steady(subs, snap, startedAt, Known(tx))
    BY DEF RebuildInv, SteadyInv
  <2> QED BY <1>0, <1>4, <2>1 DEF Steady, FirstCash, SnapDays
<1>6. Rebuilding
  BY DEF RebuildInv
<1>7. DOMAIN saved.snap \subseteq TradingDays /\ DOMAIN saved.snap \subseteq Nat
  BY <1>1, SavedFacts
<1>8. Confirmed' = Confirmed /\ SnapDays' = SnapDays
  BY <1>1 DEF Confirmed, SnapDays
<1>9. DaysKept(SnapDays, DOMAIN saved.snap, tx')
  <2>1. DaysKept(SnapDays, DOMAIN saved.snap, tx)
    BY <1>2, <1>6 DEF Rebuilding
  <2>2. \A e \in SnapDays : e < Reached(tx) => e < Reached(tx')
    BY <1>0, <1>1, <1>3
  <2>3. \A e \in DOMAIN saved.snap : e <= tx.day => e <= tx'.day
    BY <1>0, <1>2, <1>7
  <2> QED BY <1>3, <1>4, <1>7, <2>1, <2>2, <2>3 DEF DaysKept
<1>10. StartKept' /\ DayCleared' /\ DayPriced'
  BY <1>1, <1>2, <1>6 DEF Rebuilding, StartKept, DayCleared, DayPriced
<1>11. Awaited'
  <2>1. \A s \in ConfirmedIn(saved.subs) : s \in Confirmed
    BY <1>1, <1>2, <1>6 DEF Rebuilding, Awaited
  <2> QED BY <1>1, <1>8, <2>1 DEF Awaited
<1>12. NewcomersPast'
  <2>1. \A s \in Confirmed : s \in ConfirmedIn(saved.subs) \/ subs[s].apply <= tx.day
    BY <1>2, <1>6 DEF Rebuilding, NewcomersPast
  <2>2. \A s \in Confirmed : subs[s].apply \in Nat
    BY FirstFacts
  <2> QED BY <1>0, <1>1, <1>2, <1>8, <2>1, <2>2 DEF NewcomersPast
<1>13. Rebuilding'
  BY <1>1, <1>2, <1>6, <1>8, <1>9, <1>10, <1>11, <1>12 DEF Rebuilding
<1> QED BY <1>1, <1>3, <1>5, <1>13, InsideRebuild

LEMMA CheckDayRebuild ==
    ASSUME LedgerInv, ChainInv, BookInv, RebuildInv, CheckDay
    PROVE  RebuildInv'
<1>1. /\ ~Idle /\ tx.phase = "checks" /\ UNCHANGED <<subs, snap, startedAt>>
      /\ tx'.phase = "before" /\ tx'.kind = tx.kind /\ tx'.day = tx.day
      /\ UNCHANGED saved /\ tx'.todo = DueBefore(tx.day) /\ pstatus = "active"
  BY PhaseIsNotIdle, GotoFields DEF CheckDay, dbvars, Goto, LedgerInv, TypeOK
<1>2. Known(tx') = Known(tx) /\ Reached(tx') = tx.day /\ Reached(tx) = tx.day
  BY <1>1 DEF Known, Reached
<1>3. Steady(subs', snap', startedAt', Known(tx'))
  BY <1>1, <1>2 DEF RebuildInv, SteadyInv
<1>4. ASSUME tx.kind = "recalc"
      PROVE  Rebuilding'
  <2>1. /\ RowsKept(subs, saved.subs, DOMAIN saved.snap)
        /\ DaysKept(SnapDays, DOMAIN saved.snap, tx)
        /\ StartKept /\ DayCleared /\ Awaited /\ NewcomersPast
    BY <1>4 DEF RebuildInv, Rebuilding
  <2>2. startedAt # NoDate
    BY <1>1, FirstFacts
  <2>3. Confirmed' = Confirmed /\ Pending' = Pending /\ SnapDays' = SnapDays
        /\ PricedBy(tx.day)' = PricedBy(tx.day)
    BY <1>1 DEF Confirmed, Pending, SnapDays, PricedBy
  <2>4. DaysKept(SnapDays', DOMAIN saved'.snap, tx')
    BY <1>1, <1>2, <2>1, <2>3 DEF DaysKept
  <2>5. StartKept'
    BY <1>1, <2>1, <2>2 DEF StartKept
  <2>6. DayCleared'
    <3>1. NoPendingDue(tx.day) /\ PricedBy(tx.day) = {} /\ tx.day \notin SnapDays
      BY <1>1, <2>1 DEF DayCleared
    <3>2. DueBefore(tx.day) = {}
      <4> SUFFICES ASSUME NEW s \in DueBefore(tx.day) PROVE FALSE
        OBVIOUS
      <4>1. s \in Pending /\ subs[s].confirm <= tx.day /\ tx.day < subs[s].confirm
        BY <3>1 DEF DueBefore, NoPendingDue
      <4>2. subs[s].confirm \in Nat /\ tx.day \in Nat
        BY <4>1, Facts DEF Pending
      <4> QED BY <4>1, <4>2
    <3>3. NoPendingDue(tx.day)'
      BY <1>1, <2>3, <3>1 DEF NoPendingDue
    <3> QED BY <1>1, <2>3, <3>1, <3>2, <3>3 DEF DayCleared
  <2>7. Awaited' /\ NewcomersPast' /\ DayPriced'
    BY <1>1, <2>1, <2>3 DEF Awaited, NewcomersPast, DayPriced
  <2> QED BY <1>1, <2>1, <2>4, <2>5, <2>6, <2>7 DEF Rebuilding
<1>5. Rebuilding'
  BY <1>1, <1>4 DEF Rebuilding
<1> QED BY <1>1, <1>3, <1>5, InsideRebuild

\* Clearing the day again, or the first time.
LEMMA ClearRebuild ==
    ASSUME LedgerInv, ChainInv, BookInv, RebuildInv, LedgerInv', RecalcClearDay \/ ValidateAndClear
    PROVE  RebuildInv'
<1> DEFINE d == tx.day
           old == DOMAIN saved.snap
<1>0. /\ SnapDays \subseteq Nat /\ SnapDays \subseteq Days /\ d \in Nat /\ d \in Days
      /\ \A s \in DOMAIN subs : subs[s].apply \in Nat /\ subs[s].confirm \in Nat
  BY BookFacts, Facts DEF RecalcClearDay, ValidateAndClear, LedgerInv, TxProgress
<1>1. /\ ~Idle /\ UNCHANGED saved /\ ClearDay(d) /\ NoPendingDue(d)
      /\ tx.phase \in {"precheck", "before"}
      /\ tx.phase = "precheck" => tx'.phase = "checks" /\ tx.kind = "recalc"
      /\ tx.phase = "before" => tx'.phase = "build"
      /\ tx'.kind = tx.kind /\ tx'.day = d
  BY PhaseIsNotIdle, GotoFields DEF RecalcClearDay, ValidateAndClear, ChainInv, ChainOK
<1>2. Known(tx') = Known(tx) /\ Reached(tx') = d /\ Reached(tx) = d
      /\ (tx.kind = "recalc" => Known(tx) = d) /\ (tx.kind # "recalc" => Known(tx) = LastDay + 1)
  BY <1>1 DEF Known, Reached
<1>3. \A s \in DOMAIN subs : subs[s].apply < subs[s].confirm
  BY DEF ChainInv, ChainOK, Ahead
<1>4. Steady(subs, snap, startedAt, Known(tx))
  BY DEF RebuildInv, SteadyInv
<1>5. Sound(subs) /\ FirstWindow(subs, SnapDays) /\ StartedBefore(startedAt, SnapDays)
  BY <1>4 DEF Steady, SnapDays
<1>6. UnconfirmWrites(PricedBy(d)) /\ PricedBy(d) \subseteq Confirmed
      /\ SnapDays' = SnapDays \ {d}
  BY <1>1 DEF ClearDay, PricedBy, Drop, SnapDays
<1>7. /\ DOMAIN subs' = DOMAIN subs
      /\ \A r \in DOMAIN subs \ PricedBy(d) : subs'[r] = subs[r]
      /\ \A r \in PricedBy(d) : subs'[r].status = "pending"
      /\ \A r \in DOMAIN subs : /\ subs'[r].apply = subs[r].apply
                                /\ subs'[r].confirm = subs[r].confirm
                                /\ subs'[r].type = subs[r].type
  BY <1>5, <1>6, UnconfirmSteady
<1>8. Confirmed' = Confirmed \ PricedBy(d)
  BY <1>6, <1>7 DEF Confirmed
<1>9. tx.kind # "recalc" => Steady(subs', snap', startedAt', Known(tx'))
  <2> SUFFICES ASSUME tx.kind # "recalc" PROVE Steady(subs', snap', startedAt', Known(tx'))
    OBVIOUS
  <2>1. tx.phase = "before" /\ Within(SnapDays, d)
    BY <1>1, <1>2 DEF ChainInv, ChainOK
  <2>20. \A e \in SnapDays : e \in Nat /\ e <= d
    BY <1>0, <2>1 DEF Within
  <2>2. SnapDays \ {d} = {} \/ (startedAt # NoDate /\ startedAt <= d)
    <3>1. startedAt \in Nat
      BY FirstFacts
    <3>2. \A e \in SnapDays : startedAt # NoDate /\ startedAt <= e
      BY <1>5 DEF StartedBefore
    <3>3. ASSUME NEW e \in SnapDays PROVE startedAt # NoDate /\ startedAt <= d
      BY <1>0, <2>20, <3>1, <3>2
    <3> HIDE DEF d
    <3> QED BY <3>3
  <2>3. \A e \in SnapDays \ {d} : e < Known(tx') => e < d /\ e < Known(tx)
    <3>1. Known(tx') = Known(tx)
      BY <1>2
    <3> QED BY <1>0, <2>20, <3>1
  <2> HIDE DEF d
  <2> QED BY <1>0, <1>1, <1>3, <1>4, <2>2, <2>3, ClearSteady
<1>10. ASSUME tx.kind = "recalc"
       PROVE  Steady(subs', snap', startedAt', Known(tx')) /\ Rebuilding'
  <2>0. Rebuilding /\ old \subseteq Nat /\ saved.startedAt \in Nat
    BY <1>1, SavedFacts DEF RebuildInv
  <2>1. /\ RowsKept(subs, saved.subs, old) /\ DaysKept(SnapDays, old, tx)
        /\ StartKept /\ DayCleared /\ Awaited /\ NewcomersPast
    BY <1>10, <2>0 DEF Rebuilding
  <2>2. old # {} => startedAt # NoDate /\ startedAt <= d
    BY <1>0, <2>0, <2>1, FirstFacts DEF DaysKept, StartKept, StartedBefore
  <2>3. old = {} => \A e \in SnapDays : e < d
    BY <1>2, <2>1 DEF DaysKept
  <2>4. SnapDays \ {d} = {} \/ (startedAt # NoDate /\ startedAt <= d)
    BY <1>0, <1>5, <2>2, <2>3, FirstFacts DEF StartedBefore
  <2>5. Steady(subs', snap', startedAt', Known(tx'))
    <3>1. \A e \in SnapDays \ {d} : e < Known(tx') => e < d /\ e < Known(tx)
      BY <1>2, <1>10
    <3> HIDE DEF d
    <3> QED BY <1>0, <1>1, <1>3, <1>4, <2>4, <3>1, ClearSteady
  <2>6. RowsKept(subs', saved.subs, old)
    <3>1. ASSUME NEW s \in DOMAIN saved.subs, NEW e \in old, FirstOf(old, e),
                 saved.subs[s].confirm <= e
          PROVE  subs'[s] = saved.subs[s]
      <4>1. s \in DOMAIN subs /\ subs[s] = saved.subs[s]
        BY <2>1, <3>1 DEF RowsKept
      <4>2. e <= d
        BY <1>0, <2>0, <2>1, <3>1 DEF DaysKept, FirstOf
      <4>3. subs[s].apply < d
        BY <1>0, <1>3, <2>0, <3>1, <4>1, <4>2
      <4> QED BY <1>0, <1>7, <4>1, <4>3 DEF PricedBy
    <3> QED BY <1>7, <2>1, <3>1 DEF RowsKept
  <2>7. DaysKept(SnapDays', old, tx')
    BY <1>1, <1>2, <1>6, <2>0, <2>1 DEF DaysKept
  <2>8. StartKept'
    <3>1. StartedBefore(startedAt', old)
      <4>1. CASE old = {}
        BY <4>1 DEF StartedBefore
      <4>2. CASE old # {}
        <5>1. \A r \in PricedBy(d) \cap Arrivals : subs[r].confirm # startedAt
          <6> SUFFICES ASSUME NEW r \in PricedBy(d) PROVE subs[r].confirm # startedAt
            OBVIOUS
          <6>1. r \in DOMAIN subs /\ subs[r].apply = d
            BY DEF PricedBy, Confirmed
          <6>2. d < subs[r].confirm
            BY <1>3, <6>1
          <6> QED BY <1>0, <2>2, <4>2, <6>1, <6>2, FirstFacts
        <5>2. startedAt' = startedAt
          BY <1>6, <2>2, <4>2, <5>1, KeepsFirst
        <5> QED BY <2>1, <5>2 DEF StartKept
      <4> QED BY <4>1, <4>2
    <3>2. startedAt' # NoDate => saved.startedAt # NoDate /\ saved.startedAt <= startedAt'
      <4> SUFFICES ASSUME startedAt' # NoDate
                   PROVE  saved.startedAt # NoDate /\ saved.startedAt <= startedAt'
        OBVIOUS
      <4>1. Arrivals' # {} /\ \E s \in Arrivals' : subs'[s].confirm = startedAt'
        <5>1. FirstArrival(subs', startedAt', pstatus')
          BY DEF LedgerInv, LedgerOK, DB
        <5>2. Arrivals' = ArrivalsIn(subs')
          BY DEF Arrivals, ArrivalsIn, Confirmed, ConfirmedIn
        <5> QED BY <5>1, <5>2 DEF FirstArrival
      <4>2. PICK s \in Arrivals' : subs'[s].confirm = startedAt'
        BY <4>1
      <4>3. s \in Arrivals /\ s \in DOMAIN subs
        BY <1>7, <1>8, <4>2 DEF Arrivals, Confirmed
      <4>4. startedAt # NoDate /\ startedAt <= startedAt' /\ startedAt' \in Nat
        BY <1>0, <1>7, <4>2, <4>3, FirstFacts
      <4> QED BY <2>0, <2>1, <4>4, FirstFacts DEF StartKept
    <3>3. tx'.phase \in {"before", "build", "after"} => startedAt' # NoDate
      <4> SUFFICES ASSUME tx'.phase \in {"before", "build", "after"} PROVE startedAt' # NoDate
        OBVIOUS
      <4>1. tx.phase = "before" /\ PricedBy(d) = {} /\ startedAt # NoDate
        BY <1>1, <2>1 DEF DayCleared, StartKept
      <4> QED BY <1>6, <4>1 DEF UnconfirmWrites
    <3> QED BY <1>1, <3>1, <3>2, <3>3 DEF StartKept
  <2>9. DayCleared'
    <3> SUFFICES ASSUME tx'.phase \in {"checks", "before"} PROVE DayCleared'
      BY DEF DayCleared
    <3>1. tx'.phase = "checks"
      BY <1>1
    <3>2. PricedBy(d)' = {}
      <4> SUFFICES ASSUME NEW s \in Confirmed', subs'[s].apply = d PROVE FALSE
        BY <1>1 DEF PricedBy
      <4> QED BY <1>7, <1>8 DEF PricedBy, Confirmed
    <3>3. NoPendingDue(d)'
      <4> SUFFICES ASSUME NEW s \in Pending' PROVE d < subs'[s].confirm
        BY <1>1 DEF NoPendingDue
      <4>1. s \in DOMAIN subs /\ subs'[s].confirm = subs[s].confirm
        BY <1>7 DEF Pending
      <4>2. CASE s \in PricedBy(d)
        BY <1>3, <4>1, <4>2 DEF PricedBy
      <4>3. CASE s \notin PricedBy(d)
        BY <1>1, <1>7, <4>1, <4>3 DEF NoPendingDue, Pending
      <4> QED BY <4>2, <4>3
    <3> QED BY <1>1, <1>6, <3>1, <3>2, <3>3 DEF DayCleared
  <2>10. Awaited'
    <3> SUFFICES ASSUME NEW s \in ConfirmedIn(saved.subs), s \notin Confirmed'
                 PROVE  /\ tx'.phase \in {"checks", "before", "build", "after"}
                        /\ s \in Pending' /\ subs'[s].apply = d
                        /\ tx'.phase # "after"
      BY <1>1 DEF Awaited
    <3>1. CASE s \in Confirmed
      <4>1. s \in PricedBy(d) /\ s \in DOMAIN subs
        BY <1>8, <3>1 DEF Confirmed
      <4> QED BY <1>1, <1>7, <4>1 DEF Pending, PricedBy
    <3>2. CASE s \notin Confirmed
      <4>1. s \in Pending /\ subs[s].apply = d /\ s \in DOMAIN subs /\ s \notin PricedBy(d)
        BY <1>1, <2>1, <3>2 DEF Awaited, Pending, PricedBy
      <4> QED BY <1>1, <1>7, <4>1 DEF Pending
    <3> QED BY <3>1, <3>2
  <2>11. NewcomersPast'
    BY <1>1, <1>7, <1>8, <2>1 DEF NewcomersPast, Confirmed
  <2>12. DayPriced'
    BY <1>1 DEF DayPriced
  <2> QED BY <1>1, <2>5, <2>6, <2>7, <2>8, <2>9, <2>10, <2>11, <2>12 DEF Rebuilding
<1>11. Rebuilding'
  BY <1>1, <1>10 DEF Rebuilding
<1> QED BY <1>1, <1>9, <1>10, <1>11, InsideRebuild

\* A confirmation that a recalculation took back for its day is never refused again:
\* the price it had then is there again, and so is an arrival before it.
LEMMA NeverRefused ==
    ASSUME LedgerInv, ChainInv, BookInv, RebuildInv, tx.kind = "recalc", tx.phase = "after",
           NEW s \in ConfirmedIn(saved.subs), s \in Pending, subs[s].apply = tx.day
    PROVE  ArrivalGate(s) /\ UsablePrices(s) # {}
<1> DEFINE old == DOMAIN saved.snap
<1>0. /\ SnapDays \subseteq Nat /\ tx.day \in Nat /\ ~Idle /\ s \in DOMAIN subs
      /\ subs[s] \in Subscription
      /\ \A r \in DOMAIN subs : subs[r].apply \in TradingDays /\ subs[r].apply \in Nat
                                /\ subs[r].confirm \in Nat
  BY BookFacts, Facts, PhaseIsNotIdle DEF Pending, Subscription
<1>1. Rebuilding /\ Sound(subs) /\ StartedBefore(startedAt, SnapDays)
  BY DEF RebuildInv, SteadyInv, Steady, SnapDays
<1>2. /\ RowsKept(subs, saved.subs, old) /\ DaysKept(SnapDays, old, tx)
      /\ startedAt # NoDate /\ startedAt \in Nat /\ NewcomersPast /\ DayPriced
  BY <1>1, FirstFacts DEF Rebuilding, StartKept
<1>3. Reached(tx) = tx.day + 1
  BY DEF Reached
<1>4. /\ s \in DOMAIN saved.subs /\ saved.subs[s].apply = tx.day
      /\ saved.subs[s].confirm = subs[s].confirm /\ saved.subs[s].type = subs[s].type
      /\ (subs[s].type = "subscribe" => s \in ArrivalsIn(saved.subs))
  BY <1>0, <1>2 DEF RowsKept, ConfirmedIn, ArrivalsIn
<1>5. IsNextTradingDay(tx.day, subs[s].confirm)
  BY <1>0, <1>1 DEF Sound
<1>6. tx.day < subs[s].confirm
  BY <1>0, <1>5 DEF IsNextTradingDay
<1>7. CASE tx.day \in SnapDays
  <2>1. startedAt <= subs[s].confirm
    BY <1>0, <1>1, <1>2, <1>6, <1>7 DEF StartedBefore
  <2>2. subs[s].type = "subscribe" => snap[tx.day].nav # 0
    BY <1>2, <1>4, <1>7 DEF DayPriced
  <2>3. snap[tx.day].nav \in UsablePrices(s)
    BY <1>7, <2>2 DEF UsablePrices, PriceChoices
  <2> QED BY <1>0, <1>2, <2>1, <2>3 DEF ArrivalGate
<1>8. CASE tx.day \notin SnapDays
  <2>1. \A e \in SnapDays : tx.day < e
    BY <1>2, <1>8 DEF DayPriced
  <2>2. old = {}
    <3> SUFFICES ASSUME old # {} PROVE FALSE
      OBVIOUS
    <3>1. PICK e \in old : e <= tx.day
      BY <1>2 DEF DaysKept
    <3>2. e \in Nat
      BY <1>0, SavedFacts
    <3>3. e \in SnapDays
      BY <1>0, <1>2, <1>3, <3>1, <3>2 DEF DaysKept
    <3> QED BY <1>0, <2>1, <3>1, <3>2, <3>3
  <2>3. Opened(subs, SnapDays, tx.day + 1)
    BY <1>3 DEF BookInv, BookOK, SnapDays
  <2>4. \A r \in Arrivals : r \in DOMAIN subs /\ ~ subs[r].confirm <= tx.day
    BY <1>0, <2>1, <2>3 DEF Opened, Arrivals, Confirmed
  <2>5. Par \in UsablePrices(s)
    BY <1>8, <2>4, QuantityAssumption DEF UsablePrices, PriceChoices, Par
  <2>6. ASSUME subs[s].type = "subscribe"
        PROVE  startedAt <= subs[s].confirm
    <3>1. PICK q \in Arrivals : q \in DOMAIN subs /\ subs[q].confirm = startedAt
      BY <1>2, FirstFacts
    <3>2. CASE subs[q].apply <= tx.day
      <4>1. IsNextTradingDay(subs[q].apply, subs[q].confirm)
        BY <1>1, <3>1 DEF Sound
      <4> QED BY <1>0, <1>5, <1>6, <3>1, <3>2, <4>1 DEF IsNextTradingDay
    <3>3. CASE tx.day < subs[q].apply
      <4>1. q \in ConfirmedIn(saved.subs) /\ q \in Arrivals
        BY <1>0, <1>2, <3>1, <3>3 DEF NewcomersPast, Arrivals
      <4>2. q \in ArrivalsIn(saved.subs) /\ saved.subs[q].apply = subs[q].apply
        BY <1>2, <4>1 DEF RowsKept, ArrivalsIn, ConfirmedIn, Arrivals
      <4>3. FirstWindow(saved.subs, old)
        BY <1>0 DEF RebuildInv, SteadyInv, Steady
      <4>4. subs[q].apply < subs[s].confirm
        BY <1>4, <2>2, <2>6, <4>2, <4>3 DEF FirstWindow
      <4>5. subs[s].confirm <= subs[q].apply
        BY <1>0, <1>5, <3>1, <3>3 DEF IsNextTradingDay
      <4> QED BY <1>0, <3>1, <4>4, <4>5
    <3> QED BY <1>0, <3>1, <3>2, <3>3
  <2> QED BY <1>0, <1>2, <2>5, <2>6 DEF ArrivalGate
<1> QED BY <1>7, <1>8

LEMMA AutoConfirmRebuild ==
    ASSUME LedgerInv, ChainInv, BookInv, RebuildInv, LedgerInv', NEW s \in SubIds,
           AutoConfirm(s) \/ AutoConfirmRefused(s)
    PROVE  RebuildInv'
<1> DEFINE old == DOMAIN saved.snap
<1>1. /\ tx.phase \in {"before", "after"} /\ Goto(tx.phase, tx.todo \ {s}) /\ s \in tx.todo
      /\ snap' = snap /\ s \in Pending /\ ~Idle
  BY PhaseIsNotIdle DEF AutoConfirm, AutoConfirmRefused, NextDue, LedgerInv, TxProgress, dbvars
<1>2. /\ tx'.phase = tx.phase /\ tx'.kind = tx.kind /\ tx'.day = tx.day /\ UNCHANGED saved
      /\ tx'.todo = tx.todo \ {s} /\ SnapDays' = SnapDays
  BY <1>1, GotoFields DEF Goto, LedgerInv, TypeOK, SnapDays
<1>3. Known(tx') = Known(tx) /\ Reached(tx') = Reached(tx)
  BY <1>2 DEF Known, Reached
<1>4. Steady(subs, snap, startedAt, Known(tx))
  BY DEF RebuildInv, SteadyInv
<1>5. ASSUME tx.kind = "recalc"
      PROVE  /\ RowsKept(subs, saved.subs, old) /\ DaysKept(SnapDays, old, tx)
             /\ StartKept /\ Awaited /\ NewcomersPast /\ DayPriced
             /\ tx.phase = "after"
  <2>1. /\ RowsKept(subs, saved.subs, old) /\ DaysKept(SnapDays, old, tx)
        /\ StartKept /\ DayCleared /\ Awaited /\ NewcomersPast /\ DayPriced
    BY <1>5 DEF RebuildInv, Rebuilding
  <2> QED BY <1>1, <2>1 DEF DayCleared
<1>6. CASE AutoConfirmRefused(s)
  <2>1. UNCHANGED <<subs, startedAt>> /\ Confirmed' = Confirmed /\ Pending' = Pending
    BY <1>6 DEF AutoConfirmRefused, dbvars, Confirmed, Pending
  <2>2. Steady(subs', snap', startedAt', Known(tx'))
    BY <1>1, <1>3, <1>4, <2>1
  <2>3. ASSUME tx.kind = "recalc"
        PROVE  Rebuilding'
    <3>1. s \notin ConfirmedIn(saved.subs)
      <4> SUFFICES ASSUME s \in ConfirmedIn(saved.subs) PROVE FALSE
        OBVIOUS
      <4>1. subs[s].apply = tx.day
        BY <1>1, <1>5, <2>3 DEF Awaited, Pending, Confirmed
      <4>2. ArrivalGate(s) /\ UsablePrices(s) # {}
        BY <1>1, <1>5, <2>3, <4>1, NeverRefused
      <4> QED BY <1>6, <4>2 DEF AutoConfirmRefused
    <3>2. Awaited'
      BY <1>2, <1>5, <2>1, <2>3, <3>1 DEF Awaited
    <3>3. DayPriced' /\ DayCleared' /\ StartKept' /\ NewcomersPast'
      BY <1>1, <1>2, <1>5, <2>1, <2>3
         DEF DayPriced, DayCleared, StartKept, NewcomersPast
    <3>4. DaysKept(SnapDays', old, tx')
      BY <1>2, <1>3, <1>5, <2>3 DEF DaysKept
    <3> QED BY <1>2, <1>5, <2>1, <2>3, <3>2, <3>3, <3>4 DEF Rebuilding
  <2>4. Rebuilding'
    BY <1>2, <2>3 DEF Rebuilding
  <2> QED BY <1>1, <1>2, <2>2, <2>4, InsideRebuild
<1>7. CASE AutoConfirm(s)
  <2>1. PICK nav \in UsablePrices(s) : ConfirmWrites(s, nav) /\ ArrivalGate(s)
    BY <1>7 DEF AutoConfirm
  <2>2. /\ Steady(subs', snap, startedAt', Known(tx))
        /\ startedAt # NoDate => startedAt' = startedAt
        /\ DOMAIN subs' = DOMAIN subs /\ \A r \in DOMAIN subs \ {s} : subs'[r] = subs[r]
        /\ subs'[s].apply = subs[s].apply /\ subs'[s].confirm = subs[s].confirm
        /\ subs'[s].type = subs[s].type /\ subs'[s].status = "confirmed"
    BY <1>1, <1>4, <2>1, ConfirmSteady
  <2>3. s \in DOMAIN subs /\ subs[s].status = "pending"
    BY <1>1 DEF Pending
  <2>4. Confirmed' = Confirmed \cup {s} /\ Pending' = Pending \ {s}
    BY <2>2, <2>3 DEF Confirmed, Pending
  <2>5. ASSUME tx.kind = "recalc"
        PROVE  Rebuilding'
    <3>1. RowsKept(subs', saved.subs, old)
      <4>0. RowsKept(subs, saved.subs, old)
        BY <1>5, <2>5
      <4>1. ASSUME NEW e \in old, FirstOf(old, e), s \in DOMAIN saved.subs,
                   saved.subs[s].confirm <= e
            PROVE  FALSE
        <5>1. saved.subs[s].status = "pending"
          BY <2>3, <4>0, <4>1 DEF RowsKept
        <5>2. Ahead(saved.subs, old, LastDay + 1)
          BY <1>1 DEF ChainInv
        <5>3. e \in Nat /\ e < LastDay + 1
          BY <1>1, SavedFacts, Facts
        <5>4. e < saved.subs[s].confirm /\ saved.subs[s].confirm \in Nat
          BY <1>1, <4>1, <5>1, <5>2, <5>3, SavedFacts DEF Ahead
        <5> QED BY <4>1, <5>3, <5>4
      <4> HIDE DEF old
      <4> QED BY <2>2, <4>0, <4>1 DEF RowsKept
    <3>2. DaysKept(SnapDays', old, tx')
      BY <1>2, <1>3, <1>5, <2>5 DEF DaysKept
    <3>3. StartKept' /\ DayCleared'
      BY <1>2, <1>5, <2>2, <2>5 DEF StartKept, DayCleared
    <3>4. Awaited'
      <4> SUFFICES ASSUME NEW r \in ConfirmedIn(saved.subs), r \notin Confirmed'
                   PROVE  r \in Pending' /\ subs'[r].apply = tx.day /\ r \in tx'.todo
        BY <1>2, <1>5, <2>5 DEF Awaited
      <4>1. r # s /\ r \in Pending /\ subs[r].apply = tx.day /\ r \in tx.todo
        BY <1>5, <2>4, <2>5 DEF Awaited
      <4> QED BY <1>2, <2>2, <2>4, <4>1 DEF Pending
    <3>5. NewcomersPast'
      <4>1. subs'[s].apply <= tx.day
        BY <1>1, <1>5, <2>2, <2>5 DEF DayPriced
      <4>2. \A r \in Confirmed : r # s /\ subs'[r] = subs[r]
        BY <2>2, <2>3 DEF Confirmed
      <4> QED BY <1>2, <1>5, <2>4, <2>5, <4>1, <4>2 DEF NewcomersPast
    <3>6. DayPriced'
      <4>1. \A r \in tx'.todo : r # s /\ r \in tx.todo /\ r \in DOMAIN subs
        BY <1>2 DEF LedgerInv, TxProgress, Pending
      <4> QED BY <1>1, <1>2, <1>5, <2>2, <2>5, <4>1 DEF DayPriced
    <3> QED BY <1>2, <3>1, <3>2, <3>3, <3>4, <3>5, <3>6 DEF Rebuilding
  <2>6. Rebuilding'
    BY <1>2, <2>5 DEF Rebuilding
  <2> QED BY <1>1, <1>2, <1>3, <2>2, <2>6, InsideRebuild
<1> QED BY <1>6, <1>7

-----------------------------------------------------------------------------
(* Building a day                                                          *)

LEMMA SumNegative ==
    ASSUME NEW F, NEW S, IsFiniteSet(S), S # {}, \A x \in S : F[x] \in Int /\ F[x] < 0
    PROVE  SumFunctionOnSet(F, S) < 0
<1> DEFINE G == [x \in S |-> -F[x]]
           Z == [x \in S |-> 0]
<1>1. PICK a \in S : TRUE
  OBVIOUS
<1>2. \A x \in S : G[x] \in Nat /\ G[x] \in Int /\ G[x] > 0
  OBVIOUS
<1>3. Adds(Z, F, G, S) /\ \A x \in S : Z[x] = 0
  BY DEF Adds
<1> HIDE DEF G, Z
<1>4. SumFunctionOnSet(Z, S) = 0
  BY <1>3, SumZero
<1>5. /\ SumFunctionOnSet(Z, S) = SumFunctionOnSet(F, S) + SumFunctionOnSet(G, S)
      /\ SumFunctionOnSet(F, S) \in Int
  BY <1>3, SumPlus
<1>6. SumFunctionOnSet(G, S) = G[a] + SumFunctionOnSet(G, S \ {a})
  BY <1>1, <1>2, SumRemove
<1>7. SumFunctionOnSet(G, S \ {a}) \in Nat
  <2>1. IsFiniteSet(S \ {a}) /\ \A x \in S \ {a} : G[x] \in Nat
    BY <1>2, FS_Subset
  <2> QED BY <2>1, SumNat
<1> QED BY <1>1, <1>2, <1>4, <1>5, <1>6, <1>7

\* The first day that has a leg has an arrival: redemptions alone, which are paid at
\* 1.0000 then, would make its cash negative.
LEMMA FirstLegArrives ==
    ASSUME LedgerInv, ChainInv, BookInv, RebuildInv, tx.phase = "build", Before(tx.day) = {},
           LegWindow(tx.day) # {}, CashCovered(tx.day)
    PROVE  \E r \in Arrivals : subs[r].confirm = tx.day
<1> DEFINE d == tx.day
           W == LegWindow(d)
<1>0. /\ RowTable(subs) /\ SnapDays \subseteq Nat /\ d \in Nat
      /\ Valued(subs, SnapDays) /\ \A s \in DOMAIN subs : subs[s].apply < subs[s].confirm
  BY BookFacts, BuildKnows
<1>1. \A e \in SnapDays : ~ e < d
  BY <1>0, NothingBefore
<1>2. W \subseteq Confirmed /\ \A s \in W : subs[s].confirm = d
  BY LegWorth DEF LegWindow, InWindow
<1>3. IsFiniteSet(W) /\ Confirmed \subseteq DOMAIN subs
  BY <1>0, <1>2, FS_Subset DEF Confirmed, RowTable
<1>4. CashOn(d) = 0 + Sum(SignedCash, W)
  BY DEF CashOn
<1>5. Sum(SignedCash, W) = SumFunctionOnSet(CashMap(subs), W)
  BY <1>2, SumsOfMaps
<1>6. SUFFICES ASSUME \A r \in Arrivals : subs[r].confirm # d
               PROVE  FALSE
  OBVIOUS
<1>7. ASSUME NEW s \in W
      PROVE  CashMap(subs)[s] \in Int /\ CashMap(subs)[s] < 0
  <2>1. /\ s \in Confirmed /\ s \in DOMAIN subs /\ subs[s].confirm = d
        /\ subs[s] \in Subscription /\ subs[s].status = "confirmed"
        /\ s \notin Arrivals
    BY <1>2, <1>3, <1>6, Facts DEF Confirmed
  <2>2. subs[s].type = "redeem"
    BY <2>1 DEF Arrivals, Subscription
  <2>3. subs[s].apply \notin SnapDays
    BY <1>0, <1>1, <2>1
  <2>4. subs[s].nav = Par /\ ValuedRow(subs[s])
    BY <1>0, <2>1, <2>3 DEF Valued
  <2>5. SharesIn(subs[s]) = CashIn(subs[s])
    BY <2>1, <2>4, ParRow
  <2>6. subs[s].shares > 0
    BY <2>1, <2>2 DEF RebuildInv, SteadyInv, Steady, Sound
  <2>7. CashMap(subs)[s] = CashIn(subs[s]) /\ CashMap(subs)[s] \in Int /\ subs[s].shares \in Int
    BY <1>0, <2>1, RowFacts
  <2> QED BY <2>2, <2>5, <2>6, <2>7 DEF SharesIn
<1>8. SumFunctionOnSet(CashMap(subs), W) < 0
  BY <1>3, <1>7, SumNegative
<1>9. \A s \in W : CashMap(subs)[s] \in Int
  BY <1>7
<1>10. SumFunctionOnSet(CashMap(subs), W) \in Int
  BY <1>3, <1>9, SumRemove
<1> QED BY <1>4, <1>5, <1>8, <1>10 DEF CashCovered

\* A first day that someone had bought shares at has cash again.
LEMMA FirstPriced ==
    ASSUME LedgerInv, ChainInv, BookInv, RebuildInv, tx.kind = "recalc", tx.phase = "build",
           Before(tx.day) = {}, LegWindow(tx.day) # {}, CashCovered(tx.day),
           NEW s \in ArrivalsIn(saved.subs), saved.subs[s].apply = tx.day
    PROVE  CashOn(tx.day) > 0
<1> DEFINE d == tx.day
           old == DOMAIN saved.snap
<1>0. /\ d \in Nat /\ d \notin SnapDays /\ ~Idle /\ SnapDays \subseteq Nat /\ old \subseteq Nat
      /\ Reached(tx) = d
  BY BuildKnows, BookFacts, SavedFacts DEF Reached
<1>1. \A e \in SnapDays : ~ e < d
  BY <1>0, NothingBefore
<1>2. /\ RowsKept(subs, saved.subs, old) /\ DaysKept(SnapDays, old, tx) /\ StartKept
      /\ Steady(saved.subs, saved.snap, saved.startedAt, LastDay + 1)
  BY <1>0 DEF RebuildInv, SteadyInv, Rebuilding
<1>3. PICK q \in Arrivals : subs[q].confirm = d
  BY FirstLegArrives
<1>4. startedAt # NoDate /\ startedAt <= d /\ startedAt \in Nat
  BY <1>0, <1>3, FirstFacts
<1>5. d \in old
  <2>1. CASE old = {}
    <3>1. FirstArrival(saved.subs, saved.startedAt, saved.pstatus) /\ saved.startedAt \in Nat
          /\ \A r \in DOMAIN saved.subs : saved.subs[r].confirm \in Nat
      BY <1>0, SavedFacts DEF LedgerOK
    <3>2. PICK r \in ArrivalsIn(saved.subs) : saved.subs[r].confirm = saved.startedAt
      BY <3>1 DEF FirstArrival
    <3>3. d < saved.subs[r].confirm
      BY <1>2, <2>1, <3>2 DEF Steady, FirstWindow
    <3>4. saved.startedAt <= startedAt
      BY <1>2, <1>4 DEF StartKept
    <3> QED BY <1>0, <1>4, <3>1, <3>2, <3>3, <3>4
  <2>2. CASE old # {}
    <3>1. PICK e \in old : e <= d
      BY <1>2, <2>2 DEF DaysKept
    <3>2. ~ e < d
      BY <1>0, <1>1, <1>2, <3>1 DEF DaysKept
    <3> QED BY <1>0, <3>1, <3>2
  <2> QED BY <2>1, <2>2
<1>6. FirstOf(old, d)
  <2>1. \A e \in old : ~ e < d
    BY <1>0, <1>1, <1>2 DEF DaysKept
  <2> QED BY <1>0, <1>5, <2>1 DEF FirstOf
<1>7. saved.snap[d].cash > 0
  <2>1. /\ s \in ConfirmedIn(saved.subs) /\ s \in DOMAIN saved.subs
        /\ saved.subs[s].type = "subscribe" /\ saved.subs[s].status = "confirmed"
    BY DEF ArrivalsIn, ConfirmedIn
  <2>2. saved.subs[s].nav = saved.snap[d].nav
    BY <1>0, <1>5, <2>1, SavedFacts DEF LedgerOK, Priced
  <2>3. saved.subs[s].nav # 0
    BY <1>2, <2>1 DEF Steady, Sound
  <2>4. d < LastDay + 1
    BY <1>0, <1>5, SavedFacts, Facts
  <2> QED BY <1>2, <1>5, <1>6, <2>2, <2>3, <2>4 DEF Steady, FirstCash
<1>8. saved.snap[d].cash = SumFunctionOnSet(CashMap(saved.subs), Counted(saved.subs, d))
  <2>1. BookOK(saved.subs, saved.snap, NoTx)
    BY <1>0 DEF BookInv
  <2>2. d < Known(NoTx)
    BY <1>0, <1>5, SavedFacts, Facts DEF Known, NoTx
  <2> QED BY <1>5, <2>1, <2>2 DEF BookOK, Fits
<1>9. CashOn(d) = SumFunctionOnSet(CashMap(subs), Counted(subs, d))
  <2> DEFINE table == Put(snap, d, FirstRow(d))
  <2>1. Fits(subs, table, d)
    BY FirstFits
  <2>2. table[d].cash = CashOn(d)
    BY DEF Put, FirstRow, Snapshot
  <2> QED BY <2>1, <2>2 DEF Fits
<1>10. Counted(subs, d) = Counted(saved.subs, d) /\ \A r \in Counted(subs, d) : subs[r] = saved.subs[r]
  <2>1. \A r \in DOMAIN subs : r \in DOMAIN saved.subs /\ subs[r].confirm = saved.subs[r].confirm
    BY <1>2 DEF RowsKept
  <2>2. \A r \in DOMAIN saved.subs : r \in DOMAIN subs /\ (saved.subs[r].confirm <= d =>
            subs[r] = saved.subs[r])
    BY <1>2, <1>5, <1>6 DEF RowsKept
  <2> HIDE DEF d
  <2> QED BY <2>1, <2>2 DEF Counted
<1>11. SumFunctionOnSet(CashMap(subs), Counted(subs, d))
           = SumFunctionOnSet(CashMap(saved.subs), Counted(saved.subs, d))
  <2>1. IsFiniteSet(Counted(subs, d)) /\ Counted(subs, d) \subseteq DOMAIN subs
    BY BookFacts, CountedFinite
  <2>2. \A r \in Counted(subs, d) : CashMap(subs)[r] = CashMap(saved.subs)[r]
    BY <1>10, <2>1 DEF CashMap, Counted
  <2> QED BY <1>10, <2>1, <2>2, SumAgree
<1> QED BY <1>7, <1>8, <1>9, <1>11

\* A day a recalculation had is never skipped: what arrived first is there again.
LEMMA NeverSkipped ==
    ASSUME LedgerInv, ChainInv, BookInv, RebuildInv, tx.kind = "recalc", tx.phase = "build",
           Before(tx.day) = {}, LegWindow(tx.day) = {}
    PROVE  tx.day \notin DOMAIN saved.snap
<1> DEFINE d == tx.day
           old == DOMAIN saved.snap
<1> SUFFICES ASSUME d \in old PROVE FALSE
  OBVIOUS
<1>0. /\ d \in Nat /\ d \notin SnapDays /\ ~Idle /\ SnapDays \subseteq Nat /\ old \subseteq Nat
      /\ Reached(tx) = d /\ Opened(subs, SnapDays, d)
  BY BuildKnows, BookFacts, SavedFacts DEF Reached
<1>1. \A e \in SnapDays : ~ e < d
  BY <1>0, NothingBefore
<1>2. /\ RowsKept(subs, saved.subs, old) /\ DaysKept(SnapDays, old, tx)
      /\ StartedBefore(saved.startedAt, old)
  BY <1>0 DEF RebuildInv, SteadyInv, Steady, Rebuilding
<1>3. FirstOf(old, d)
  <2>1. \A e \in old : ~ e < d
    BY <1>0, <1>1, <1>2 DEF DaysKept
  <2> QED BY <1>0, <2>1 DEF FirstOf
<1>4. PICK r \in ArrivalsIn(saved.subs) : saved.subs[r].confirm = saved.startedAt
  BY <1>0, <1>2, SavedFacts DEF LedgerOK, FirstArrival, StartedBefore
<1>5. r \in DOMAIN saved.subs /\ saved.subs[r].status = "confirmed"
      /\ saved.subs[r].confirm <= d
  BY <1>2, <1>4 DEF ArrivalsIn, ConfirmedIn, StartedBefore
<1>6. r \in DOMAIN subs /\ subs[r] = saved.subs[r]
  BY <1>2, <1>3, <1>5 DEF RowsKept
<1>7. r \in Confirmed /\ d <= subs[r].confirm
  <2>1. \A e \in SnapDays : d <= e
    BY <1>0, <1>1
  <2> HIDE DEF d
  <2> QED BY <1>0, <1>5, <1>6, <2>1 DEF Confirmed, Opened
<1>8. subs[r].confirm = d
  BY <1>0, <1>5, <1>6, <1>7, FirstFacts
<1>9. r \in LegWindow(d)
  BY <1>0, <1>7, <1>8, LegWorth DEF LegWindow, InWindow
<1> QED BY <1>9

LEMMA BuildRebuild ==
    ASSUME LedgerInv, ChainInv, BookInv, RebuildInv, BuildNothing \/ BuildFirst \/ BuildNext
    PROVE  RebuildInv'
<1> DEFINE d == tx.day
           old == DOMAIN saved.snap
<1>0. tx.phase = "build" /\ ~Idle
  BY PhaseIsNotIdle DEF BuildNothing, BuildFirst, BuildNext
<1>1. /\ d \in Nat /\ d \notin SnapDays /\ SnapDays \subseteq Nat /\ old \subseteq Nat
      /\ Reached(tx) = d
  BY <1>0, BuildKnows, BookFacts, SavedFacts DEF Reached
<1>2. /\ tx'.phase \in {"commit", "after"} /\ tx'.kind = tx.kind /\ tx'.day = d
      /\ UNCHANGED <<saved, subs, startedAt>>
      /\ tx.kind = "recalc" => tx'.phase = "after" /\ tx'.todo = DueAfter(d)
  <2>1. AfterBuild
    BY DEF BuildNothing, BuildFirst, BuildNext
  <2>2. UNCHANGED <<subs, startedAt>>
    BY DEF BuildNothing, BuildFirst, BuildNext, dbvars
  <2>3. tx.kind = "recalc" => Goto("after", DueAfter(d))
    BY <2>1 DEF AfterBuild
  <2> QED BY <2>1, <2>2, <2>3, GotoFields DEF AfterBuild, Goto, LedgerInv, TypeOK
<1>3. Reached(tx') = d + 1 /\ (tx.kind = "recalc" => Known(tx) = d /\ Known(tx') = d + 1)
      /\ (tx.kind # "recalc" => Known(tx') = Known(tx))
  BY <1>0, <1>1, <1>2 DEF Known, Reached
<1>4. \A e \in SnapDays : e < Known(tx') => e < Known(tx)
  BY <1>1, <1>3
<1>5. Sound(subs) /\ FirstWindow(subs, SnapDays) /\ StartedBefore(startedAt, SnapDays)
      /\ FirstCash(snap, Known(tx))
  BY DEF RebuildInv, SteadyInv, Steady, SnapDays
<1>6. Confirmed' = Confirmed /\ Pending' = Pending
  BY <1>2 DEF Confirmed, Pending
<1>7. \/ /\ SnapDays' = SnapDays /\ snap' = snap /\ Before(d) = {} /\ LegWindow(d) = {}
      \/ /\ SnapDays' = SnapDays \cup {d} /\ \A e \in SnapDays : snap'[e] = snap[e]
         /\ \/ /\ Before(d) = {} /\ LegWindow(d) # {} /\ CashCovered(d)
               /\ snap'[d] = FirstRow(d)
            \/ \E p \in Before(d), nav \in Navs : snap'[d] = NextRow(p, d, nav)
  <2>1. CASE BuildNothing
    BY <2>1 DEF BuildNothing, dbvars, SnapDays
  <2>2. CASE BuildFirst
    BY <1>1, <2>2 DEF BuildFirst, Put, SnapDays
  <2>3. CASE BuildNext
    BY <1>1, <2>3 DEF BuildNext, Put, SnapDays
  <2> QED BY <2>1, <2>2, <2>3
<1>8. Before(d) = {} => \A e \in SnapDays : d < e
  BY <1>1, NothingBefore
<1>9. ASSUME Before(d) = {}, LegWindow(d) # {}, CashCovered(d)
      PROVE  startedAt # NoDate /\ startedAt <= d
  BY <1>0, <1>9, FirstLegArrives, FirstFacts
<1>10. ASSUME NEW p \in Before(d)
       PROVE  p \in SnapDays /\ p < d /\ p \in Nat /\ startedAt # NoDate /\ startedAt <= d
  <2>1. p \in SnapDays /\ p < d /\ p \in Nat
    BY <1>1 DEF Before
  <2> QED BY <1>1, <1>5, <2>1, FirstFacts DEF StartedBefore
<1>11. Steady(subs', snap', startedAt', Known(tx'))
  <2>1. FirstWindow(subs, SnapDays')
    BY <1>5, <1>7 DEF FirstWindow
  <2>2. StartedBefore(startedAt, SnapDays')
    BY <1>5, <1>7, <1>9, <1>10 DEF StartedBefore
  <2>3. FirstCash(snap', Known(tx'))
    <3> SUFFICES ASSUME NEW e \in SnapDays', FirstOf(SnapDays', e), e < Known(tx'), snap'[e].nav # 0
                 PROVE  snap'[e].cash > 0
      BY DEF FirstCash, SnapDays
    <3>1. CASE e \in SnapDays
      <4>1. FirstOf(SnapDays, e) /\ snap'[e] = snap[e]
        BY <1>7, <3>1 DEF FirstOf
      <4> QED BY <1>4, <1>5, <3>1, <4>1 DEF FirstCash, SnapDays
    <3>2. CASE e \notin SnapDays
      <4>1. e = d /\ SnapDays' = SnapDays \cup {d}
        BY <1>7, <3>2
      <4>2. Before(d) = {}
        BY <1>1, <1>10, <4>1 DEF FirstOf
      <4>3. snap'[d] = FirstRow(d)
        BY <1>1, <1>7, <4>1, <4>2
      <4>4. CASE CashOn(d) > 0
        BY <4>1, <4>3, <4>4 DEF FirstRow, Snapshot
      <4>5. CASE ~ CashOn(d) > 0
        BY <4>1, <4>3, <4>5 DEF FirstRow, Snapshot
      <4> QED BY <4>4, <4>5
    <3> QED BY <3>1, <3>2
  <2> QED BY <1>2, <1>5, <2>1, <2>2, <2>3 DEF Steady, SnapDays
<1>12. ASSUME tx.kind = "recalc"
       PROVE  Rebuilding'
  <2>0. /\ RowsKept(subs, saved.subs, old) /\ DaysKept(SnapDays, old, tx)
        /\ StartKept /\ Awaited /\ NewcomersPast
    BY <1>12 DEF RebuildInv, Rebuilding
  <2>1. d \in old => d \in SnapDays'
    BY <1>0, <1>7, <1>12, NeverSkipped
  <2>2. DaysKept(SnapDays', old, tx')
    <3>1. \A e \in old : e < d + 1 => e < d \/ e = d
      BY <1>1
    <3>2. d < d + 1 /\ \A e \in SnapDays : e < d => e < d + 1
      BY <1>1
    <3>3. SnapDays \subseteq SnapDays' /\ SnapDays' \subseteq SnapDays \cup {d}
      BY <1>7
    <3> HIDE DEF d, old
    <3> QED BY <1>1, <1>2, <1>3, <2>0, <2>1, <3>1, <3>2, <3>3 DEF DaysKept, d
  <2>3. StartKept' /\ DayCleared'
    BY <1>0, <1>2, <1>12, <2>0 DEF StartKept, DayCleared
  <2>4. Awaited'
    <3>1. DueAfter(d) = {s \in Pending : subs[s].apply <= d}
      BY DEF DueAfter
    <3> SUFFICES ASSUME NEW s \in ConfirmedIn(saved.subs), s \notin Confirmed
                 PROVE  s \in Pending /\ subs[s].apply = d /\ s \in DueAfter(d)
      BY <1>2, <1>6, <1>12 DEF Awaited
    <3>2. s \in Pending /\ subs[s].apply = d
      BY <1>0, <2>0 DEF Awaited
    <3> QED BY <1>1, <3>1, <3>2
  <2>5. NewcomersPast'
    BY <1>2, <1>6, <2>0 DEF NewcomersPast
  <2>6. DayPriced'
    <3>1. \A s \in tx'.todo : subs[s].apply <= d
      BY <1>2, <1>12 DEF DueAfter
    <3>2. d \in SnapDays' \/ \A e \in SnapDays' : d < e
      BY <1>7, <1>8
    <3>3. ASSUME d \in SnapDays', snap'[d].nav = 0, NEW s \in ArrivalsIn(saved.subs),
                 saved.subs[s].apply = d
          PROVE  FALSE
      <4>1. CASE \E p \in Before(d), nav \in Navs : snap'[d] = NextRow(p, d, nav)
        BY <3>3, <4>1, QuantityAssumption DEF NextRow, Snapshot, Par
      <4>2. CASE Before(d) = {} /\ LegWindow(d) # {} /\ CashCovered(d) /\ snap'[d] = FirstRow(d)
        <5>1. CashOn(d) > 0
          BY <1>0, <1>12, <3>3, <4>2, FirstPriced
        <5>2. snap'[d].nav = Par
          BY <4>2, <5>1 DEF FirstRow, Snapshot
        <5> QED BY <3>3, <5>2, QuantityAssumption DEF Par
      <4> QED BY <1>1, <1>7, <3>3, <4>1, <4>2
    <3> HIDE DEF d
    <3> QED BY <1>2, <3>1, <3>2, <3>3 DEF DayPriced
  <2> QED BY <1>2, <2>0, <2>2, <2>3, <2>4, <2>5, <2>6 DEF Rebuilding
<1>13. Rebuilding'
  BY <1>2, <1>12 DEF Rebuilding
<1> QED BY <1>0, <1>2, <1>11, <1>13, InsideRebuild

-----------------------------------------------------------------------------
(* The end of a transaction                                                *)

LEMMA CommitRebuild ==
    ASSUME LedgerInv, ChainInv, BookInv, RebuildInv, LedgerInv', Commit
    PROVE  RebuildInv'
<1>1. Idle' /\ UNCHANGED <<subs, snap, startedAt>>
  BY DEF Commit, dbvars, Idle
<1>2. /\ Within(SnapDays, tx.end)
      /\ tx.day <= tx.end /\ (tx.kind # "recalc" => tx.day = tx.end)
  BY DEF Commit, DaysDone, ChainInv, ChainOK
<1>3. \A d \in SnapDays : d < Reached(tx)
  BY <1>2, Facts DEF Commit, DaysDone, ChainInv, ChainOK, Reached, Within
<1>4. \A d \in SnapDays : d < Known(tx)
  BY <1>3, Facts DEF Known
<1>5. Steady(subs, snap, startedAt, Known(tx))
  BY DEF RebuildInv, SteadyInv
<1>6. Steady(subs, snap, startedAt, LastDay + 1)
  BY <1>4, <1>5 DEF Steady, FirstCash, SnapDays
<1> QED BY <1>1, <1>6, IdleRebuild

LEMMA RollbackRebuild ==
    ASSUME RebuildInv, LedgerInv', Rollback
    PROVE  RebuildInv'
<1>1. /\ ~Idle /\ Idle' /\ subs' = saved.subs /\ snap' = saved.snap
      /\ startedAt' = saved.startedAt
  BY DEF Rollback, Idle
<1>2. Steady(saved.subs, saved.snap, saved.startedAt, LastDay + 1)
  BY <1>1 DEF RebuildInv, SteadyInv
<1> QED BY <1>1, <1>2, IdleRebuild

LEMMA RebuildInit == Init => RebuildInv
<1> SUFFICES ASSUME Init PROVE RebuildInv
  OBVIOUS
<1>1. Idle /\ DOMAIN subs = {} /\ DOMAIN snap = {} /\ tx.kind # "recalc"
  BY DEF Init, EmptyTable, Idle, NoTx
<1>2. ArrivalsIn(subs) = {}
  BY <1>1 DEF ArrivalsIn, ConfirmedIn
<1> QED BY <1>1, <1>2
       DEF RebuildInv, SteadyInv, Steady, Sound, FirstWindow, StartedBefore, FirstCash, Rebuilding

LEMMA RebuildNext ==
    ASSUME Disciplined, LedgerInv, ChainInv, BookInv, RebuildInv, LedgerInv', [Next]_vars
    PROVE  RebuildInv'
<1>1. CASE UNCHANGED vars
  <2>1. UNCHANGED <<subs, startedAt, snap, tx, saved>>
    BY <1>1 DEF vars
  <2>2. SteadyInv'
    BY <2>1 DEF RebuildInv, SteadyInv, Idle
  <2>3. tx.kind = "recalc" =>
          /\ RowsKept(subs, saved.subs, DOMAIN saved.snap)'
          /\ DaysKept(SnapDays, DOMAIN saved.snap, tx)'
          /\ StartKept' /\ DayCleared' /\ Awaited' /\ NewcomersPast' /\ DayPriced'
    BY <2>1 DEF RebuildInv, Rebuilding, RowsKept, DaysKept, StartKept, DayCleared, Awaited,
         NewcomersPast, DayPriced, SnapDays, Confirmed, Pending, PricedBy, NoPendingDue
  <2> QED BY <2>1, <2>2, <2>3 DEF RebuildInv, Rebuilding
<1>2. CASE TxStep
  <2>1. CASE \E s \in SubIds : AutoConfirm(s) \/ AutoConfirmRefused(s)
    BY <2>1, AutoConfirmRebuild
  <2> QED BY <1>2, <2>1, MoveOnRebuild, ClearRebuild, CheckDayRebuild, BuildRebuild, CommitRebuild,
             RollbackRebuild DEF TxStep
<1> QED BY <1>1, <1>2, RequestRebuild, SnapshotRequestRebuild DEF Next

\* Between the steps of a recalculation, what was confirmed before it began still is,
\* or waits for the price of the day that is being rebuilt.
THEOREM RebuildInvariant == ASSUME Disciplined PROVE Spec => []RebuildInv
<1>1. LedgerInv /\ ChainInv /\ BookInv /\ RebuildInv /\ LedgerInv' /\ [Next]_vars => RebuildInv'
  BY RebuildNext
<1> QED BY RebuildInit, <1>1, LedgerInvariant, ChainInvariant, BookInvariant, PTL DEF Spec

\* A recalculation that commits has confirmed again whatever its cascade took back:
\* no automatic confirmation of it is refused, no day it had is skipped, and no day
\* loses the price a subscription needs (recalculate_snapshots,
\* auto_confirm_after_snapshot).
THEOREM RecalcAlwaysReconfirms == ASSUME Disciplined PROVE Spec => RecalcReconfirms
<1>1. ChainInv /\ RebuildInv =>
        [ Commit /\ tx.kind = "recalc"
            => \A s \in DOMAIN saved.subs :
                   saved.subs[s].status = "confirmed" => s \in Confirmed ]_vars
  <2>1. ASSUME ChainInv, RebuildInv, Commit, tx.kind = "recalc",
               NEW s \in DOMAIN saved.subs, saved.subs[s].status = "confirmed"
        PROVE  s \in Confirmed
    <3>1. Awaited /\ s \in ConfirmedIn(saved.subs)
      BY <2>1 DEF RebuildInv, Rebuilding, ConfirmedIn
    <3>2. tx.phase = "precheck" \/ (tx.phase = "after" /\ tx.todo = {})
      BY <2>1 DEF Commit, DaysDone, ChainInv, ChainOK
    <3> QED BY <3>1, <3>2 DEF Awaited
  <2> QED BY <2>1
<1> QED BY <1>1, ChainInvariant, RebuildInvariant, PTL DEF RecalcReconfirms
=============================================================================
