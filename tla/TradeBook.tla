----------------------------- MODULE TradeBook -----------------------------
(***************************************************************************)
(* The asset side of one portfolio: rebalancing trades of a fund, cash     *)
(* transfers between platforms, and the daily snapshots that add their     *)
(* legs up.                                                                *)
(*                                                                         *)
(* A group is one rebalancing (its name starts with rebal_) or one         *)
(* transfer.  Its legs are rows of the table trade, by role: "fund", and   *)
(* of product CASH "out" (sell) and "in" (buy).  A purchase has fund and   *)
(* out, a sale fund and, once confirmed, in, a transfer out and in.  The   *)
(* fund is an OTC fund that trades at par without fees, so a quantity is   *)
(* at once cash and shares and no step may change what the portfolio is    *)
(* worth.                                                                  *)
(***************************************************************************)
EXTENDS Chain

CONSTANTS
    Rebals,         \* groups of rebalancing trades
    Transfers,      \* groups of cash transfers
    Platforms,      \* platform codes
    ConfirmDays,    \* product.confirm_days: trading days from order to confirmation
    Quantities,     \* the quantities requests carry
    OpeningCash,    \* cash of each platform on day 0
    OpeningShares   \* fund shares of each platform on day 0

Groups == Rebals \cup Transfers
LegIds == Groups \X {"fund", "out", "in"}

ASSUME GroupAssumption == Rebals \cap Transfers = {}
ASSUME PlatformAssumption == IsFiniteSet(Platforms)
ASSUME ConfirmDaysAssumption == ConfirmDays \in Nat
ASSUME QuantityAssumption == Quantities \subseteq Nat \ {0}
ASSUME OpeningAssumption ==
    OpeningCash \in [Platforms -> Nat] /\ OpeningShares \in [Platforms -> Nat]

VARIABLES
    legs,       \* table trade: group and role -> row
    saved       \* the committed database a rollback of tx restores

vars == <<legs, snap, today, tx, saved>>

-----------------------------------------------------------------------------
(* Rows                                                                    *)

Leg == [type : {"buy", "sell"}, platform : Platforms, qty : Quantities,
        trade : TradingDays, confirm : TradingDays,
        status : {"pending", "confirmed", "cancelled"}]

Row(type, p, q, t, c, status) ==
    [type |-> type, platform |-> p, qty |-> q, trade |-> t, confirm |-> c,
     status |-> status]

\* cash, shares and transit are the CASH, fund and in-transit rows of the day,
\* by platform (money in transit belongs to the platform of its cash leg).
\* lost and dropped are history: what the build of the day left out because a
\* transfer was confirmed ahead of its arrival, and the shares sold so far
\* beyond those a platform had.
Snapshot(cash, shares, transit, lost, dropped) ==
    [cash |-> cash, shares |-> shares, transit |-> transit, lost |-> lost,
     dropped |-> dropped]

Opening ==
    LET none == [p \in Platforms |-> 0]
    IN  Snapshot(OpeningCash, OpeningShares, none, 0, none)

DB == [legs |-> legs, snap |-> snap]
NoDB == <<>>

-----------------------------------------------------------------------------
(* Queries                                                                 *)

LegsIn(table, g) == {k \in DOMAIN table : k[1] = g}
LegsOf(g) == LegsIn(legs, g)
WithRole(r) == {k \in DOMAIN legs : k[2] = r}
Pending == {k \in DOMAIN legs : legs[k].status = "pending"}
Confirmed == {k \in DOMAIN legs : legs[k].status = "confirmed"}

Total(S) == SumFunctionOnSet([k \in S |-> legs[k].qty], S)

\* calculate_available_cash, of one platform or of several: a purchase counts
\* from its confirm date, a sale already from its trade date, pending or confirmed
CashOfPlatforms(ps, asOf) ==
    LET base == LastSnapUpTo(asOf)
        own == {k \in DOMAIN legs : legs[k].platform \in ps}
        in == {k \in WithRole("in") \cap Confirmed \cap own :
                  base < legs[k].confirm /\ legs[k].confirm <= asOf}
        out == {k \in WithRole("out") \cap own :
                  /\ legs[k].trade <= asOf
                  /\ \/ legs[k].status = "pending"
                     \/ legs[k].status = "confirmed" /\ base < legs[k].confirm}
    IN  SumFunctionOnSet(snap[base].cash, ps) + Total(in) - Total(out)
AvailableCash(p, asOf) == CashOfPlatforms({p}, asOf)

\* calculate_available_shares: over all platforms; the base is the last day with
\* a position of the fund
AvailableShares(asOf) ==
    LET held(d) == SumFunctionOnSet(snap[d].shares, Platforms)
        rows == {d \in SnapDays : d <= asOf /\ held(d) > 0}
        base == LastSnapUpTo(asOf)
        sells == {k \in WithRole("fund") : legs[k].type = "sell"}
        sold == {k \in sells \cap Confirmed :
                    base < legs[k].confirm /\ legs[k].confirm <= asOf}
    IN  (IF rows = {} THEN 0 ELSE held(Max(rows)))
            - Total(sells \cap Pending) - Total(sold)

\* validate_buy_cash_with_addback, validate_sell_shares_with_addback: the
\* group's own legs do not count against it
CashCovers(g, q, asOf) ==
    LET k == <<g, "out">>
        own == IF legs[k].status # "cancelled" /\ legs[k].trade <= asOf
               THEN legs[k].qty ELSE 0
    IN  q <= AvailableCash(legs[k].platform, asOf) + own
SharesCover(g, q, asOf) == q <= AvailableShares(asOf) + legs[<<g, "fund">>].qty

\* Mutant: only the fund leg's own date is looked at
FundLegFree(g, dates) ==
    \A k \in LegsOf(g) : k[2] = "fund" => AfterLatest(legs[k].confirm)

\* validate_group_snapshot_free
GroupFree(g, dates) ==
    /\ \A k \in LegsOf(g) \ {k \in DOMAIN legs : legs[k].status = "cancelled"} :
          AfterLatest(legs[k].confirm)
    /\ \A d \in dates : AfterLatest(d)

-----------------------------------------------------------------------------
(* Requests of trade_service                                               *)

Request == Idle /\ UNCHANGED <<snap, today, tx, saved>>

PendingFund(g, type) ==
    /\ <<g, "fund">> \in Pending /\ legs[<<g, "fund">>].type = type

Orderable(d) == d \in TradingDays /\ AfterLatest(d)

\* the debit leg of a purchase is confirmed on the order day itself
CreateBuy(g, p, from, d, q) ==
    /\ Request /\ LegsOf(g) = {} /\ Orderable(d)
    /\ q <= AvailableCash(from, d)
    /\ \E c \in TradingDays :
         /\ IsTradingDaysAfter(d, ConfirmDays, c)
         /\ legs' = Put(Put(legs, <<g, "fund">>, Row("buy", p, q, d, c, "pending")),
                        <<g, "out">>, Row("sell", from, q, d, d, "confirmed"))

CreateSell(g, p, d, q) ==
    /\ Request /\ LegsOf(g) = {} /\ Orderable(d)
    /\ q <= AvailableShares(d)
    /\ \E c \in TradingDays :
         /\ IsTradingDaysAfter(d, ConfirmDays, c)
         /\ legs' = Put(legs, <<g, "fund">>, Row("sell", p, q, d, c, "pending"))

\* DUPLICATE_TRADE: another order of g's kind, day and quantity is in place
Repeated(g, d, q) ==
    LET fund == legs[<<g, "fund">>]
    IN  \E k \in WithRole("fund") \ {<<g, "fund">>} :
            /\ legs[k].status # "cancelled" /\ legs[k].trade = d /\ legs[k].qty = q
            /\ legs[k].type = fund.type /\ legs[k].platform = fund.platform

\* the fund leg takes date and amount, and the debit leg follows
UpdatedLegs(g, d, c, q) ==
    [k \in DOMAIN legs |->
        CASE k = <<g, "fund">> -> [legs[k] EXCEPT !.trade = d, !.confirm = c, !.qty = q]
          [] k = <<g, "out">> -> [legs[k] EXCEPT !.trade = d, !.confirm = d, !.qty = q]
          [] OTHER -> legs[k]]

\* update_trade of a pending trade
UpdateTrade(g, d, q) ==
    /\ Request /\ <<g, "fund">> \in Pending
    /\ LET fund == legs[<<g, "fund">>]
           moved == d # fund.trade
       IN  \E c \in TradingDays :
             /\ IF moved THEN Orderable(d) /\ IsTradingDaysAfter(d, ConfirmDays, c)
                ELSE c = fund.confirm
             /\ GroupFree(g, IF moved THEN {d, c} ELSE {})
             /\ IF fund.type = "buy" THEN CashCovers(g, q, d) ELSE SharesCover(g, q, d)
             /\ moved \/ q # fund.qty => ~Repeated(g, d, q)
             /\ legs' = UpdatedLegs(g, d, c, q)

\* Mutant: the credit may arrive on a holiday
ArrivalAnyDay(c, a) == a >= c

\* resolve_cash_leg_plan: the confirm date c a confirmation asks for, and the day
\* a on which the credit of a sale arrives
PlanAllows(fund, c) == c \in TradingDays /\ c >= fund.trade /\ AfterLatest(c)
ArrivalAllowed(c, a) == a \in TradingDays /\ a >= c

\* calculate_confirm_preview: the price is that of the order day
Confirmable(g, c) ==
    legs[<<g, "fund">>].trade <= today /\ PlanAllows(legs[<<g, "fund">>], c)

\* the purchase verifies its debit leg, and corrects one that differs
ConfirmBuy(g, c) ==
    /\ Request /\ PendingFund(g, "buy") /\ Confirmable(g, c)
    /\ LET fund == legs[<<g, "fund">>]
           out == legs[<<g, "out">>]
           fixed == [out EXCEPT !.status = "confirmed", !.qty = fund.qty]
       IN  /\ CashCovers(g, fund.qty, c)
           /\ out # fixed => AfterLatest(fund.trade)
           /\ legs' = [legs EXCEPT ![<<g, "fund">>].status = "confirmed",
                                   ![<<g, "fund">>].confirm = c,
                                   ![<<g, "out">>] = fixed]

\* the sale creates its credit leg, arriving on platform "to" on day a
ConfirmSell(g, c, to, a) ==
    /\ Request /\ PendingFund(g, "sell") /\ Confirmable(g, c)
    /\ ArrivalAllowed(c, a)
    /\ LET fund == legs[<<g, "fund">>]
       IN  /\ SharesCover(g, fund.qty, c)
           /\ legs' = Put([legs EXCEPT ![<<g, "fund">>].status = "confirmed",
                                       ![<<g, "fund">>].confirm = c],
                          <<g, "in">>, Row("buy", to, fund.qty, c, a, "confirmed"))

\* _update_confirmed_sell_arrival_date
UpdateArrival(g, a) ==
    /\ Request /\ <<g, "fund">> \in Confirmed /\ <<g, "in">> \in DOMAIN legs
    /\ ArrivalAllowed(legs[<<g, "fund">>].confirm, a)
    /\ GroupFree(g, {a})
    /\ legs' = [legs EXCEPT ![<<g, "in">>].confirm = a]

CancelTrade(g) ==
    /\ Request /\ <<g, "fund">> \in Pending /\ GroupFree(g, {})
    /\ legs' = [k \in DOMAIN legs \ {<<g, "in">>} |->
                  IF k[1] = g THEN [legs[k] EXCEPT !.status = "cancelled"] ELSE legs[k]]

\* Mutant: the credit leg of a sale survives
UnconfirmKeepingLegs(g) ==
    /\ Request /\ <<g, "fund">> \in Confirmed /\ GroupFree(g, {})
    /\ \E c \in TradingDays :
         /\ IsTradingDaysAfter(legs[<<g, "fund">>].trade, ConfirmDays, c)
         /\ legs' = [legs EXCEPT ![<<g, "fund">>].status = "pending",
                                 ![<<g, "fund">>].confirm = c]

\* the debit leg of a purchase stays confirmed, the credit leg of a sale goes
UnconfirmTrade(g) ==
    /\ Request /\ <<g, "fund">> \in Confirmed /\ GroupFree(g, {})
    /\ \E c \in TradingDays :
         /\ IsTradingDaysAfter(legs[<<g, "fund">>].trade, ConfirmDays, c)
         /\ legs' = Drop([legs EXCEPT ![<<g, "fund">>].status = "pending",
                                      ![<<g, "fund">>].confirm = c], {<<g, "in">>})

DeleteTrade(g) ==
    /\ Request /\ <<g, "fund">> \in DOMAIN legs \ Confirmed /\ GroupFree(g, {})
    /\ legs' = Drop(legs, LegsOf(g))

-----------------------------------------------------------------------------
(* Requests of cash_transfer_service                                       *)

\* the receiving leg of a cross-day transfer waits for the next trading day
Arrives(d, crossDay, a) ==
    IF crossDay THEN IsTradingDaysAfter(d, 1, a) ELSE a = d

CreateTransfer(g, from, to, d, q, crossDay) ==
    /\ Request /\ LegsOf(g) = {} /\ from # to /\ Orderable(d)
    /\ q <= AvailableCash(from, d)
    /\ \E a \in TradingDays :
         /\ Arrives(d, crossDay, a)
         /\ legs' = Put(Put(legs, <<g, "out">>, Row("sell", from, q, d, d, "confirmed")),
                        <<g, "in">>, Row("buy", to, q, d, a,
                                         IF crossDay THEN "pending" ELSE "confirmed"))

ConfirmLegs(S) ==
    legs' = [k \in DOMAIN legs |->
               IF k \in S THEN [legs[k] EXCEPT !.status = "confirmed"] ELSE legs[k]]

\* the confirm date of whichever pending leg comes first decides
ConfirmTransfer(g) ==
    /\ Request
    /\ \E k \in LegsOf(g) \cap Pending : legs[k].confirm <= today
    /\ ConfirmLegs(LegsOf(g) \cap Pending)

SetStatus(g, status) ==
    legs' = [k \in DOMAIN legs |->
               IF k[1] = g THEN [legs[k] EXCEPT !.status = status] ELSE legs[k]]

\* money that has arrived must still be there to go back
CancelTransfer(g) ==
    /\ Request /\ LegsOf(g) # {}
    /\ \A k \in LegsOf(g) : legs[k].status # "cancelled"
    /\ GroupFree(g, {})
    /\ LET in == legs[<<g, "in">>]
       IN  in.status = "confirmed" => in.qty <= AvailableCash(in.platform, LastDay)
    /\ SetStatus(g, "cancelled")

\* the trade endpoints accept the legs of a transfer too: they guard rebal_
\* groups only (_is_rebal_group_cash_leg), and carry the status over to the pair
UnconfirmTransferLeg(g, r) ==
    /\ Request /\ <<g, r>> \in Confirmed /\ GroupFree(g, {})
    /\ SetStatus(g, "pending")

ConfirmTransferLeg(g, r) ==
    /\ Request /\ <<g, r>> \in Pending
    /\ ConfirmLegs({<<g, r>>})

CancelTransferLeg(g, r) ==
    /\ Request /\ <<g, r>> \in Pending /\ GroupFree(g, {})
    /\ SetStatus(g, "cancelled")

DeleteTransferLeg(g, r) ==
    /\ Request /\ <<g, r>> \in DOMAIN legs \ Confirmed /\ GroupFree(g, {})
    /\ legs' = Drop(legs, LegsOf(g))

-----------------------------------------------------------------------------
(* Building a day                                                          *)

\* Mutant: a purchase is in transit only while its fund leg is pending
TransitWhilePending(d) ==
    {k \in WithRole("out") \cap Confirmed :
        k[1] \in Rebals /\ legs[k].confirm <= d /\ <<k[1], "fund">> \in Pending}

\* _compute_in_transit_amounts: paid purchases without shares yet, confirmed
\* sales without cash yet, transfers under way
BuyTransit(d) ==
    {k \in WithRole("out") \cap Confirmed :
        /\ k[1] \in Rebals /\ legs[k].confirm <= d
        /\ \/ <<k[1], "fund">> \in Pending
           \/ <<k[1], "fund">> \in Confirmed /\ legs[<<k[1], "fund">>].confirm > d}
SellTransit(d) ==
    {k \in WithRole("in") :
        /\ k[1] \in Rebals /\ legs[k].status # "cancelled"
        /\ k \in Pending \/ legs[k].confirm > d
        /\ <<k[1], "fund">> \in Confirmed /\ legs[<<k[1], "fund">>].confirm <= d}
SentBy(d) ==
    {k \in WithRole("in") :
        /\ k[1] \in Transfers /\ <<k[1], "out">> \in Confirmed
        /\ legs[<<k[1], "out">>].confirm <= d}
TransferTransit(d) == SentBy(d) \cap Pending
ConfirmedAhead(d) == {k \in SentBy(d) \cap Confirmed : legs[k].confirm > d}

TransitRows(d) ==
    LET under == BuyTransit(d) \cup SellTransit(d) \cup TransferTransit(d)
    IN  [p \in Platforms |-> Total({k \in under : legs[k].platform = p})]

\* the confirmed legs of role r on platform p after day b and up to day d
Window(r, p, b, d) ==
    {k \in WithRole(r) \cap Confirmed :
        legs[k].platform = p /\ b < legs[k].confirm /\ legs[k].confirm <= d}

CashOn(p, b, d) ==
    snap[b].cash[p] + Total(Window("in", p, b, d)) - Total(Window("out", p, b, d))
NetShares(p, b, d) ==
    LET sold == {k \in Window("fund", p, b, d) : legs[k].type = "sell"}
    IN  snap[b].shares[p] + Total(Window("fund", p, b, d) \ sold) - Total(sold)

\* a position at or below zero gets no row, without a message
DayRow(b, d) ==
    LET short(p) == IF NetShares(p, b, d) < 0 THEN -NetShares(p, b, d) ELSE 0
    IN  Snapshot([p \in Platforms |-> CashOn(p, b, d)],
                 [p \in Platforms |-> NetShares(p, b, d) + short(p)],
                 TransitRows(d),
                 Total(ConfirmedAhead(d)),
                 [p \in Platforms |-> snap[b].dropped[p] + short(p)])

\* Mutant: a leg due on the day itself may still be pending
NoPendingOverdue(d) == \A k \in Pending : d <= legs[k].confirm

\* _check_pending_transactions
NoPendingDue(d) == \A k \in Pending : d < legs[k].confirm

Covered(row) == \A p \in Platforms : row.cash[p] >= 0    \* NEGATIVE_CASH
Priced(row, d) == (\E p \in Platforms : row.shares[p] > 0) => d <= today

Build(d) ==
    /\ d \in TradingDays /\ NoPendingDue(d)
    /\ LET row == DayRow(LastSnapUpTo(d - 1), d)
       IN  Covered(row) /\ Priced(row, d) /\ snap' = Put(snap, d, row)

\* auto_confirm_after_snapshot: transfers that arrive on the next trading day,
\* once that day has come
ConfirmArrivals(d) ==
    LET due(k) == /\ k[1] \in Transfers /\ legs[k].confirm <= today
                  /\ IsTradingDaysAfter(d, 1, legs[k].confirm)
    IN  ConfirmLegs({k \in Pending : \E j \in LegsOf(k[1]) \cap Pending : due(j)})

-----------------------------------------------------------------------------
(* Requests on snapshots                                                   *)

\* POST /snapshots/generate, which confirms nothing afterwards
Generate(d) ==
    /\ Idle /\ FollowsChain(d) /\ Build(d)
    /\ UNCHANGED <<legs, today, tx, saved>>

\* the next day of a catch-up or of the scheduled task
Advance(d) ==
    /\ Idle /\ FollowsChain(d) /\ d \notin SnapDays
    /\ Build(d) /\ ConfirmArrivals(d)
    /\ UNCHANGED <<today, tx, saved>>

\* the scheduled task with no day to generate
ConfirmOnly ==
    /\ Idle /\ \E l \in SnapDays : IsLatest(l) /\ ConfirmArrivals(l)
    /\ UNCHANGED <<snap, today, tx, saved>>

\* DELETE of any one day of the chain, later days left in place, and each day of
\* the bulk deletion, which takes the latest first and commits day by day
DeleteDay(d) ==
    /\ Idle /\ d # NoDate /\ d \in SnapDays
    /\ snap' = Drop(snap, {d})
    /\ UNCHANGED <<legs, today, tx, saved>>

BeginRecalculate(start) ==
    Begins(start) /\ saved' = DB /\ UNCHANGED <<legs, snap, today>>

RecalcDay ==
    /\ AtTradingDay /\ Build(tx.day) /\ ConfirmArrivals(tx.day) /\ NextInTx
    /\ UNCHANGED <<today, saved>>

RecalcSkipDay == AtHoliday /\ NextInTx /\ UNCHANGED <<legs, snap, today, saved>>

Commit ==
    /\ AtEnd /\ tx' = NoTx /\ saved' = NoDB
    /\ UNCHANGED <<legs, snap, today>>

\* whatever fails on the way, the whole recalculation is rolled back
Rollback ==
    /\ ~Idle
    /\ legs' = saved.legs /\ snap' = saved.snap
    /\ tx' = NoTx /\ saved' = NoDB
    /\ UNCHANGED today

NewDay == today < LastDay /\ today' = today + 1 /\ UNCHANGED <<legs, snap, tx, saved>>

-----------------------------------------------------------------------------
Init ==
    /\ legs = [k \in {} |-> NoDate]
    /\ snap = [d \in {0} |-> Opening]
    /\ today = 0 /\ tx = NoTx /\ saved = NoDB

TradeRequest ==
    \/ \E g \in Rebals, d \in TradingDays, q \in Quantities :
         \/ \E p, from \in Platforms : CreateBuy(g, p, from, d, q)
         \/ \E p \in Platforms : CreateSell(g, p, d, q)
         \/ UpdateTrade(g, d, q)
    \/ \E g \in Rebals, c \in Days :
         \/ ConfirmBuy(g, c) \/ UpdateArrival(g, c)
         \/ \E a \in Days, to \in Platforms : ConfirmSell(g, c, to, a)
    \/ \E g \in Rebals : CancelTrade(g) \/ UnconfirmTrade(g) \/ DeleteTrade(g)

TransferRequest ==
    \/ \E g \in Transfers, from, to \in Platforms, d \in TradingDays,
          q \in Quantities, crossDay \in BOOLEAN :
         CreateTransfer(g, from, to, d, q, crossDay)
    \/ \E g \in Transfers : ConfirmTransfer(g) \/ CancelTransfer(g)
    \/ \E g \in Transfers, r \in {"out", "in"} :
         \/ UnconfirmTransferLeg(g, r) \/ ConfirmTransferLeg(g, r)
         \/ CancelTransferLeg(g, r) \/ DeleteTransferLeg(g, r)

SnapshotRequest ==
    \/ \E d \in TradingDays : Generate(d) \/ Advance(d) \/ DeleteDay(d)
    \/ \E d \in Days : BeginRecalculate(d)
    \/ ConfirmOnly \/ RecalcDay \/ RecalcSkipDay \/ Commit \/ Rollback

Next == TradeRequest \/ TransferRequest \/ SnapshotRequest \/ NewDay

Spec == Init /\ [][Next]_vars

-----------------------------------------------------------------------------
(* Properties                                                              *)

IsDatabase(db) ==
    /\ DOMAIN db.legs \subseteq LegIds /\ db.legs \in [DOMAIN db.legs -> Leg]
    /\ DOMAIN db.snap \subseteq TradingDays \cup {0} /\ 0 \in DOMAIN db.snap

\* Every leg is a row of its type, snapshots lie on trading days, and a rollback
\* restores such tables.
TypeOK ==
    /\ IsDatabase(DB) /\ today \in 0..LastDay
    /\ tx \in [day : 0..LastDay + 1, end : 0..LastDay]
    /\ IF Idle THEN saved = NoDB ELSE IsDatabase(saved)

\* Whatever requests, updates and reversals a group went through, its legs belong
\* together: a purchase has paid on its order day what its fund leg buys, a sale
\* has a credit leg exactly when it is confirmed, dated after it and for its
\* amount, and the two legs of a transfer are cancelled together or not at all
\* (sync_transfer_group, _apply_confirm_cash_leg).
PurchaseConsistent(table, g) ==
    LET fund == table[<<g, "fund">>]
        out == table[<<g, "out">>]
    IN  /\ LegsIn(table, g) = {<<g, "fund">>, <<g, "out">>} /\ fund.qty = out.qty
        /\ out.confirm = fund.trade /\ out.trade = fund.trade /\ fund.trade <= fund.confirm
        /\ out.status = (IF fund.status = "cancelled" THEN "cancelled" ELSE "confirmed")
SaleConsistent(table, g) ==
    LET fund == table[<<g, "fund">>]
        in == table[<<g, "in">>]
    IN  IF fund.status = "confirmed"
        THEN /\ LegsIn(table, g) = {<<g, "fund">>, <<g, "in">>} /\ fund.qty = in.qty
             /\ in.status = "confirmed" /\ in.trade = fund.confirm
             /\ fund.trade <= fund.confirm /\ fund.confirm <= in.confirm
        ELSE LegsIn(table, g) = {<<g, "fund">>}
TransferConsistent(table, g) ==
    LET in == table[<<g, "in">>]
        out == table[<<g, "out">>]
    IN  /\ LegsIn(table, g) = {<<g, "out">>, <<g, "in">>} /\ out.qty = in.qty
        /\ out.confirm = out.trade /\ in.trade = out.trade /\ out.trade <= in.confirm
        /\ in.platform # out.platform
        /\ in.status = "cancelled" <=> out.status = "cancelled"
Consistent(table) ==
    \A g \in Groups : LegsIn(table, g) # {} =>
        IF g \in Transfers THEN TransferConsistent(table, g)
        ELSE IF table[<<g, "fund">>].type = "buy" THEN PurchaseConsistent(table, g)
        ELSE SaleConsistent(table, g)
GroupsConsistent == Consistent(legs)

\* What a snapshot day has passed is never pending, so the check for pending
\* trades does not block a rebuild of days that once were built.  One exception:
\* a sale confirmed for a later day than proposed falls back to the proposed day
\* when the confirmation is withdrawn (unconfirm_trade), which may lie behind.
WithdrawnSale(k) == k[2] = "fund" /\ legs[k].type = "sell"
PendingLiesAhead ==
    Idle => \A k \in Pending : AfterLatest(legs[k].confirm) \/ WithdrawnSale(k)

Sum(f) == SumFunctionOnSet(f, Platforms)
Value(row) == Sum(row.cash) + Sum(row.shares) + Sum(row.transit)

\* At par, what the portfolio is worth never moves, between whichever days its
\* legs fall: the rows in transit bridge them exactly.  What snapshots do lose
\* or gain is only what two recorded slips explain: transfers confirmed ahead of
\* their arrival, and shares sold that a platform did not have.
ValueKept ==
    Idle => \A d \in SnapDays :
        Value(snap[d]) + snap[d].lost
            = Sum(OpeningCash) + Sum(OpeningShares) + Sum(snap[d].dropped)

\* As long as no transfer is confirmed before the day it arrives, a cross-day
\* transfer leaves the value of the day it is sent unchanged: the amount is in
\* transit until it arrives (business-constraints: the asymmetric status keeps
\* the value of the sending day from dropping).
TransferKeepsValue ==
    (\A k \in WithRole("in") \cap Confirmed :
        k[1] \in Transfers => legs[k].confirm <= today)
    => \A d \in SnapDays : Value(snap[d]) >= Sum(OpeningCash) + Sum(OpeningShares)

\* Sales that passed the check for available shares never sell more than there
\* is: the check is there to keep accepted sales from becoming an oversale.
NothingOversold == \A d \in SnapDays : Sum(snap[d].dropped) = 0
=============================================================================
