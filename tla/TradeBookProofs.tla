-------------------------- MODULE TradeBookProofs --------------------------
(* What TradeBook promises for every calendar, any number of groups and      *)
(* platforms and all quantities: the legs of a group belong together,        *)
(* nothing pending lies where snapshots have passed, and every row of every  *)
(* snapshot adds up the legs its day has counted; and what TradeViews        *)
(* derives from these books, down to the pages of the list of trades.        *)
EXTENDS TradeViews, ChainProofs, Sums, SequenceTheorems

-----------------------------------------------------------------------------
(* The inductive invariant                                                 *)

\* A pending leg does not block the rebuild of a day of the chain.
AheadOf(days, k, row) ==
    row.status = "pending" =>
        (\A d \in days : d < row.confirm) \/ (k[2] = "fund" /\ row.type = "sell")

\* A table of legs in front of a chain with the given days.
TableOK(table, days) ==
    /\ DOMAIN table \subseteq LegIds /\ table \in [DOMAIN table -> Leg]
    /\ Consistent(table)
    /\ \A k \in DOMAIN table : AheadOf(days, k, table[k])

\* What holds of the tables holds of those a rollback restores.
IInv ==
    /\ TypeOK
    /\ TableOK(legs, SnapDays)
    /\ ~Idle => TableOK(saved.legs, DOMAIN saved.snap)

-----------------------------------------------------------------------------
(* Keys, rows and days                                                     *)

LEMMA Keys ==
    /\ \A k \in LegIds : /\ k = <<k[1], k[2]>> /\ k[1] \in Groups
                         /\ k[2] \in {"fund", "out", "in"}
    /\ \A g, r : <<g, r>>[1] = g /\ <<g, r>>[2] = r
    /\ \A g \in Groups, r \in {"fund", "out", "in"} : <<g, r>> \in LegIds
BY DEF LegIds

\* Writes to the legs of one group leave the others as they are.
LEMMA Rewritten ==
    ASSUME NEW table, NEW new, NEW days, NEW g \in Groups,
           TableOK(table, days),
           DOMAIN new \subseteq LegIds, new = [k \in DOMAIN new |-> new[k]],
           \A k \in DOMAIN new : k[1] # g => k \in DOMAIN table /\ new[k] = table[k],
           \A k \in DOMAIN table : k[1] # g => k \in DOMAIN new,
           \A k \in LegsIn(new, g) : new[k] \in Leg /\ AheadOf(days, k, new[k]),
           LegsIn(new, g) # {} =>
               IF g \in Transfers THEN TransferConsistent(new, g)
               ELSE IF new[<<g, "fund">>].type = "buy" THEN PurchaseConsistent(new, g)
               ELSE SaleConsistent(new, g)
    PROVE  TableOK(new, days)
<1>1. \A k \in DOMAIN new : new[k] \in Leg /\ AheadOf(days, k, new[k])
  BY DEF TableOK, LegsIn
<1>2. ASSUME NEW h \in Groups, h # g, LegsIn(new, h) # {}
      PROVE  IF h \in Transfers THEN TransferConsistent(new, h)
             ELSE IF new[<<h, "fund">>].type = "buy" THEN PurchaseConsistent(new, h)
             ELSE SaleConsistent(new, h)
  <2>1. LegsIn(new, h) = LegsIn(table, h)
    BY <1>2 DEF LegsIn
  <2>2. \A k \in LegsIn(table, h) : new[k] = table[k]
    BY <1>2, <2>1 DEF LegsIn
  <2>3. IF h \in Transfers THEN TransferConsistent(table, h)
        ELSE IF table[<<h, "fund">>].type = "buy" THEN PurchaseConsistent(table, h)
        ELSE SaleConsistent(table, h)
    BY <1>2, <2>1 DEF TableOK, Consistent
  <2>4. CASE h \in Transfers
    BY <2>1, <2>2, <2>3, <2>4 DEF TransferConsistent
  <2>5. CASE h \notin Transfers
    <3>1. <<h, "fund">> \in LegsIn(table, h)
      BY <2>3, <2>5 DEF PurchaseConsistent, SaleConsistent
    <3>2. new[<<h, "fund">>] = table[<<h, "fund">>]
      BY <2>2, <3>1
    <3>3. CASE table[<<h, "fund">>].type = "buy"
      BY <2>1, <2>2, <2>3, <2>5, <3>2, <3>3 DEF PurchaseConsistent
    <3>4. CASE table[<<h, "fund">>].type # "buy"
      BY <2>1, <2>2, <2>3, <2>5, <3>2, <3>4 DEF SaleConsistent
    <3> QED
      BY <3>3, <3>4
  <2> QED
    BY <2>4, <2>5
<1>3. Consistent(new)
  BY <1>2 DEF Consistent
<1> QED
  BY <1>1, <1>3 DEF TableOK

\* The table the invariant is about.
LEMMA Tables ==
    ASSUME IInv
    PROVE  /\ TableOK(legs, SnapDays) /\ DOMAIN legs \subseteq LegIds
           /\ \A k \in DOMAIN legs : legs[k] \in Leg
           /\ SnapDays \subseteq Nat /\ TradingDays \subseteq Nat
BY DaysAreNumbers DEF IInv, TableOK, TypeOK, IsDatabase, DB, SnapDays

\* The rows of the other groups stay.
Others(g) ==
    /\ \A k \in DOMAIN legs' : k[1] # g => k \in DOMAIN legs /\ legs'[k] = legs[k]
    /\ \A k \in DOMAIN legs : k[1] # g => k \in DOMAIN legs'

\* The same for one group of the table of the state, by its kind.
LEMMA GroupRewritten ==
    ASSUME IInv, NEW g \in Groups, Others(g), DOMAIN legs' \subseteq LegIds,
           legs' = [k \in DOMAIN legs' |-> legs'[k]],
           \A k \in LegsIn(legs', g) : legs'[k] \in Leg /\ AheadOf(SnapDays, k, legs'[k]),
           \/ LegsIn(legs', g) = {}
           \/ g \in Transfers /\ TransferConsistent(legs', g)
           \/ g \notin Transfers /\ legs'[<<g, "fund">>].type = "buy" /\ PurchaseConsistent(legs', g)
           \/ g \notin Transfers /\ legs'[<<g, "fund">>].type = "sell" /\ SaleConsistent(legs', g)
    PROVE  TableOK(legs', SnapDays)
BY Tables, Rewritten DEF Others

-----------------------------------------------------------------------------
(* Requests on trades                                                      *)

\* What a rebalancing group consists of.
LEMMA RebalShape ==
    ASSUME IInv, NEW g \in Rebals, <<g, "fund">> \in DOMAIN legs
    PROVE  /\ g \in Groups /\ g \notin Transfers
           /\ legs[<<g, "fund">>].type = "buy" => PurchaseConsistent(legs, g)
           /\ legs[<<g, "fund">>].type = "sell" => SaleConsistent(legs, g)
<1>1. LegsIn(legs, g) # {}
  BY Keys DEF LegsIn
<1>2. g \in Groups /\ g \notin Transfers
  BY GroupAssumption DEF Groups
<1> QED
  BY <1>1, <1>2, Tables DEF TableOK, Consistent

LEMMA CreateBuyKeeps ==
    ASSUME IInv, NEW g \in Rebals, NEW p \in Platforms, NEW from \in Platforms,
           NEW d \in TradingDays, NEW q \in Quantities, CreateBuy(g, p, from, d, q)
    PROVE  TableOK(legs', SnapDays)
<1> DEFINE f == <<g, "fund">>
           o == <<g, "out">>
<1>1. PICK c \in TradingDays :
         /\ IsTradingDaysAfter(d, ConfirmDays, c)
         /\ legs' = Put(Put(legs, f, Row("buy", p, q, d, c, "pending")),
                        o, Row("sell", from, q, d, d, "confirmed"))
  BY DEF CreateBuy
<1>2. /\ DOMAIN legs' = DOMAIN legs \cup {f, o} /\ f # o
      /\ legs'[f] = Row("buy", p, q, d, c, "pending")
      /\ legs'[o] = Row("sell", from, q, d, d, "confirmed")
      /\ \A k \in DOMAIN legs \ {f, o} : legs'[k] = legs[k]
      /\ legs' = [k \in DOMAIN legs' |-> legs'[k]]
  BY <1>1, Keys DEF Put
<1>3. g \in Groups /\ g \notin Transfers
  BY GroupAssumption DEF Groups
<1>4. LegsIn(legs', g) = {f, o} /\ DOMAIN legs' \subseteq LegIds
  <2>1. \A k \in DOMAIN legs : k[1] # g
    BY DEF CreateBuy, LegsOf, LegsIn
  <2>2. f \in LegIds /\ o \in LegIds /\ f[1] = g /\ o[1] = g
    BY <1>3, Keys
  <2> QED
    BY <1>2, <2>1, <2>2, Tables DEF LegsIn
<1>5. legs'[f] \in Leg /\ legs'[o] \in Leg /\ c >= d
  BY <1>1, <1>2, LaterTradingDay DEF Leg, Row
<1>6. PurchaseConsistent(legs', g)
  BY <1>2, <1>4, <1>5, Tables DEF PurchaseConsistent, Row
<1>7. AheadOf(SnapDays, f, legs'[f]) /\ AheadOf(SnapDays, o, legs'[o])
  BY <1>2, <1>5, Tables DEF AheadOf, Row, CreateBuy, Orderable, AfterLatest
<1> QED
  <2>1. Others(g)
    BY <1>2, Keys DEF Others
  <2> QED
    BY <1>2, <1>3, <1>4, <1>5, <1>6, <1>7, <2>1, GroupRewritten DEF Row

LEMMA CreateSellKeeps ==
    ASSUME IInv, NEW g \in Rebals, NEW p \in Platforms,
           NEW d \in TradingDays, NEW q \in Quantities, CreateSell(g, p, d, q)
    PROVE  TableOK(legs', SnapDays)
<1> DEFINE f == <<g, "fund">>
<1>1. PICK c \in TradingDays :
         /\ IsTradingDaysAfter(d, ConfirmDays, c)
         /\ legs' = Put(legs, f, Row("sell", p, q, d, c, "pending"))
  BY DEF CreateSell
<1>2. /\ DOMAIN legs' = DOMAIN legs \cup {f}
      /\ legs'[f] = Row("sell", p, q, d, c, "pending")
      /\ \A k \in DOMAIN legs \ {f} : legs'[k] = legs[k]
      /\ legs' = [k \in DOMAIN legs' |-> legs'[k]]
  BY <1>1 DEF Put
<1>3. g \in Groups /\ g \notin Transfers
  BY GroupAssumption DEF Groups
<1>4. LegsIn(legs', g) = {f} /\ DOMAIN legs' \subseteq LegIds
  <2>1. \A k \in DOMAIN legs : k[1] # g
    BY DEF CreateSell, LegsOf, LegsIn
  <2>2. f \in LegIds /\ f[1] = g
    BY <1>3, Keys
  <2> QED
    BY <1>2, <2>1, <2>2, Tables DEF LegsIn
<1>5. legs'[f] \in Leg
  BY <1>1, <1>2 DEF Leg, Row
<1>6. SaleConsistent(legs', g)
  BY <1>2, <1>4 DEF SaleConsistent, Row
<1>7. AheadOf(SnapDays, f, legs'[f])
  BY <1>2, Keys DEF AheadOf, Row
<1> QED
  <2>1. Others(g)
    BY <1>2, Keys DEF Others
  <2> QED
    BY <1>2, <1>3, <1>4, <1>5, <1>6, <1>7, <2>1, GroupRewritten DEF Row

\* Date and amount of a pending trade change in both of its rows.
LEMMA UpdateTradeKeeps ==
    ASSUME IInv, NEW g \in Rebals, NEW d \in TradingDays, NEW q \in Quantities,
           UpdateTrade(g, d, q)
    PROVE  TableOK(legs', SnapDays)
<1> DEFINE f == <<g, "fund">>
           o == <<g, "out">>
           fund == legs[f]
<1>1. f \in DOMAIN legs /\ fund.status = "pending" /\ fund \in Leg
  BY Tables DEF UpdateTrade, Pending
<1>2. PICK c \in TradingDays :
         /\ d # fund.trade => AfterLatest(c) /\ c >= d
         /\ d = fund.trade => c = fund.confirm
         /\ legs' = UpdatedLegs(g, d, c, q)
  BY LaterTradingDay DEF UpdateTrade, GroupFree
<1>3. d = fund.trade => AfterLatest(fund.confirm)
  BY <1>1, Keys DEF UpdateTrade, GroupFree, LegsOf, LegsIn
<1>4. /\ DOMAIN legs' = DOMAIN legs /\ f # o /\ f[1] = g /\ o[1] = g
      /\ legs'[f] = [fund EXCEPT !.trade = d, !.confirm = c, !.qty = q]
      /\ o \in DOMAIN legs =>
            legs'[o] = [legs[o] EXCEPT !.trade = d, !.confirm = d, !.qty = q]
      /\ \A k \in DOMAIN legs \ {f, o} : legs'[k] = legs[k]
      /\ legs' = [k \in DOMAIN legs' |-> legs'[k]]
  <2>1. f # o /\ f[1] = g /\ o[1] = g
    BY Keys
  <2> QED
    BY <1>1, <1>2, <2>1 DEF UpdatedLegs
<1>5. g \in Groups /\ g \notin Transfers /\ LegsIn(legs', g) = LegsIn(legs, g)
  BY <1>1, <1>4, RebalShape DEF LegsIn
<1>6. legs'[f] \in Leg /\ AheadOf(SnapDays, f, legs'[f]) /\ legs'[f].type = fund.type
  <2>1. legs'[f] \in Leg /\ legs'[f].type = fund.type /\ legs'[f].confirm = c
    BY <1>1, <1>4 DEF Leg
  <2>2. AfterLatest(c)
    BY <1>2, <1>3
  <2> QED
    BY <2>1, <2>2 DEF AheadOf, AfterLatest
<1>7. Others(g)
  BY <1>4 DEF Others
<1>8. CASE fund.type = "buy"
  <2>1. PurchaseConsistent(legs, g)
    BY <1>1, <1>8, RebalShape
  <2>2. o \in DOMAIN legs /\ legs[o] \in Leg /\ LegsIn(legs, g) = {f, o}
    BY <2>1, Tables DEF PurchaseConsistent, LegsIn
  <2>3. legs'[o] \in Leg /\ legs[o].status = "confirmed" /\ legs'[o].status = "confirmed"
    BY <1>1, <1>4, <2>1, <2>2 DEF Leg, PurchaseConsistent
  <2>4. c >= d
    BY <1>2, <2>1, Tables DEF PurchaseConsistent
  <2>5. PurchaseConsistent(legs', g)
    <3>1. /\ legs'[f].trade = d /\ legs'[f].confirm = c /\ legs'[f].qty = q
          /\ legs'[f].status = "pending"
      BY <1>1, <1>4 DEF Leg
    <3>2. legs'[o].trade = d /\ legs'[o].confirm = d /\ legs'[o].qty = q
      BY <1>4, <2>2 DEF Leg
    <3>3. d <= c
      BY <2>4, Tables
    <3> QED
      BY <1>5, <2>2, <2>3, <3>1, <3>2, <3>3 DEF PurchaseConsistent
  <2>6. AheadOf(SnapDays, o, legs'[o])
    BY <2>3 DEF AheadOf
  <2> QED
    BY <1>4, <1>5, <1>6, <1>8, <1>7, <2>2, <2>3, <2>5, <2>6, Tables, GroupRewritten
<1>9. CASE fund.type = "sell"
  <2>1. LegsIn(legs', g) = {f} /\ SaleConsistent(legs', g)
    BY <1>1, <1>4, <1>5, <1>9, RebalShape DEF SaleConsistent, Leg
  <2> QED
    BY <1>4, <1>5, <1>6, <1>9, <1>7, <2>1, Tables, GroupRewritten
<1> QED
  BY <1>1, <1>8, <1>9 DEF Leg

\* Confirmations and arrivals are planned for trading days.
LEMMA PlannedDays ==
    /\ \A g, c : ConfirmBuy(g, c) => c \in TradingDays
    /\ \A g, c, to, a : ConfirmSell(g, c, to, a) => c \in TradingDays /\ a \in TradingDays
    /\ \A g, a : UpdateArrival(g, a) => a \in TradingDays
BY DEF ConfirmBuy, ConfirmSell, UpdateArrival, Confirmable, PlanAllows, ArrivalAllowed

LEMMA ConfirmBuyKeeps ==
    ASSUME IInv, NEW g \in Rebals, NEW c \in TradingDays, ConfirmBuy(g, c)
    PROVE  TableOK(legs', SnapDays)
<1> DEFINE f == <<g, "fund">>
           o == <<g, "out">>
           fund == legs[f]
<1>1. f \in DOMAIN legs /\ fund.status = "pending" /\ fund.type = "buy" /\ fund \in Leg
  BY Tables DEF ConfirmBuy, PendingFund, Pending
<1>2. PurchaseConsistent(legs, g) /\ g \in Groups /\ g \notin Transfers
  BY <1>1, RebalShape
<1>3. o \in DOMAIN legs /\ legs[o] \in Leg /\ LegsIn(legs, g) = {f, o} /\ f # o
  BY <1>2, Tables, Keys DEF PurchaseConsistent, LegsIn
<1>4. fund.trade <= c
  BY Tables DEF ConfirmBuy, Confirmable, PlanAllows, Leg
<1>5. /\ DOMAIN legs' = DOMAIN legs
      /\ legs'[f] = [fund EXCEPT !.status = "confirmed", !.confirm = c]
      /\ legs'[o] = [legs[o] EXCEPT !.status = "confirmed", !.qty = fund.qty]
      /\ \A k \in DOMAIN legs \ {f, o} : legs'[k] = legs[k]
      /\ legs' = [k \in DOMAIN legs' |-> legs'[k]]
  BY <1>1, <1>3 DEF ConfirmBuy
<1>6. legs'[f] \in Leg /\ legs'[o] \in Leg /\ LegsIn(legs', g) = {f, o}
  BY <1>1, <1>3, <1>5 DEF Leg, LegsIn
<1>7. PurchaseConsistent(legs', g)
  BY <1>1, <1>2, <1>3, <1>4, <1>5, <1>6 DEF PurchaseConsistent, Leg
<1>8. /\ AheadOf(SnapDays, f, legs'[f]) /\ AheadOf(SnapDays, o, legs'[o])
      /\ legs'[f].type = "buy"
  BY <1>1, <1>3, <1>5 DEF AheadOf, Leg
<1> QED
  <2>1. Others(g)
    BY <1>5, Keys DEF Others
  <2> QED
    BY <1>2, <1>5, <1>6, <1>7, <1>8, <2>1, Tables, GroupRewritten

LEMMA ConfirmSellKeeps ==
    ASSUME IInv, NEW g \in Rebals, NEW c \in TradingDays, NEW to \in Platforms,
           NEW a \in TradingDays, ConfirmSell(g, c, to, a)
    PROVE  TableOK(legs', SnapDays)
<1> DEFINE f == <<g, "fund">>
           i == <<g, "in">>
           fund == legs[f]
<1>1. f \in DOMAIN legs /\ fund.status = "pending" /\ fund.type = "sell" /\ fund \in Leg
  BY Tables DEF ConfirmSell, PendingFund, Pending
<1>2. LegsIn(legs, g) = {f} /\ g \in Groups /\ g \notin Transfers /\ f # i
  BY <1>1, RebalShape, Keys DEF SaleConsistent
<1>3. fund.trade <= c /\ c <= a
  BY Tables DEF ConfirmSell, Confirmable, PlanAllows, ArrivalAllowed, Leg
<1>4. /\ DOMAIN legs' = DOMAIN legs \cup {i}
      /\ legs'[f] = [fund EXCEPT !.status = "confirmed", !.confirm = c]
      /\ legs'[i] = Row("buy", to, fund.qty, c, a, "confirmed")
      /\ \A k \in DOMAIN legs \ {f, i} : legs'[k] = legs[k]
      /\ legs' = [k \in DOMAIN legs' |-> legs'[k]]
  BY <1>1, <1>2 DEF ConfirmSell, Put
<1>5. legs'[f] \in Leg /\ legs'[i] \in Leg
  <2>1. legs'[f] \in Leg
    BY <1>1, <1>4 DEF Leg
  <2>2. fund.qty \in Quantities
    BY <1>1 DEF Leg
  <2> QED
    BY <1>4, <2>1, <2>2 DEF Leg, Row
<1>6. LegsIn(legs', g) = {f, i} /\ DOMAIN legs' \subseteq LegIds
  <2>1. f \in LegIds /\ i \in LegIds /\ f[1] = g /\ i[1] = g
    BY <1>2, Keys
  <2> QED
    BY <1>2, <1>4, <2>1, Tables DEF LegsIn
<1>7. SaleConsistent(legs', g)
  BY <1>1, <1>3, <1>4, <1>6 DEF SaleConsistent, Row, Leg
<1>8. /\ AheadOf(SnapDays, f, legs'[f]) /\ AheadOf(SnapDays, i, legs'[i])
      /\ legs'[f].type = "sell"
  BY <1>1, <1>4 DEF AheadOf, Row, Leg
<1> QED
  <2>1. Others(g)
    BY <1>4, Keys DEF Others
  <2> QED
    BY <1>2, <1>4, <1>5, <1>6, <1>7, <1>8, <2>1, Tables, GroupRewritten

LEMMA UpdateArrivalKeeps ==
    ASSUME IInv, NEW g \in Rebals, NEW a \in TradingDays, UpdateArrival(g, a)
    PROVE  TableOK(legs', SnapDays)
<1> DEFINE f == <<g, "fund">>
           i == <<g, "in">>
<1>1. /\ f \in DOMAIN legs /\ legs[f].status = "confirmed" /\ legs[f] \in Leg
      /\ i \in DOMAIN legs /\ legs[i] \in Leg /\ f # i
  BY Tables, Keys DEF UpdateArrival, Confirmed
<1>2. g \in Groups /\ g \notin Transfers
  BY <1>1, RebalShape
<1>3. i \in LegsIn(legs, g)
  BY <1>1, Keys DEF LegsIn
<1>4. legs[f].type = "sell" /\ SaleConsistent(legs, g)
  <2>1. i # <<g, "out">>
    BY Keys
  <2>2. ~ PurchaseConsistent(legs, g)
    BY <1>1, <1>3, <2>1 DEF PurchaseConsistent
  <2>3. legs[f].type \in {"buy", "sell"}
    BY <1>1 DEF Leg
  <2> QED
    BY <1>1, <2>2, <2>3, RebalShape
<1>5. /\ DOMAIN legs' = DOMAIN legs /\ legs'[i] = [legs[i] EXCEPT !.confirm = a]
      /\ \A k \in DOMAIN legs \ {i} : legs'[k] = legs[k]
      /\ legs' = [k \in DOMAIN legs' |-> legs'[k]]
  BY <1>1 DEF UpdateArrival
<1>6. legs'[i] \in Leg /\ legs'[f] = legs[f] /\ LegsIn(legs', g) = {f, i}
  BY <1>1, <1>4, <1>5 DEF Leg, LegsIn, SaleConsistent
<1>7. SaleConsistent(legs', g)
  BY <1>1, <1>4, <1>5, <1>6, Tables DEF SaleConsistent, Leg, UpdateArrival, ArrivalAllowed
<1>8. AheadOf(SnapDays, i, legs'[i]) /\ AheadOf(SnapDays, f, legs'[f])
  BY <1>1, <1>4, <1>5, <1>6 DEF AheadOf, Leg, SaleConsistent
<1> QED
  <2>1. Others(g)
    BY <1>5, Keys DEF Others
  <2> QED
    BY <1>1, <1>2, <1>4, <1>5, <1>6, <1>7, <1>8, <2>1, Tables, GroupRewritten

LEMMA CancelTradeKeeps ==
    ASSUME IInv, NEW g \in Rebals, CancelTrade(g)
    PROVE  TableOK(legs', SnapDays)
<1> DEFINE f == <<g, "fund">>
           o == <<g, "out">>
           i == <<g, "in">>
<1>1. f \in DOMAIN legs /\ legs[f].status = "pending" /\ legs[f] \in Leg
  BY Tables DEF CancelTrade, Pending
<1>2. g \in Groups /\ g \notin Transfers /\ f[1] = g /\ o[1] = g /\ i[1] = g
      /\ f # o /\ f # i /\ o # i
  BY <1>1, RebalShape, Keys
<1>3. LegsIn(legs, g) = {f} \/ LegsIn(legs, g) = {f, o}
  BY <1>1, RebalShape DEF SaleConsistent, PurchaseConsistent, Leg
<1>4. i \notin DOMAIN legs
  BY <1>2, <1>3 DEF LegsIn
<1>5. /\ DOMAIN legs' = DOMAIN legs
      /\ \A k \in DOMAIN legs : legs'[k] = IF k[1] = g THEN [legs[k] EXCEPT !.status = "cancelled"]
                                           ELSE legs[k]
      /\ legs' = [k \in DOMAIN legs' |-> legs'[k]]
  BY <1>4 DEF CancelTrade
<1>6. Others(g) /\ LegsIn(legs', g) = LegsIn(legs, g)
  BY <1>5 DEF Others, LegsIn
<1>7. \A k \in LegsIn(legs', g) :
         /\ legs'[k] \in Leg /\ legs'[k].status = "cancelled"
         /\ legs'[k].type = legs[k].type /\ legs'[k].qty = legs[k].qty
         /\ legs'[k].trade = legs[k].trade /\ legs'[k].confirm = legs[k].confirm
  BY <1>5, Tables DEF LegsIn, Leg
<1>8. \A k \in LegsIn(legs', g) : AheadOf(SnapDays, k, legs'[k])
  BY <1>7 DEF AheadOf
<1>9. f \in LegsIn(legs', g)
  BY <1>1, <1>2, <1>6 DEF LegsIn
<1>10. CASE legs[f].type = "buy"
  <2>1. PurchaseConsistent(legs, g) /\ LegsIn(legs', g) = {f, o}
    BY <1>1, <1>6, <1>10, RebalShape DEF PurchaseConsistent
  <2>2. PurchaseConsistent(legs', g)
    BY <1>7, <2>1 DEF PurchaseConsistent
  <2> QED
    BY <1>2, <1>5, <1>6, <1>7, <1>8, <1>9, <1>10, <2>2, Tables, GroupRewritten
<1>11. CASE legs[f].type = "sell"
  <2>1. SaleConsistent(legs, g) /\ LegsIn(legs', g) = {f}
    BY <1>1, <1>6, <1>11, RebalShape DEF SaleConsistent
  <2>2. SaleConsistent(legs', g)
    BY <1>7, <2>1 DEF SaleConsistent
  <2> QED
    BY <1>2, <1>5, <1>6, <1>7, <1>8, <1>9, <1>11, <2>2, Tables, GroupRewritten
<1> QED
  BY <1>1, <1>10, <1>11 DEF Leg

LEMMA UnconfirmTradeKeeps ==
    ASSUME IInv, NEW g \in Rebals, UnconfirmTrade(g)
    PROVE  TableOK(legs', SnapDays)
<1> DEFINE f == <<g, "fund">>
           o == <<g, "out">>
           i == <<g, "in">>
<1>1. f \in DOMAIN legs /\ legs[f].status = "confirmed" /\ legs[f] \in Leg
  BY Tables DEF UnconfirmTrade, Confirmed
<1>2. g \in Groups /\ g \notin Transfers /\ f[1] = g /\ o[1] = g /\ i[1] = g
      /\ f # o /\ f # i /\ o # i
  BY <1>1, RebalShape, Keys
<1>3. PICK c \in TradingDays :
         /\ c >= legs[f].trade
         /\ legs' = Drop([legs EXCEPT ![f].status = "pending", ![f].confirm = c], {i})
  BY LaterTradingDay DEF UnconfirmTrade
<1>4. /\ DOMAIN legs' = DOMAIN legs \ {i}
      /\ legs'[f] = [legs[f] EXCEPT !.status = "pending", !.confirm = c]
      /\ \A k \in DOMAIN legs \ {f, i} : legs'[k] = legs[k]
      /\ legs' = [k \in DOMAIN legs' |-> legs'[k]]
  BY <1>1, <1>2, <1>3 DEF Drop
<1>5. Others(g) /\ LegsIn(legs', g) = LegsIn(legs, g) \ {i} /\ DOMAIN legs' \subseteq LegIds
  BY <1>2, <1>4, Tables DEF Others, LegsIn
<1>6. /\ legs'[f] \in Leg /\ legs'[f].type = legs[f].type /\ legs'[f].status = "pending"
      /\ legs'[f].confirm = c /\ legs'[f].trade = legs[f].trade /\ legs'[f].qty = legs[f].qty
  BY <1>1, <1>4 DEF Leg
<1>7. CASE legs[f].type = "buy"
  <2>1. PurchaseConsistent(legs, g) /\ LegsIn(legs', g) = {f, o} /\ LegsIn(legs, g) = {f, o}
    BY <1>1, <1>2, <1>5, <1>7, RebalShape DEF PurchaseConsistent
  <2>2. o \in DOMAIN legs /\ legs'[o] = legs[o] /\ legs[o].status = "confirmed" /\ legs[o] \in Leg
    BY <1>1, <1>2, <1>4, <2>1, Tables DEF LegsIn, PurchaseConsistent
  <2>3. legs[f].trade <= c /\ c \in Nat /\ legs[f].trade \in Nat
    BY <1>1, <1>3, Tables DEF Leg
  <2>4. PurchaseConsistent(legs', g)
    BY <1>6, <2>1, <2>2, <2>3 DEF PurchaseConsistent
  <2>5. AfterLatest(legs[f].trade)
    BY <1>2, <2>1, <2>2 DEF UnconfirmTrade, GroupFree, LegsOf, PurchaseConsistent
  <2>6. AheadOf(SnapDays, f, legs'[f]) /\ AheadOf(SnapDays, o, legs'[o])
    BY <1>6, <2>2, <2>3, <2>5, Tables DEF AheadOf, AfterLatest
  <2> QED
    BY <1>2, <1>4, <1>5, <1>6, <1>7, <2>1, <2>2, <2>4, <2>6, GroupRewritten
<1>8. CASE legs[f].type = "sell"
  <2>1. LegsIn(legs', g) = {f}
    BY <1>1, <1>2, <1>5, <1>8, RebalShape DEF SaleConsistent
  <2>2. SaleConsistent(legs', g) /\ AheadOf(SnapDays, f, legs'[f])
    BY <1>2, <1>6, <1>8, <2>1 DEF SaleConsistent, AheadOf
  <2> QED
    BY <1>2, <1>4, <1>5, <1>6, <1>8, <2>1, <2>2, GroupRewritten
<1> QED
  BY <1>1, <1>7, <1>8 DEF Leg

\* Deleting a trade or a transfer leaves nothing of its group.
LEMMA DeleteKeeps ==
    ASSUME IInv, NEW g \in Groups, legs' = Drop(legs, LegsOf(g))
    PROVE  TableOK(legs', SnapDays)
<1>1. /\ DOMAIN legs' = DOMAIN legs \ LegsIn(legs, g)
      /\ \A k \in DOMAIN legs' : legs'[k] = legs[k]
      /\ legs' = [k \in DOMAIN legs' |-> legs'[k]]
  BY DEF Drop, LegsOf
<1>2. Others(g) /\ LegsIn(legs', g) = {}
  BY <1>1 DEF Others, LegsIn
<1> QED
  BY <1>1, <1>2, Tables, GroupRewritten

-----------------------------------------------------------------------------
(* Requests on transfers                                                   *)

LEMMA TransferShape ==
    ASSUME IInv, NEW g \in Transfers, LegsOf(g) # {}
    PROVE  /\ g \in Groups /\ TransferConsistent(legs, g)
           /\ LegsIn(legs, g) = {<<g, "out">>, <<g, "in">>}
           /\ \A k \in LegsIn(legs, g) : k \in DOMAIN legs /\ k[1] = g /\ legs[k] \in Leg
           /\ <<g, "out">> # <<g, "in">>
<1>1. g \in Groups /\ TransferConsistent(legs, g)
  BY Tables DEF TableOK, Consistent, Groups, LegsOf
<1> QED
  BY <1>1, Tables, Keys DEF TransferConsistent, LegsIn

LEMMA CreateTransferKeeps ==
    ASSUME IInv, NEW g \in Transfers, NEW from \in Platforms, NEW to \in Platforms,
           NEW d \in TradingDays, NEW q \in Quantities, NEW crossDay \in BOOLEAN,
           CreateTransfer(g, from, to, d, q, crossDay)
    PROVE  TableOK(legs', SnapDays)
<1> DEFINE o == <<g, "out">>
           i == <<g, "in">>
           status == IF crossDay THEN "pending" ELSE "confirmed"
<1>1. PICK a \in TradingDays :
         /\ a >= d
         /\ legs' = Put(Put(legs, o, Row("sell", from, q, d, d, "confirmed")),
                        i, Row("buy", to, q, d, a, status))
  <2>1. \A a \in TradingDays : Arrives(d, crossDay, a) => a >= d
    BY LaterTradingDay, Tables DEF Arrives
  <2> QED
    BY <2>1 DEF CreateTransfer
<1>2. g \in Groups /\ o \in LegIds /\ i \in LegIds /\ o[1] = g /\ i[1] = g /\ o # i
  BY Keys DEF Groups
<1>3. /\ DOMAIN legs' = DOMAIN legs \cup {o, i}
      /\ legs'[o] = Row("sell", from, q, d, d, "confirmed")
      /\ legs'[i] = Row("buy", to, q, d, a, status)
      /\ \A k \in DOMAIN legs \ {o, i} : legs'[k] = legs[k]
      /\ legs' = [k \in DOMAIN legs' |-> legs'[k]]
  BY <1>1, <1>2 DEF Put
<1>4. LegsIn(legs', g) = {o, i} /\ DOMAIN legs' \subseteq LegIds /\ Others(g)
  <2>1. \A k \in DOMAIN legs : k[1] # g
    BY DEF CreateTransfer, LegsOf, LegsIn
  <2> QED
    BY <1>2, <1>3, <2>1, Tables DEF LegsIn, Others
<1>5. status \in {"pending", "confirmed"}
  OBVIOUS
<1> HIDE DEF status
<1>6. legs'[o] \in Leg /\ legs'[i] \in Leg /\ d <= a
  BY <1>1, <1>3, <1>5, Tables DEF Leg, Row
<1>7. TransferConsistent(legs', g)
  BY <1>3, <1>4, <1>5, <1>6 DEF TransferConsistent, Row, CreateTransfer
<1>8. AheadOf(SnapDays, o, legs'[o]) /\ AheadOf(SnapDays, i, legs'[i])
  BY <1>3, <1>6, Tables DEF AheadOf, Row, CreateTransfer, Orderable, AfterLatest
<1> QED
  BY <1>2, <1>3, <1>4, <1>6, <1>7, <1>8, GroupRewritten

\* Confirming pending legs of transfers, of one or of many at once.
LEMMA ConfirmLegsKeeps ==
    ASSUME IInv, NEW S \in SUBSET Pending, \A k \in S : k[1] \in Transfers, ConfirmLegs(S)
    PROVE  TableOK(legs', SnapDays)
<1>1. /\ DOMAIN legs' = DOMAIN legs /\ legs' = [k \in DOMAIN legs' |-> legs'[k]]
      /\ \A k \in DOMAIN legs \ S : legs'[k] = legs[k]
      /\ \A k \in S : k \in DOMAIN legs /\ legs[k].status = "pending"
                      /\ legs'[k] = [legs[k] EXCEPT !.status = "confirmed"]
  BY DEF ConfirmLegs, Pending
<1>2. \A k \in DOMAIN legs :
         /\ legs'[k] \in Leg
         /\ legs'[k].type = legs[k].type /\ legs'[k].qty = legs[k].qty
         /\ legs'[k].trade = legs[k].trade /\ legs'[k].confirm = legs[k].confirm
         /\ legs'[k].platform = legs[k].platform
         /\ legs'[k].status = "cancelled" <=> legs[k].status = "cancelled"
         /\ legs'[k].status = "pending" => legs[k].status = "pending"
  <2> TAKE k \in DOMAIN legs
  <2>1. legs[k] \in Leg
    BY Tables
  <2>2. CASE k \in S
    BY <1>1, <2>1, <2>2 DEF Leg
  <2>3. CASE k \notin S
    BY <1>1, <2>1, <2>3
  <2> QED
    BY <2>2, <2>3
<1>3. \A k \in DOMAIN legs : AheadOf(SnapDays, k, legs'[k])
  BY <1>2, Tables DEF AheadOf, TableOK
<1>4. \A h : LegsIn(legs', h) = LegsIn(legs, h)
  BY <1>1 DEF LegsIn
<1>5. ASSUME NEW h \in Groups, LegsIn(legs', h) # {}
      PROVE  IF h \in Transfers THEN TransferConsistent(legs', h)
             ELSE IF legs'[<<h, "fund">>].type = "buy" THEN PurchaseConsistent(legs', h)
             ELSE SaleConsistent(legs', h)
  <2>1. IF h \in Transfers THEN TransferConsistent(legs, h)
        ELSE IF legs[<<h, "fund">>].type = "buy" THEN PurchaseConsistent(legs, h)
        ELSE SaleConsistent(legs, h)
    BY <1>4, <1>5, Tables DEF TableOK, Consistent
  <2>2. CASE h \in Transfers
    <3>1. TransferConsistent(legs, h) /\ LegsIn(legs, h) = {<<h, "out">>, <<h, "in">>}
      BY <2>1, <2>2 DEF TransferConsistent
    <3>2. <<h, "out">> \in DOMAIN legs /\ <<h, "in">> \in DOMAIN legs
      BY <3>1 DEF LegsIn
    <3> QED
      BY <1>2, <1>4, <2>2, <3>1, <3>2 DEF TransferConsistent
  <2>3. CASE h \notin Transfers
    <3>1. \A k \in LegsIn(legs, h) : legs'[k] = legs[k]
      BY <1>1, <2>3 DEF LegsIn
    <3>2. <<h, "fund">> \in LegsIn(legs, h)
      BY <2>1, <2>3 DEF PurchaseConsistent, SaleConsistent
    <3>3. CASE legs[<<h, "fund">>].type = "buy"
      BY <1>4, <2>1, <2>3, <3>1, <3>2, <3>3 DEF PurchaseConsistent
    <3>4. CASE legs[<<h, "fund">>].type # "buy"
      BY <1>4, <2>1, <2>3, <3>1, <3>2, <3>4 DEF SaleConsistent
    <3> QED
      BY <3>3, <3>4
  <2> QED
    BY <2>2, <2>3
<1> QED
  BY <1>1, <1>2, <1>3, <1>5, Tables DEF TableOK, Consistent

\* Cancelling a transfer, or taking it back to pending when neither leg is
\* cancelled and both lie ahead.
LEMMA SetStatusKeeps ==
    ASSUME IInv, NEW g \in Transfers, LegsOf(g) # {},
           NEW status \in {"pending", "cancelled"}, SetStatus(g, status),
           status = "pending" => \A k \in LegsOf(g) : AfterLatest(legs[k].confirm)
    PROVE  TableOK(legs', SnapDays)
<1>1. /\ DOMAIN legs' = DOMAIN legs /\ legs' = [k \in DOMAIN legs' |-> legs'[k]]
      /\ \A k \in DOMAIN legs : k[1] # g => legs'[k] = legs[k]
      /\ \A k \in DOMAIN legs : k[1] = g => legs'[k] = [legs[k] EXCEPT !.status = status]
  BY DEF SetStatus
<1>2. Others(g) /\ LegsIn(legs', g) = LegsIn(legs, g)
  BY <1>1 DEF Others, LegsIn
<1>3. \A k \in LegsIn(legs, g) :
         /\ legs'[k] \in Leg /\ legs'[k].status = status
         /\ legs'[k].type = legs[k].type /\ legs'[k].qty = legs[k].qty
         /\ legs'[k].trade = legs[k].trade /\ legs'[k].confirm = legs[k].confirm
         /\ legs'[k].platform = legs[k].platform
  BY <1>1, TransferShape DEF Leg
<1>4. \A k \in LegsIn(legs, g) : AheadOf(SnapDays, k, legs'[k])
  BY <1>3 DEF AheadOf, AfterLatest, LegsOf
<1>5. TransferConsistent(legs', g)
  <2>1. <<g, "out">> \in LegsIn(legs, g) /\ <<g, "in">> \in LegsIn(legs, g)
    BY TransferShape
  <2> QED
    BY <1>2, <1>3, <2>1, TransferShape DEF TransferConsistent
<1> QED
  BY <1>1, <1>2, <1>3, <1>4, <1>5, Tables, TransferShape, GroupRewritten

\* A confirmed leg that no snapshot has passed: neither leg of its transfer is
\* cancelled, and no snapshot has passed the other one.
LEMMA UnconfirmTransferKeeps ==
    ASSUME IInv, NEW g \in Transfers, NEW r \in {"out", "in"}, UnconfirmTransferLeg(g, r)
    PROVE  TableOK(legs', SnapDays)
<1>1. <<g, r>> \in DOMAIN legs /\ legs[<<g, r>>].status = "confirmed"
  BY DEF UnconfirmTransferLeg, Confirmed
<1>2. <<g, r>> \in LegsOf(g)
  BY <1>1, Keys DEF LegsOf, LegsIn
<1>3. \A k \in LegsOf(g) : legs[k].status # "cancelled"
  BY <1>1, <1>2, TransferShape DEF TransferConsistent, LegsOf
<1>4. \A k \in LegsOf(g) : AfterLatest(legs[k].confirm)
  BY <1>3 DEF UnconfirmTransferLeg, GroupFree, LegsOf, LegsIn
<1> QED
  BY <1>2, <1>4, SetStatusKeeps DEF UnconfirmTransferLeg

-----------------------------------------------------------------------------
(* The chain                                                               *)

LEMMA FewerDays ==
    ASSUME NEW table, NEW days, TableOK(table, days), NEW fewer \in SUBSET days
    PROVE  TableOK(table, fewer)
BY DEF TableOK, AheadOf

\* A day is only built in front of everything that is pending.
LEMMA BuildKeeps ==
    ASSUME IInv, NEW d, Build(d)
    PROVE  /\ SnapDays' = SnapDays \cup {d} /\ d \in TradingDays
           /\ TableOK(legs, SnapDays')
<1>1. SnapDays' = SnapDays \cup {d} /\ d \in TradingDays /\ NoPendingDue(d)
  BY DEF Build, Put, SnapDays
<1>2. \A k \in DOMAIN legs : AheadOf(SnapDays \cup {d}, k, legs[k])
  BY <1>1, Tables DEF NoPendingDue, Pending, AheadOf, TableOK
<1> QED
  BY <1>1, <1>2, Tables DEF TableOK

\* Only transfers are confirmed by a snapshot, whatever days are built with it.
LEMMA ArrivalsKeep ==
    ASSUME IInv, NEW d, ConfirmArrivals(d), NEW days, TableOK(legs, days)
    PROVE  TableOK(legs', days)
<1> DEFINE due(k) == /\ k[1] \in Transfers /\ legs[k].confirm <= today
                     /\ IsTradingDaysAfter(d, 1, legs[k].confirm)
           S == {k \in Pending : \E j \in LegsOf(k[1]) \cap Pending : due(j)}
<1>1. ConfirmLegs(S)
  BY DEF ConfirmArrivals
<1>2. \A k \in S : k[1] \in Transfers
  BY DEF LegsOf, LegsIn
<1> HIDE DEF S
<1>3. S \in SUBSET Pending
  BY DEF S
<1>4. TableOK(legs', SnapDays)
  BY <1>1, <1>2, <1>3, ConfirmLegsKeeps
<1>5. \A k \in DOMAIN legs' : AheadOf(days, k, legs'[k])
  <2> SUFFICES ASSUME NEW k \in DOMAIN legs'
               PROVE  AheadOf(days, k, legs'[k])
    OBVIOUS
  <2>1. k \in DOMAIN legs /\ legs[k] \in Leg
    BY <1>1, Tables DEF ConfirmLegs
  <2>2. CASE k \in S
    BY <1>1, <2>1, <2>2 DEF ConfirmLegs, AheadOf, Leg
  <2>3. CASE k \notin S
    BY <1>1, <2>1, <2>3 DEF ConfirmLegs, TableOK
  <2> QED
    BY <2>2, <2>3
<1> QED
  BY <1>4, <1>5 DEF TableOK

-----------------------------------------------------------------------------
(* Every step                                                              *)

LEMMA TradeRequestKeeps ==
    ASSUME IInv, TradeRequest
    PROVE  TableOK(legs', SnapDays)
<1>1. ASSUME NEW g \in Rebals, DeleteTrade(g)
      PROVE  TableOK(legs', SnapDays)
  BY <1>1, DeleteKeeps DEF DeleteTrade, Groups
<1> QED
  BY <1>1, CreateBuyKeeps, CreateSellKeeps, UpdateTradeKeeps, ConfirmBuyKeeps, ConfirmSellKeeps,
     UpdateArrivalKeeps, CancelTradeKeeps, UnconfirmTradeKeeps, PlannedDays DEF TradeRequest

LEMMA TransferRequestKeeps ==
    ASSUME IInv, TransferRequest
    PROVE  TableOK(legs', SnapDays)
<1>1. ASSUME NEW g \in Transfers, NEW from \in Platforms, NEW to \in Platforms,
             NEW d \in TradingDays, NEW q \in Quantities, NEW crossDay \in BOOLEAN,
             CreateTransfer(g, from, to, d, q, crossDay)
      PROVE  TableOK(legs', SnapDays)
  BY <1>1, CreateTransferKeeps
<1>2. ASSUME NEW g \in Transfers, ConfirmTransfer(g)
      PROVE  TableOK(legs', SnapDays)
  <2>1. ConfirmLegs(LegsOf(g) \cap Pending)
    BY <1>2 DEF ConfirmTransfer
  <2>2. \A k \in LegsOf(g) \cap Pending : k[1] \in Transfers
    BY DEF LegsOf, LegsIn
  <2> QED
    BY <2>1, <2>2, ConfirmLegsKeeps
<1>3. ASSUME NEW g \in Transfers, CancelTransfer(g)
      PROVE  TableOK(legs', SnapDays)
  BY <1>3, SetStatusKeeps DEF CancelTransfer
<1>4. ASSUME NEW g \in Transfers, NEW r \in {"out", "in"}, UnconfirmTransferLeg(g, r)
      PROVE  TableOK(legs', SnapDays)
  BY <1>4, UnconfirmTransferKeeps
<1>5. ASSUME NEW g \in Transfers, NEW r \in {"out", "in"}, ConfirmTransferLeg(g, r)
      PROVE  TableOK(legs', SnapDays)
  <2>1. {<<g, r>>} \in SUBSET Pending /\ <<g, r>>[1] \in Transfers /\ ConfirmLegs({<<g, r>>})
    BY <1>5, Keys DEF ConfirmTransferLeg
  <2> QED
    BY <2>1, ConfirmLegsKeeps
<1>6. ASSUME NEW g \in Transfers, NEW r \in {"out", "in"}, CancelTransferLeg(g, r)
      PROVE  TableOK(legs', SnapDays)
  <2>1. <<g, r>> \in LegsOf(g)
    BY <1>6, Keys DEF CancelTransferLeg, Pending, LegsOf, LegsIn
  <2> QED
    BY <1>6, <2>1, SetStatusKeeps DEF CancelTransferLeg
<1>7. ASSUME NEW g \in Transfers, NEW r \in {"out", "in"}, DeleteTransferLeg(g, r)
      PROVE  TableOK(legs', SnapDays)
  BY <1>7, DeleteKeeps DEF DeleteTransferLeg, Groups
<1> QED
  BY <1>1, <1>2, <1>3, <1>4, <1>5, <1>6, <1>7 DEF TransferRequest

\* A request changes neither the chain nor the transaction.
\* A request writes legs and nothing else, outside of recalculations.
LEMMA RequestsWriteLegs ==
    ASSUME TradeRequest \/ TransferRequest
    PROVE  UNCHANGED <<snap, today, tx, saved>> /\ Idle
<1>1. CASE TradeRequest
  <2>1. \A g, p, from, d, q : CreateBuy(g, p, from, d, q) => Request
    BY DEF CreateBuy
  <2>2. \A g, p, d, q : CreateSell(g, p, d, q) \/ UpdateTrade(g, d, q) => Request
    BY DEF CreateSell, UpdateTrade
  <2>3. \A g, c, a, to : ConfirmBuy(g, c) \/ UpdateArrival(g, c) \/ ConfirmSell(g, c, to, a) => Request
    BY DEF ConfirmBuy, UpdateArrival, ConfirmSell
  <2>4. \A g : CancelTrade(g) \/ UnconfirmTrade(g) \/ DeleteTrade(g) => Request
    BY DEF CancelTrade, UnconfirmTrade, DeleteTrade
  <2>5. Request
    BY <1>1, <2>1, <2>2, <2>3, <2>4 DEF TradeRequest
  <2> QED
    BY <2>5 DEF Request
<1>2. CASE TransferRequest
  BY <1>2 DEF TransferRequest, CreateTransfer, ConfirmTransfer, CancelTransfer, Request,
              UnconfirmTransferLeg, ConfirmTransferLeg, CancelTransferLeg, DeleteTransferLeg
<1> QED
  BY <1>1, <1>2

LEMMA RequestKeeps ==
    ASSUME IInv, TradeRequest \/ TransferRequest
    PROVE  IInv'
<1>1. TableOK(legs', SnapDays)
  BY TradeRequestKeeps, TransferRequestKeeps
<1>3. UNCHANGED <<snap, today, tx, saved>> /\ Idle
  BY RequestsWriteLegs
<1>4. SnapDays' = SnapDays /\ Idle'
  BY <1>3 DEF SnapDays, Idle
<1>5. TypeOK'
  BY <1>1, <1>3, <1>4 DEF IInv, TypeOK, TableOK, IsDatabase, DB, Idle
<1> QED
  BY <1>1, <1>4, <1>5 DEF IInv

\* Without a transaction: the chain may change, with legs that fit it.
LEMMA ChainStepKeeps ==
    ASSUME IInv, Idle, UNCHANGED <<today, tx, saved>>,
           SnapDays' \subseteq TradingDays \cup {0}, 0 \in SnapDays',
           TableOK(legs', SnapDays')
    PROVE  IInv'
<1>1. Idle' /\ saved' = NoDB
  BY DEF IInv, TypeOK, Idle
<1>2. TypeOK'
  BY <1>1 DEF IInv, TypeOK, TableOK, IsDatabase, DB, SnapDays, Idle
<1> QED
  BY <1>1, <1>2 DEF IInv

LEMMA ChainDays ==
    ASSUME IInv
    PROVE  SnapDays \subseteq TradingDays \cup {0} /\ 0 \in SnapDays /\ SnapDays \subseteq 0..LastDay
<1>1. SnapDays \subseteq TradingDays \cup {0} /\ 0 \in SnapDays
  BY DEF IInv, TypeOK, IsDatabase, DB, SnapDays
<1> QED
  BY <1>1, DaysAreNumbers

LEMMA SnapshotRequestKeeps ==
    ASSUME IInv, SnapshotRequest
    PROVE  IInv'
<1>1. ASSUME NEW d \in TradingDays, Generate(d) \/ Advance(d)
      PROVE  IInv'
  <2>1. Build(d) /\ Idle /\ UNCHANGED <<today, tx, saved>>
    BY <1>1 DEF Generate, Advance
  <2>2. SnapDays' = SnapDays \cup {d} /\ TableOK(legs, SnapDays')
    BY <2>1, BuildKeeps
  <2>3. TableOK(legs', SnapDays')
    BY <1>1, <2>2, ArrivalsKeep DEF Generate, Advance
  <2> QED
    BY <2>1, <2>2, <2>3, ChainDays, ChainStepKeeps
<1>2. ASSUME NEW d \in TradingDays, DeleteDay(d)
      PROVE  IInv'
  <2>1. SnapDays' = SnapDays \ {d} /\ d # 0
    BY <1>2 DEF DeleteDay, Drop, SnapDays, NoDate
  <2>2. TableOK(legs', SnapDays')
    BY <1>2, <2>1, Tables, FewerDays DEF DeleteDay
  <2> QED
    BY <1>2, <2>1, <2>2, ChainDays, ChainStepKeeps DEF DeleteDay
<1>3. CASE ConfirmOnly
  <2>1. TableOK(legs', SnapDays)
    BY <1>3, Tables, ArrivalsKeep DEF ConfirmOnly
  <2>2. SnapDays' = SnapDays
    BY <1>3 DEF ConfirmOnly, SnapDays
  <2> QED
    BY <1>3, <2>1, <2>2, ChainDays, ChainStepKeeps DEF ConfirmOnly
<1>4. ASSUME NEW d \in Days, BeginRecalculate(d)
      PROVE  IInv'
  <2>1. saved' = DB /\ UNCHANGED <<legs, snap, today>> /\ TxTyped' /\ ~Idle'
    BY <1>4, ChainDays, BeginsTyped DEF BeginRecalculate
  <2>2. TypeOK'
    BY <2>1 DEF IInv, TypeOK, IsDatabase, DB, TxTyped
  <2>3. TableOK(legs', SnapDays') /\ TableOK(saved'.legs, DOMAIN saved'.snap)
    BY <2>1, Tables DEF DB, SnapDays
  <2> QED
    BY <2>2, <2>3 DEF IInv
<1>5. CASE RecalcDay
  <2>1. Build(tx.day) /\ ConfirmArrivals(tx.day) /\ UNCHANGED <<today, saved>>
        /\ AtTradingDay /\ NextInTx /\ ~Idle
    BY <1>5 DEF RecalcDay, AtTradingDay
  <2>2. SnapDays' = SnapDays \cup {tx.day} /\ tx.day \in TradingDays /\ TableOK(legs, SnapDays')
    BY <2>1, BuildKeeps
  <2>3. TableOK(legs', SnapDays')
    BY <2>1, <2>2, ArrivalsKeep
  <2>4. TxTyped' /\ ~Idle'
    BY <2>1, NextInTxTyped DEF IInv, TypeOK, TxTyped
  <2>5. TypeOK'
    BY <2>1, <2>2, <2>3, <2>4, ChainDays
       DEF IInv, TypeOK, TableOK, IsDatabase, DB, SnapDays, TxTyped
  <2> QED
    BY <2>1, <2>3, <2>4, <2>5 DEF IInv
<1>6. CASE RecalcSkipDay
  <2>1. UNCHANGED <<legs, snap, today, saved>> /\ AtHoliday /\ NextInTx /\ ~Idle
    BY <1>6 DEF RecalcSkipDay, AtHoliday
  <2>2. TxTyped' /\ ~Idle'
    BY <2>1, NextInTxTyped DEF IInv, TypeOK, TxTyped
  <2>3. TypeOK'
    BY <2>1, <2>2 DEF IInv, TypeOK, IsDatabase, DB, TxTyped
  <2> QED
    BY <2>1, <2>2, <2>3 DEF IInv, SnapDays
<1>7. CASE Commit
  <2>1. UNCHANGED <<legs, snap, today>> /\ saved' = NoDB /\ TxTyped' /\ Idle'
    BY <1>7, NoTxTyped DEF Commit
  <2>2. TypeOK'
    BY <2>1 DEF IInv, TypeOK, IsDatabase, DB, TxTyped
  <2> QED
    BY <2>1, <2>2 DEF IInv, SnapDays
<1>8. CASE Rollback
  <2>1. /\ legs' = saved.legs /\ snap' = saved.snap /\ today' = today /\ ~Idle
        /\ saved' = NoDB /\ TxTyped' /\ Idle'
    BY <1>8, NoTxTyped DEF Rollback
  <2>2. IsDatabase(saved) /\ TableOK(saved.legs, DOMAIN saved.snap)
    BY <2>1 DEF IInv, TypeOK
  <2>3. TypeOK'
    BY <2>1, <2>2 DEF IInv, TypeOK, IsDatabase, DB, TxTyped
  <2> QED
    BY <2>1, <2>2, <2>3 DEF IInv, SnapDays
<1> QED
  BY <1>1, <1>2, <1>3, <1>4, <1>5, <1>6, <1>7, <1>8 DEF SnapshotRequest

LEMMA InitHolds == Init => IInv
<1> SUFFICES ASSUME Init PROVE IInv
  OBVIOUS
<1>1. DOMAIN legs = {} /\ legs \in [DOMAIN legs -> Leg] /\ SnapDays = {0} /\ Idle /\ saved = NoDB
  BY DEF Init, SnapDays, Idle
<1>2. today \in 0..LastDay /\ tx \in [day : 0..LastDay + 1, end : 0..LastDay]
  BY CalendarAssumption DEF Init, NoTx, NoDate
<1>3. TableOK(legs, SnapDays)
  BY <1>1 DEF TableOK, Consistent, LegsIn
<1>4. TypeOK
  BY <1>1, <1>2 DEF TypeOK, IsDatabase, DB, SnapDays
<1> QED
  BY <1>1, <1>3, <1>4 DEF IInv

LEMMA NextKeeps ==
    ASSUME IInv, [Next]_vars
    PROVE  IInv'
<1>1. CASE NewDay
  <2>1. today' \in 0..LastDay /\ UNCHANGED <<legs, snap, tx, saved>>
    BY <1>1, CalendarAssumption DEF NewDay, IInv, TypeOK
  <2> QED
    BY <2>1 DEF IInv, TypeOK, IsDatabase, DB, SnapDays, Idle
<1>2. CASE UNCHANGED vars
  BY <1>2 DEF vars, IInv, TypeOK, IsDatabase, DB, SnapDays, Idle
<1> QED
  BY <1>1, <1>2, RequestKeeps, SnapshotRequestKeeps DEF Next

-----------------------------------------------------------------------------
(* The theorems                                                            *)

\* For every calendar, any platforms, groups and quantities, the tables of a book
\* and those a rollback restores are well typed and consistent.
THEOREM TradeBookInvariant == Spec => []IInv
<1> QED
  BY InitHolds, NextKeeps, PTL DEF Spec

\* Rows are typed, snapshots lie on trading days, and a rollback has what to restore.
THEOREM TradeBookTypeCorrect == Spec => []TypeOK
<1>1. IInv => TypeOK
  BY DEF IInv
<1> QED
  BY <1>1, TradeBookInvariant, PTL

\* The legs of every group belong together, in and out of recalculations, and
\* through the requests of both services on the same rows.
THEOREM GroupsAlwaysConsistent == Spec => []GroupsConsistent
<1>1. IInv => GroupsConsistent
  BY DEF IInv, TableOK, GroupsConsistent
<1> QED
  BY <1>1, TradeBookInvariant, PTL

\* Nothing pending lies behind a snapshot, but for sales whose confirmation was
\* withdrawn: what a chain has passed, it can pass again.
THEOREM PendingAlwaysAhead == Spec => []PendingLiesAhead
<1>1. IInv => PendingLiesAhead
  BY DEF IInv, TableOK, AheadOf, PendingLiesAhead, Pending, AfterLatest, WithdrawnSale
<1> QED
  BY <1>1, TradeBookInvariant, PTL

-----------------------------------------------------------------------------
(* What snapshots have counted                                             *)

Qty(table) == [k \in DOMAIN table |-> table[k].qty]
Amount(table, S) == SumFunctionOnSet(Qty(table), S)

\* The legs a snapshot of day d has counted, and those of one position.
Behind(table, d) ==
    {k \in DOMAIN table : table[k].status = "confirmed" /\ table[k].confirm <= d}
Booked(table, r, p, d) == {k \in Behind(table, d) : k[2] = r /\ table[k].platform = p}
OfType(table, S, type) == {k \in S : table[k].type = type}

\* A group moves its amount in two steps: the leg that starts and the one that
\* follows.  What has started only is owed to the portfolio.
Starts(table, k) == k[2] = "out" \/ (k[2] = "fund" /\ table[k].type = "sell")
Follower(k) == <<k[1], IF k[1] \notin Transfers /\ k[2] = "out" THEN "fund" ELSE "in">>
Owed(table, d) ==
    {k \in Behind(table, d) : Starts(table, k) /\ Follower(k) \notin Behind(table, d)}

RowOK(row) ==
    /\ row.cash \in [Platforms -> Int] /\ row.shares \in [Platforms -> Nat]
    /\ row.transit \in [Platforms -> Int] /\ row.dropped \in [Platforms -> Nat]
    /\ row.lost \in Int

\* A row adds up the legs its day has counted from the opening on, whatever was
\* built or rebuilt in between.
CashFits(table, d, row, p) ==
    row.cash[p] = OpeningCash[p] + Amount(table, Booked(table, "in", p, d))
                                 - Amount(table, Booked(table, "out", p, d))
SharesFit(table, d, row, p) ==
    row.shares[p] - row.dropped[p]
        = OpeningShares[p] + Amount(table, OfType(table, Booked(table, "fund", p, d), "buy"))
                           - Amount(table, OfType(table, Booked(table, "fund", p, d), "sell"))
RowFits(table, d, row) ==
    /\ RowOK(row)
    /\ \A p \in Platforms : CashFits(table, d, row, p) /\ SharesFit(table, d, row, p)
    /\ Sum(row.transit) + row.lost = Amount(table, Owed(table, d))
Fits(table, chain) == \A d \in DOMAIN chain : RowFits(table, d, chain[d])

BookInv ==
    /\ IInv
    /\ IsFiniteSet(DOMAIN legs) /\ Fits(legs, snap)
    /\ ~Idle => IsFiniteSet(DOMAIN saved.legs) /\ Fits(saved.legs, saved.snap)

\* Sets of legs are finite, and amounts are numbers.
LEMMA Amounts ==
    ASSUME NEW table, IsFiniteSet(DOMAIN table), table \in [DOMAIN table -> Leg],
           NEW S \in SUBSET DOMAIN table
    PROVE  /\ IsFiniteSet(S) /\ Amount(table, S) \in Nat
           /\ \A k \in DOMAIN table : Qty(table)[k] = table[k].qty /\ Qty(table)[k] \in Nat
           /\ \A T \in SUBSET S : /\ Amount(table, S) = Amount(table, T) + Amount(table, S \ T)
                                  /\ Amount(table, T) \in Nat /\ Amount(table, S \ T) \in Nat
<1>1. \A k \in DOMAIN table : Qty(table)[k] = table[k].qty /\ Qty(table)[k] \in Nat
  BY QuantityAssumption DEF Qty, Leg
<1>2. IsFiniteSet(S) /\ \A T \in SUBSET S : IsFiniteSet(T) /\ IsFiniteSet(S \ T)
  BY FS_Subset
<1>3. \A T \in SUBSET S : Amount(table, T) \in Nat /\ Amount(table, S \ T) \in Nat
  <2> SUFFICES ASSUME NEW T \in SUBSET S
               PROVE  Amount(table, T) \in Nat /\ Amount(table, S \ T) \in Nat
    OBVIOUS
  <2>1. \A k \in T : Qty(table)[k] \in Nat
    BY <1>1
  <2>2. \A k \in S \ T : Qty(table)[k] \in Nat
    BY <1>1
  <2> QED
    BY <1>2, <2>1, <2>2, SumNat DEF Amount
<1>4. ASSUME NEW T \in SUBSET S
      PROVE  Amount(table, S) = Amount(table, T) + Amount(table, S \ T)
  <2>1. \A k \in S : Qty(table)[k] \in Int
    BY <1>1
  <2> QED
    BY <1>2, <2>1, SumSplit DEF Amount
<1> QED
  BY <1>1, <1>2, <1>3, <1>4

\* A row looks at nothing but the legs behind its day.
LEMMA SameBooks ==
    ASSUME NEW table, NEW new, NEW d, NEW row, IsFiniteSet(DOMAIN table),
           Behind(new, d) = Behind(table, d),
           \A k \in Behind(table, d) : new[k] = table[k],
           RowFits(table, d, row)
    PROVE  RowFits(new, d, row)
<1>1. ASSUME NEW S \in SUBSET Behind(table, d)
      PROVE  Amount(new, S) = Amount(table, S)
  <2>1. IsFiniteSet(S)
    BY FS_Subset DEF Behind
  <2>2. \A k \in S : Qty(new)[k] = Qty(table)[k]
    BY DEF Qty, Behind
  <2> QED
    BY <2>1, <2>2, SumAgree DEF Amount
<1>2. \A r, p : /\ Booked(new, r, p, d) = Booked(table, r, p, d)
                /\ Booked(table, r, p, d) \in SUBSET Behind(table, d)
  BY DEF Booked
<1>3. \A r, p, type :
         /\ OfType(new, Booked(table, r, p, d), type) = OfType(table, Booked(table, r, p, d), type)
         /\ OfType(table, Booked(table, r, p, d), type) \in SUBSET Behind(table, d)
  BY DEF Booked, OfType
<1>4. Owed(new, d) = Owed(table, d) /\ Owed(table, d) \in SUBSET Behind(table, d)
  BY DEF Owed, Starts
<1>5. \A p \in Platforms : CashFits(new, d, row, p)
  BY <1>1, <1>2 DEF RowFits, CashFits
<1>6. \A p \in Platforms : SharesFit(new, d, row, p)
  <2> SUFFICES ASSUME NEW p \in Platforms PROVE SharesFit(new, d, row, p)
    OBVIOUS
  <2>1. \A type : Amount(new, OfType(new, Booked(new, "fund", p, d), type))
                     = Amount(table, OfType(table, Booked(table, "fund", p, d), type))
    BY <1>1, <1>2, <1>3
  <2> QED
    BY <2>1 DEF RowFits, SharesFit
<1>7. Amount(new, Owed(new, d)) = Amount(table, Owed(table, d))
  BY <1>1, <1>4
<1> QED
  BY <1>5, <1>6, <1>7 DEF RowFits

-----------------------------------------------------------------------------
(* Requests leave alone what snapshots have counted                        *)

\* A leg that no day of the chain counts.
Free(table, days, k) ==
    k \in DOMAIN table => table[k].status # "confirmed" \/ \A e \in days : e < table[k].confirm
Untouched(k) == k \in DOMAIN legs /\ k \in DOMAIN legs' /\ legs'[k] = legs[k]
Quiet(days) ==
    \A k \in DOMAIN legs \cup DOMAIN legs' :
        Untouched(k) \/ (Free(legs, days, k) /\ Free(legs', days, k))

LEMMA QuietKeeps ==
    ASSUME NEW days \in SUBSET Nat, Quiet(days), IsFiniteSet(DOMAIN legs),
           \A k \in DOMAIN legs : legs[k].confirm \in Nat,
           \A k \in DOMAIN legs' : legs'[k].confirm \in Nat,
           NEW chain, DOMAIN chain \subseteq days, Fits(legs, chain)
    PROVE  Fits(legs', chain)
<1> SUFFICES ASSUME NEW d \in DOMAIN chain PROVE RowFits(legs', d, chain[d])
  BY DEF Fits
<1>0. d \in days /\ d \in Nat
  OBVIOUS
<1>1. ASSUME NEW k \in DOMAIN legs, Free(legs, days, k)
      PROVE  k \notin Behind(legs, d)
  <2>1. legs[k].confirm \in Nat
    OBVIOUS
  <2> QED
    BY <1>0, <1>1, <2>1 DEF Free, Behind
<1>2. ASSUME NEW k \in DOMAIN legs', Free(legs', days, k)
      PROVE  k \notin Behind(legs', d)
  <2>1. legs'[k].confirm \in Nat
    OBVIOUS
  <2> QED
    BY <1>0, <1>2, <2>1 DEF Free, Behind
<1>3. Behind(legs', d) = Behind(legs, d) /\ \A k \in Behind(legs, d) : legs'[k] = legs[k]
  <2>1. \A k \in Behind(legs, d) : k \in DOMAIN legs /\ Untouched(k)
    BY <1>1 DEF Quiet, Behind
  <2>2. \A k \in Behind(legs', d) : k \in DOMAIN legs' /\ Untouched(k)
    BY <1>2 DEF Quiet, Behind
  <2> QED
    BY <2>1, <2>2 DEF Untouched, Behind
<1> QED
  BY <1>3, SameBooks DEF Fits

\* A group that passed validate_group_snapshot_free was counted by no day.
LEMMA GroupIsFree ==
    ASSUME NEW g, NEW dates, GroupFree(g, dates)
    PROVE  \A k \in DOMAIN legs : k[1] = g => Free(legs, SnapDays, k)
BY DEF GroupFree, LegsOf, LegsIn, AfterLatest, Free

\* Every request: at most the three legs of a group are new, and nothing counted
\* has changed.
Harmless == IsFiniteSet(DOMAIN legs) => IsFiniteSet(DOMAIN legs') /\ Quiet(SnapDays)

LEMMA AtMostThree ==
    ASSUME NEW g, IsFiniteSet(DOMAIN legs),
           DOMAIN legs' \subseteq DOMAIN legs \cup {<<g, "fund">>, <<g, "out">>, <<g, "in">>}
    PROVE  IsFiniteSet(DOMAIN legs')
<1>1. IsFiniteSet(DOMAIN legs \cup {<<g, "fund">>})
  BY FS_AddElement
<1>2. IsFiniteSet((DOMAIN legs \cup {<<g, "fund">>}) \cup {<<g, "out">>})
  BY <1>1, FS_AddElement
<1>3. IsFiniteSet(((DOMAIN legs \cup {<<g, "fund">>}) \cup {<<g, "out">>}) \cup {<<g, "in">>})
  BY <1>2, FS_AddElement
<1>4. DOMAIN legs' \in
         SUBSET (((DOMAIN legs \cup {<<g, "fund">>}) \cup {<<g, "out">>}) \cup {<<g, "in">>})
  OBVIOUS
<1> QED
  BY <1>3, <1>4, FS_Subset

LEMMA CreateBuyHarmless ==
    ASSUME IInv, NEW g \in Rebals, NEW p \in Platforms, NEW from \in Platforms,
           NEW d \in TradingDays, NEW q \in Quantities, CreateBuy(g, p, from, d, q)
    PROVE  Harmless
<1> DEFINE f == <<g, "fund">>
           o == <<g, "out">>
<1>1. PICK c \in TradingDays :
         legs' = Put(Put(legs, f, Row("buy", p, q, d, c, "pending")),
                     o, Row("sell", from, q, d, d, "confirmed"))
  BY DEF CreateBuy
<1>2. /\ DOMAIN legs' = DOMAIN legs \cup {f, o} /\ f # o
      /\ legs'[f] = Row("buy", p, q, d, c, "pending")
      /\ legs'[o] = Row("sell", from, q, d, d, "confirmed")
      /\ \A k \in DOMAIN legs \ {f, o} : legs'[k] = legs[k]
  BY <1>1, Keys DEF Put
<1>3. f \notin DOMAIN legs /\ o \notin DOMAIN legs
  BY Keys DEF CreateBuy, LegsOf, LegsIn
<1>4. Free(legs', SnapDays, f) /\ Free(legs', SnapDays, o)
  BY <1>2 DEF Free, Row, CreateBuy, Orderable, AfterLatest
<1>5. Quiet(SnapDays)
  BY <1>2, <1>3, <1>4 DEF Quiet, Free, Untouched
<1> QED
  BY <1>2, <1>5, AtMostThree DEF Harmless

LEMMA CreateSellHarmless ==
    ASSUME IInv, NEW g \in Rebals, NEW p \in Platforms,
           NEW d \in TradingDays, NEW q \in Quantities, CreateSell(g, p, d, q)
    PROVE  Harmless
<1> DEFINE f == <<g, "fund">>
<1>1. PICK c \in TradingDays : legs' = Put(legs, f, Row("sell", p, q, d, c, "pending"))
  BY DEF CreateSell
<1>2. /\ DOMAIN legs' = DOMAIN legs \cup {f}
      /\ legs'[f] = Row("sell", p, q, d, c, "pending")
      /\ \A k \in DOMAIN legs \ {f} : legs'[k] = legs[k]
  BY <1>1 DEF Put
<1>3. f \notin DOMAIN legs
  BY Keys DEF CreateSell, LegsOf, LegsIn
<1>4. Quiet(SnapDays)
  BY <1>2, <1>3 DEF Quiet, Free, Untouched, Row
<1> QED
  BY <1>2, <1>4, AtMostThree DEF Harmless

LEMMA UpdateTradeHarmless ==
    ASSUME IInv, NEW g \in Rebals, NEW d \in TradingDays, NEW q \in Quantities,
           UpdateTrade(g, d, q)
    PROVE  Harmless
<1> DEFINE f == <<g, "fund">>
           o == <<g, "out">>
           fund == legs[f]
<1>1. f \in DOMAIN legs /\ fund.status = "pending" /\ fund \in Leg
  BY Tables DEF UpdateTrade, Pending
<1>2. PICK c \in TradingDays :
         /\ d # fund.trade => AfterLatest(d)
         /\ GroupFree(g, IF d # fund.trade THEN {d, c} ELSE {})
         /\ legs' = UpdatedLegs(g, d, c, q)
  BY DEF UpdateTrade, Orderable
<1>3. /\ DOMAIN legs' = DOMAIN legs /\ f # o /\ f[1] = g /\ o[1] = g
      /\ legs'[f].status = "pending"
      /\ o \in DOMAIN legs => legs'[o].confirm = d
      /\ \A k \in DOMAIN legs \ {f, o} : legs'[k] = legs[k]
  <2>1. f # o /\ f[1] = g /\ o[1] = g
    BY Keys
  <2>2. legs'[f] = [fund EXCEPT !.trade = d, !.confirm = c, !.qty = q]
    BY <1>1, <1>2, <2>1 DEF UpdatedLegs
  <2>3. o \in DOMAIN legs =>
           legs[o] \in Leg /\ legs'[o] = [legs[o] EXCEPT !.trade = d, !.confirm = d, !.qty = q]
    BY <1>2, <2>1, Tables DEF UpdatedLegs
  <2> QED
    BY <1>1, <1>2, <2>1, <2>2, <2>3 DEF UpdatedLegs, Leg
<1>4. Free(legs, SnapDays, f) /\ Free(legs, SnapDays, o) /\ Free(legs', SnapDays, f)
  BY <1>2, <1>3, GroupIsFree DEF Free
<1>5. Free(legs', SnapDays, o)
  <2> SUFFICES ASSUME o \in DOMAIN legs PROVE AfterLatest(d)
    BY <1>3 DEF Free, AfterLatest
  <2>1. fund.type = "buy"
    <3>1. o \in LegsIn(legs, g) /\ f # o
      BY <1>3 DEF LegsIn
    <3>2. ~SaleConsistent(legs, g)
      BY <1>1, <3>1 DEF SaleConsistent
    <3> QED
      BY <1>1, <3>2, RebalShape DEF Leg
  <2>2. PurchaseConsistent(legs, g)
    BY <1>1, <2>1, RebalShape
  <2>3. legs[o].confirm = fund.trade /\ legs[o].status = "confirmed"
    BY <1>1, <2>2 DEF PurchaseConsistent
  <2>4. AfterLatest(fund.trade)
    BY <1>4, <2>3 DEF Free, AfterLatest
  <2> QED
    BY <1>2, <2>4
<1>6. Quiet(SnapDays)
  BY <1>3, <1>4, <1>5 DEF Quiet, Untouched
<1> QED
  BY <1>3, <1>6 DEF Harmless

LEMMA ConfirmBuyHarmless ==
    ASSUME IInv, NEW g \in Rebals, NEW c \in TradingDays, ConfirmBuy(g, c)
    PROVE  Harmless
<1> DEFINE f == <<g, "fund">>
           o == <<g, "out">>
           fund == legs[f]
<1>1. f \in DOMAIN legs /\ fund.status = "pending" /\ fund.type = "buy" /\ fund \in Leg
  BY Tables DEF ConfirmBuy, PendingFund, Pending
<1>2. PurchaseConsistent(legs, g) /\ f # o
  BY <1>1, RebalShape, Keys
<1>3. o \in DOMAIN legs /\ legs[o] \in Leg
  BY <1>2, Tables DEF PurchaseConsistent, LegsIn
<1>4. /\ DOMAIN legs' = DOMAIN legs
      /\ legs'[f] = [fund EXCEPT !.status = "confirmed", !.confirm = c]
      /\ legs'[o] = [legs[o] EXCEPT !.status = "confirmed", !.qty = fund.qty]
      /\ \A k \in DOMAIN legs \ {f, o} : legs'[k] = legs[k]
  BY <1>1, <1>2, <1>3 DEF ConfirmBuy
<1>5. legs'[o] = legs[o]
  <2>1. legs[o].qty = fund.qty /\ legs[o].status = "confirmed"
    BY <1>1, <1>2 DEF PurchaseConsistent
  <2>2. legs'[o] = [legs[o] EXCEPT !.status = legs[o].status, !.qty = legs[o].qty]
    BY <1>4, <2>1
  <2> QED
    BY <1>3, <2>2 DEF Leg
<1>6. Free(legs, SnapDays, f) /\ Free(legs', SnapDays, f)
  <2>1. legs'[f].confirm = c /\ AfterLatest(c)
    BY <1>1, <1>4 DEF Leg, ConfirmBuy, Confirmable, PlanAllows
  <2> QED
    BY <1>1, <2>1 DEF Free, AfterLatest
<1>7. Quiet(SnapDays)
  BY <1>3, <1>4, <1>5, <1>6 DEF Quiet, Untouched
<1> QED
  BY <1>4, <1>7 DEF Harmless

LEMMA ConfirmSellHarmless ==
    ASSUME IInv, NEW g \in Rebals, NEW c \in TradingDays, NEW to \in Platforms,
           NEW a \in TradingDays, ConfirmSell(g, c, to, a)
    PROVE  Harmless
<1> DEFINE f == <<g, "fund">>
           i == <<g, "in">>
           fund == legs[f]
<1>1. f \in DOMAIN legs /\ fund.status = "pending" /\ fund.type = "sell" /\ fund \in Leg
  BY Tables DEF ConfirmSell, PendingFund, Pending
<1>2. i \notin DOMAIN legs /\ f # i
  BY <1>1, RebalShape, Keys DEF SaleConsistent, LegsIn
<1>3. /\ DOMAIN legs' = DOMAIN legs \cup {i}
      /\ legs'[f] = [fund EXCEPT !.status = "confirmed", !.confirm = c]
      /\ legs'[i] = Row("buy", to, fund.qty, c, a, "confirmed")
      /\ \A k \in DOMAIN legs \ {f, i} : legs'[k] = legs[k]
  BY <1>1, <1>2 DEF ConfirmSell, Put
<1>4. AfterLatest(c) /\ a >= c /\ c \in Nat /\ a \in Nat /\ SnapDays \subseteq Nat
  BY Tables DEF ConfirmSell, Confirmable, PlanAllows, ArrivalAllowed
<1>5. Free(legs, SnapDays, f) /\ Free(legs', SnapDays, f) /\ Free(legs', SnapDays, i)
  <2>1. legs'[f].confirm = c /\ legs'[i].confirm = a
    BY <1>1, <1>3 DEF Leg, Row
  <2>2. \A e \in SnapDays : e < c /\ e < a
    BY <1>4 DEF AfterLatest
  <2> QED
    BY <1>1, <2>1, <2>2 DEF Free
<1>6. Quiet(SnapDays)
  BY <1>2, <1>3, <1>5 DEF Quiet, Untouched, Free
<1> QED
  BY <1>3, <1>6, AtMostThree DEF Harmless

LEMMA UpdateArrivalHarmless ==
    ASSUME IInv, NEW g \in Rebals, NEW a \in TradingDays, UpdateArrival(g, a)
    PROVE  Harmless
<1> DEFINE i == <<g, "in">>
<1>1. i \in DOMAIN legs /\ i[1] = g /\ legs[i] \in Leg
  BY Tables, Keys DEF UpdateArrival
<1>2. legs' = [legs EXCEPT ![i].confirm = a] /\ AfterLatest(a) /\ GroupFree(g, {a})
  BY DEF UpdateArrival, GroupFree
<1>3. /\ DOMAIN legs' = DOMAIN legs /\ legs'[i].confirm = a
      /\ \A k \in DOMAIN legs \ {i} : legs'[k] = legs[k]
  BY <1>1, <1>2 DEF Leg
<1>4. Free(legs, SnapDays, i) /\ Free(legs', SnapDays, i)
  BY <1>1, <1>2, <1>3, GroupIsFree DEF Free, AfterLatest
<1>5. Quiet(SnapDays)
  BY <1>3, <1>4 DEF Quiet, Untouched
<1> QED
  BY <1>3, <1>5 DEF Harmless

\* Requests that only act on a group no snapshot has counted, and leave nothing of
\* it confirmed that was not so before.
Withdrawn(g) ==
    /\ DOMAIN legs' \subseteq DOMAIN legs
    /\ \A k \in DOMAIN legs : k[1] # g => k \in DOMAIN legs' /\ legs'[k] = legs[k]
    /\ \A k \in DOMAIN legs' : k[1] = g => legs'[k].status # "confirmed" \/ legs'[k] = legs[k]

LEMMA FreeGroupHarmless ==
    ASSUME NEW g, NEW dates, GroupFree(g, dates), Withdrawn(g)
    PROVE  Harmless
<1> USE DEF Withdrawn
<1>1. \A k \in DOMAIN legs : k[1] = g => Free(legs, SnapDays, k) /\ Free(legs', SnapDays, k)
  BY GroupIsFree DEF Free
<1>2. Quiet(SnapDays)
  BY <1>1 DEF Quiet, Untouched
<1>3. DOMAIN legs' \in SUBSET DOMAIN legs
  OBVIOUS
<1> QED
  BY <1>2, <1>3, FS_Subset DEF Harmless

LEMMA CancelTradeHarmless ==
    ASSUME IInv, NEW g \in Rebals, CancelTrade(g)
    PROVE  Harmless
<1>1. /\ DOMAIN legs' = DOMAIN legs \ {<<g, "in">>} /\ GroupFree(g, {})
      /\ \A k \in DOMAIN legs' : k[1] # g => legs'[k] = legs[k]
      /\ \A k \in DOMAIN legs' : k[1] = g => legs'[k] = [legs[k] EXCEPT !.status = "cancelled"]
  BY DEF CancelTrade
<1>2. \A k \in DOMAIN legs' : k[1] = g => legs'[k].status = "cancelled"
  BY <1>1, Tables DEF Leg
<1>3. Withdrawn(g)
  BY <1>1, <1>2, Keys DEF Withdrawn
<1> QED
  BY <1>1, <1>3, FreeGroupHarmless

LEMMA UnconfirmTradeHarmless ==
    ASSUME IInv, NEW g \in Rebals, UnconfirmTrade(g)
    PROVE  Harmless
<1> DEFINE f == <<g, "fund">>
<1>1. f \in DOMAIN legs /\ legs[f] \in Leg /\ GroupFree(g, {}) /\ f # <<g, "in">>
  BY Tables, Keys DEF UnconfirmTrade, Confirmed
<1>2. PICK c \in TradingDays :
         legs' = Drop([legs EXCEPT ![f].status = "pending", ![f].confirm = c], {<<g, "in">>})
  BY DEF UnconfirmTrade
<1>3. /\ DOMAIN legs' = DOMAIN legs \ {<<g, "in">>}
      /\ \A k \in DOMAIN legs' \ {f} : legs'[k] = legs[k]
      /\ legs'[f].status = "pending"
  BY <1>1, <1>2 DEF Drop, Leg
<1>4. Withdrawn(g)
  BY <1>1, <1>3, Keys DEF Withdrawn
<1> QED
  BY <1>1, <1>4, FreeGroupHarmless

LEMMA DeleteHarmless ==
    ASSUME NEW g, NEW dates, GroupFree(g, dates), legs' = Drop(legs, LegsOf(g))
    PROVE  Harmless
<1>1. /\ DOMAIN legs' = DOMAIN legs \ LegsIn(legs, g)
      /\ \A k \in DOMAIN legs' : legs'[k] = legs[k]
  BY DEF Drop, LegsOf
<1>2. Withdrawn(g)
  BY <1>1 DEF Withdrawn, LegsIn
<1> QED
  BY <1>2, FreeGroupHarmless

LEMMA CreateTransferHarmless ==
    ASSUME IInv, NEW g \in Transfers, NEW from \in Platforms, NEW to \in Platforms,
           NEW d \in TradingDays, NEW q \in Quantities, NEW crossDay \in BOOLEAN,
           CreateTransfer(g, from, to, d, q, crossDay)
    PROVE  Harmless
<1> DEFINE o == <<g, "out">>
           i == <<g, "in">>
           status == IF crossDay THEN "pending" ELSE "confirmed"
<1>1. PICK a \in TradingDays :
         /\ a >= d
         /\ legs' = Put(Put(legs, o, Row("sell", from, q, d, d, "confirmed")),
                        i, Row("buy", to, q, d, a, status))
  <2>1. \A a \in TradingDays : Arrives(d, crossDay, a) => a >= d
    BY LaterTradingDay, Tables DEF Arrives
  <2> QED
    BY <2>1 DEF CreateTransfer
<1>2. o # i /\ o \notin DOMAIN legs /\ i \notin DOMAIN legs
  BY Keys DEF CreateTransfer, LegsOf, LegsIn
<1>3. /\ DOMAIN legs' = DOMAIN legs \cup {o, i}
      /\ legs'[o] = Row("sell", from, q, d, d, "confirmed")
      /\ legs'[i] = Row("buy", to, q, d, a, status)
      /\ \A k \in DOMAIN legs \ {o, i} : legs'[k] = legs[k]
  BY <1>1, <1>2 DEF Put
<1>4. \A e \in SnapDays : e < d /\ e < a
  BY <1>1, Tables DEF CreateTransfer, Orderable, AfterLatest
<1>5. Free(legs', SnapDays, o) /\ Free(legs', SnapDays, i)
  BY <1>3, <1>4 DEF Free, Row
<1>6. Quiet(SnapDays)
  BY <1>2, <1>3, <1>5 DEF Quiet, Untouched, Free
<1> QED
  BY <1>3, <1>6, AtMostThree DEF Harmless

\* Pending legs of transfers lie ahead of the chain, so confirming them adds
\* nothing to a day of it.
LEMMA ConfirmLegsHarmless ==
    ASSUME NEW days, TableOK(legs, days), NEW S \in SUBSET Pending,
           \A k \in S : k[1] \in Transfers, ConfirmLegs(S)
    PROVE  DOMAIN legs' = DOMAIN legs /\ Quiet(days)
<1>1. /\ DOMAIN legs' = DOMAIN legs
      /\ \A k \in DOMAIN legs \ S : legs'[k] = legs[k]
      /\ \A k \in S : k \in DOMAIN legs /\ legs[k].status = "pending"
                      /\ legs'[k] = [legs[k] EXCEPT !.status = "confirmed"]
  BY DEF ConfirmLegs, Pending
<1>2. ASSUME NEW k \in S PROVE Free(legs, days, k) /\ Free(legs', days, k)
  <2>1. k \in DOMAIN legs /\ k \in LegIds /\ legs[k] \in Leg /\ k[1] \in Transfers
        /\ legs[k].status = "pending"
    BY <1>1 DEF TableOK
  <2>2. k \in LegsIn(legs, k[1]) /\ k[1] \in Groups
    BY <2>1, Keys DEF LegsIn
  <2>3. LegsIn(legs, k[1]) = {<<k[1], "out">>, <<k[1], "in">>}
    BY <2>1, <2>2 DEF TableOK, Consistent, TransferConsistent
  <2>4. k[2] # "fund"
    BY <2>2, <2>3, Keys
  <2>5. \A e \in days : e < legs[k].confirm
    BY <2>1, <2>4 DEF TableOK, AheadOf
  <2>6. legs'[k].confirm = legs[k].confirm
    BY <1>1, <2>1 DEF Leg
  <2> QED
    BY <2>1, <2>5, <2>6 DEF Free
<1> QED
  BY <1>1, <1>2 DEF Quiet, Untouched

LEMMA SetStatusHarmless ==
    ASSUME IInv, NEW g \in Transfers, NEW status \in {"pending", "cancelled"},
           SetStatus(g, status), GroupFree(g, {})
    PROVE  Harmless
<1>1. /\ DOMAIN legs' = DOMAIN legs
      /\ \A k \in DOMAIN legs : k[1] # g => legs'[k] = legs[k]
      /\ \A k \in DOMAIN legs : k[1] = g => legs'[k] = [legs[k] EXCEPT !.status = status]
  BY DEF SetStatus
<1>2. \A k \in DOMAIN legs' : k[1] = g => legs'[k].status # "confirmed"
  BY <1>1, Tables DEF Leg
<1>3. Withdrawn(g)
  BY <1>1, <1>2 DEF Withdrawn
<1> QED
  BY <1>3, FreeGroupHarmless

LEMMA RequestHarmless ==
    ASSUME IInv, TradeRequest \/ TransferRequest
    PROVE  Harmless
<1>1. ASSUME NEW g \in Rebals, DeleteTrade(g)
      PROVE  Harmless
  BY <1>1, DeleteHarmless DEF DeleteTrade
<1>2. ASSUME NEW g \in Transfers, ConfirmTransfer(g)
      PROVE  Harmless
  <2>1. ConfirmLegs(LegsOf(g) \cap Pending)
    BY <1>2 DEF ConfirmTransfer
  <2>2. \A k \in LegsOf(g) \cap Pending : k[1] \in Transfers
    BY DEF LegsOf, LegsIn
  <2> QED
    BY <2>1, <2>2, Tables, ConfirmLegsHarmless DEF Harmless
<1>3. ASSUME NEW g \in Transfers, CancelTransfer(g)
      PROVE  Harmless
  BY <1>3, SetStatusHarmless DEF CancelTransfer
<1>4. ASSUME NEW g \in Transfers, NEW r \in {"out", "in"},
             UnconfirmTransferLeg(g, r) \/ CancelTransferLeg(g, r)
      PROVE  Harmless
  BY <1>4, SetStatusHarmless DEF UnconfirmTransferLeg, CancelTransferLeg
<1>5. ASSUME NEW g \in Transfers, NEW r \in {"out", "in"}, ConfirmTransferLeg(g, r)
      PROVE  Harmless
  <2>1. {<<g, r>>} \in SUBSET Pending /\ <<g, r>>[1] \in Transfers /\ ConfirmLegs({<<g, r>>})
    BY <1>5, Keys DEF ConfirmTransferLeg
  <2> QED
    BY <2>1, Tables, ConfirmLegsHarmless DEF Harmless
<1>6. ASSUME NEW g \in Transfers, NEW r \in {"out", "in"}, DeleteTransferLeg(g, r)
      PROVE  Harmless
  BY <1>6, DeleteHarmless DEF DeleteTransferLeg
<1>7. CASE TradeRequest
  BY <1>1, <1>7, CreateBuyHarmless, CreateSellHarmless, UpdateTradeHarmless, ConfirmBuyHarmless,
     ConfirmSellHarmless, UpdateArrivalHarmless, CancelTradeHarmless, UnconfirmTradeHarmless,
     PlannedDays DEF TradeRequest
<1>8. CASE TransferRequest
  BY <1>2, <1>3, <1>4, <1>5, <1>6, <1>8, CreateTransferHarmless DEF TransferRequest
<1> QED
  BY <1>7, <1>8

-----------------------------------------------------------------------------
(* Halves of a group                                                       *)

\* The leg that started what another one follows.
Source(k) == <<k[1], IF k[2] = "fund" \/ k[1] \in Transfers THEN "out" ELSE "fund">>

LEMMA GroupOfLeg ==
    ASSUME NEW days, TableOK(legs, days), NEW k \in DOMAIN legs
    PROVE  /\ k[1] \in Groups /\ k[2] \in {"fund", "out", "in"} /\ k = <<k[1], k[2]>>
           /\ legs[k] \in Leg /\ k \in LegsIn(legs, k[1])
           /\ \A j \in LegsIn(legs, k[1]) : j \in DOMAIN legs
           /\ k[1] \in Transfers => TransferConsistent(legs, k[1])
           /\ k[1] \notin Transfers /\ legs[<<k[1], "fund">>].type = "buy" => PurchaseConsistent(legs, k[1])
           /\ k[1] \notin Transfers /\ legs[<<k[1], "fund">>].type # "buy" => SaleConsistent(legs, k[1])
<1>1. k[1] \in Groups /\ k[2] \in {"fund", "out", "in"} /\ k = <<k[1], k[2]>> /\ legs[k] \in Leg
  BY Keys DEF TableOK
<1>2. k \in LegsIn(legs, k[1]) /\ \A j \in LegsIn(legs, k[1]) : j \in DOMAIN legs
  BY DEF LegsIn
<1> QED
  BY <1>1, <1>2 DEF TableOK, Consistent

\* What follows has something it follows, for the same amount and not after it.
LEMMA Followers ==
    ASSUME NEW days \in SUBSET Nat, TableOK(legs, days), NEW k \in DOMAIN legs, ~Starts(legs, k)
    PROVE  /\ Source(k) \in DOMAIN legs /\ Starts(legs, Source(k)) /\ Follower(Source(k)) = k
           /\ legs[Source(k)].qty = legs[k].qty
           /\ \A d \in days : k \in Behind(legs, d) => Source(k) \in Behind(legs, d)
<1> DEFINE g == k[1]
           f == <<g, "fund">>
           o == <<g, "out">>
           i == <<g, "in">>
<1>1. k \in {f, i} /\ (k = f => legs[k].type = "buy")
  <2>1. k = <<g, k[2]>> /\ k[2] \in {"fund", "out", "in"} /\ legs[k].type \in {"buy", "sell"}
    BY GroupOfLeg DEF Leg
  <2>2. k[2] # "out" /\ (k[2] = "fund" => legs[k].type # "sell")
    BY DEF Starts
  <2>3. k = f => k[2] = "fund"
    BY Keys
  <2> HIDE DEF g
  <2> QED
    BY <2>1, <2>2, <2>3
<1>2. f # i /\ f # o /\ o # i /\ f[1] = g /\ o[1] = g /\ i[1] = g
      /\ f[2] = "fund" /\ o[2] = "out" /\ i[2] = "in"
  BY Keys
<1>3. CASE g \in Transfers
  <2>1. TransferConsistent(legs, g) /\ LegsIn(legs, g) = {o, i} /\ k = i
    BY <1>1, <1>2, <1>3, GroupOfLeg DEF TransferConsistent
  <2>2. Source(k) = o /\ o \in DOMAIN legs /\ Follower(o) = k /\ legs[o] \in Leg
    BY <1>2, <1>3, <2>1, GroupOfLeg DEF Source, Follower, TableOK
  <2>3. Starts(legs, o) /\ legs[o].qty = legs[k].qty
    BY <1>2, <2>1 DEF Starts, TransferConsistent
  <2>4. ASSUME NEW d \in days, k \in Behind(legs, d) PROVE o \in Behind(legs, d)
    <3>1. legs[k].status = "confirmed" /\ legs[k].confirm <= d
      BY <2>4 DEF Behind
    <3>2. /\ legs[o].confirm <= legs[k].confirm /\ legs[o].status # "cancelled"
      BY <2>1, <3>1 DEF TransferConsistent
    <3>3. legs[o].confirm \in Nat /\ legs[k].confirm \in Nat /\ d \in Nat
      BY <2>2, GroupOfLeg, DaysAreNumbers DEF Leg
    <3>4. legs[o].status # "pending"
      BY <1>2, <2>2, <3>1, <3>2, <3>3 DEF TableOK, AheadOf
    <3>5. legs[o].status = "confirmed"
      BY <2>2, <3>2, <3>4 DEF Leg
    <3> QED
      BY <2>2, <3>1, <3>2, <3>3, <3>5 DEF Behind
  <2> QED
    BY <2>2, <2>3, <2>4
<1>4. CASE g \notin Transfers /\ legs[f].type = "buy"
  <2>1. PurchaseConsistent(legs, g) /\ LegsIn(legs, g) = {f, o} /\ k = f
    BY <1>1, <1>2, <1>4, GroupOfLeg DEF PurchaseConsistent
  <2>2. Source(k) = o /\ o \in DOMAIN legs /\ Follower(o) = k /\ legs[o] \in Leg
    BY <1>2, <1>4, <2>1, GroupOfLeg DEF Source, Follower, TableOK
  <2>3. Starts(legs, o) /\ legs[o].qty = legs[k].qty
    BY <1>2, <2>1 DEF Starts, PurchaseConsistent
  <2>4. ASSUME NEW d \in days, k \in Behind(legs, d) PROVE o \in Behind(legs, d)
    <3>1. legs[k].status = "confirmed" /\ legs[k].confirm <= d
      BY <2>4 DEF Behind
    <3>2. /\ legs[o].confirm <= legs[k].confirm /\ legs[o].status = "confirmed"
      BY <2>1, <3>1 DEF PurchaseConsistent
    <3>3. legs[o].confirm \in Nat /\ legs[k].confirm \in Nat /\ d \in Nat
      BY <2>2, GroupOfLeg, DaysAreNumbers DEF Leg
    <3> QED
      BY <2>2, <3>1, <3>2, <3>3 DEF Behind
  <2> QED
    BY <2>2, <2>3, <2>4
<1>5. CASE g \notin Transfers /\ legs[f].type # "buy"
  <2>1. SaleConsistent(legs, g) /\ k = i
    BY <1>1, <1>5, GroupOfLeg
  <2>2. legs[f].status = "confirmed" /\ LegsIn(legs, g) = {f, i} /\ legs[f].qty = legs[i].qty
        /\ legs[f].confirm <= legs[i].confirm
    BY <1>2, <2>1, GroupOfLeg DEF SaleConsistent
  <2>3. f \in DOMAIN legs /\ legs[f] \in Leg
    BY <2>2, GroupOfLeg DEF TableOK
  <2>4. Source(k) = f /\ Follower(f) = k /\ Starts(legs, f)
    BY <1>2, <1>5, <2>1, <2>3 DEF Source, Follower, Starts, Leg
  <2>5. ASSUME NEW d \in days, k \in Behind(legs, d) PROVE f \in Behind(legs, d)
    <3>1. legs[f].confirm \in Nat /\ legs[k].confirm \in Nat /\ d \in Nat
      BY <2>3, GroupOfLeg, DaysAreNumbers DEF Leg
    <3> QED
      BY <2>1, <2>2, <2>3, <2>5, <3>1 DEF Behind
  <2> QED
    BY <2>1, <2>2, <2>3, <2>4, <2>5
<1> QED
  BY <1>3, <1>4, <1>5

\* What has started has a leg that follows or will.
LEMMA Starters ==
    ASSUME NEW days, TableOK(legs, days), NEW k \in DOMAIN legs, Starts(legs, k),
           legs[k].status = "confirmed"
    PROVE  /\ Follower(k) \in DOMAIN legs /\ ~Starts(legs, Follower(k)) /\ Source(Follower(k)) = k
           /\ legs[Follower(k)].status # "cancelled"
<1> DEFINE g == k[1]
           f == <<g, "fund">>
           o == <<g, "out">>
           i == <<g, "in">>
<1>1. k \in {f, o} /\ (k = f => legs[k].type = "sell")
  BY GroupOfLeg DEF Starts
<1>2. f # i /\ f # o /\ o # i /\ f[1] = g /\ o[1] = g /\ i[1] = g
      /\ f[2] = "fund" /\ o[2] = "out" /\ i[2] = "in"
  BY Keys
<1>3. CASE g \in Transfers
  <2>1. TransferConsistent(legs, g) /\ LegsIn(legs, g) = {o, i} /\ k = o
    BY <1>1, <1>2, <1>3, GroupOfLeg DEF TransferConsistent
  <2>2. i \in DOMAIN legs /\ Follower(k) = i /\ Source(i) = k /\ ~Starts(legs, i)
    BY <1>2, <1>3, <2>1, GroupOfLeg DEF Source, Follower, Starts
  <2> QED
    BY <2>1, <2>2 DEF TransferConsistent
<1>4. CASE g \notin Transfers /\ legs[f].type = "buy"
  <2>1. PurchaseConsistent(legs, g) /\ LegsIn(legs, g) = {f, o} /\ k = o
    BY <1>1, <1>2, <1>4, GroupOfLeg DEF PurchaseConsistent
  <2>2. f \in DOMAIN legs /\ Follower(k) = f /\ Source(f) = k /\ ~Starts(legs, f)
    BY <1>2, <1>4, <2>1, GroupOfLeg DEF Source, Follower, Starts
  <2> QED
    BY <2>1, <2>2 DEF PurchaseConsistent
<1>5. CASE g \notin Transfers /\ legs[f].type # "buy"
  <2>1. SaleConsistent(legs, g)
    BY <1>5, GroupOfLeg
  <2>2. k = f
    BY <1>1, <1>2, <2>1, GroupOfLeg DEF SaleConsistent
  <2>3. LegsIn(legs, g) = {f, i} /\ legs[i].status = "confirmed"
    BY <2>1, <2>2 DEF SaleConsistent
  <2>4. i \in DOMAIN legs /\ Follower(k) = i /\ Source(i) = k /\ ~Starts(legs, i)
    BY <1>2, <1>5, <2>2, <2>3, GroupOfLeg DEF Source, Follower, Starts
  <2> QED
    BY <2>3, <2>4
<1> QED
  BY <1>3, <1>4, <1>5

\* What has started by a day, has been followed or is owed.
LEMMA HalvesAddUp ==
    ASSUME NEW days \in SUBSET Nat, TableOK(legs, days), IsFiniteSet(DOMAIN legs), NEW d \in days
    PROVE  Amount(legs, {k \in Behind(legs, d) : Starts(legs, k)})
              = Amount(legs, {k \in Behind(legs, d) : ~Starts(legs, k)}) + Amount(legs, Owed(legs, d))
<1> DEFINE B == Behind(legs, d)
           from == {k \in B : Starts(legs, k)}
           follow == {k \in B : ~Starts(legs, k)}
           to == [k \in follow |-> Source(k)]
<1>1. legs \in [DOMAIN legs -> Leg] /\ B \in SUBSET DOMAIN legs
  BY DEF TableOK, Behind
<1>2. Owed(legs, d) \in SUBSET from
  BY DEF Owed
<1>3. {to[k] : k \in follow} = from \ Owed(legs, d)
  <2>1. ASSUME NEW k \in follow PROVE to[k] \in from \ Owed(legs, d)
    BY <1>1, Followers DEF Owed
  <2>2. ASSUME NEW k \in from \ Owed(legs, d) PROVE \E j \in follow : to[j] = k
    <3>1. Follower(k) \in B /\ k \in DOMAIN legs /\ legs[k].status = "confirmed"
      BY <1>1 DEF Owed, Behind
    <3>2. Follower(k) \in follow /\ Source(Follower(k)) = k
      BY <3>1, Starters
    <3> QED
      BY <3>2
  <2> QED
    BY <2>1, <2>2
<1>4. \A k \in follow : Qty(legs)[k] \in Int /\ Qty(legs)[to[k]] = Qty(legs)[k]
  <2> SUFFICES ASSUME NEW k \in follow
               PROVE  Qty(legs)[k] \in Int /\ Qty(legs)[to[k]] = Qty(legs)[k]
    OBVIOUS
  <2>1. /\ k \in DOMAIN legs /\ Source(k) \in DOMAIN legs /\ legs[Source(k)].qty = legs[k].qty
    BY <1>1, Followers
  <2>2. \A j \in DOMAIN legs : Qty(legs)[j] = legs[j].qty /\ Qty(legs)[j] \in Nat
    BY <1>1, Amounts
  <2> QED
    BY <2>1, <2>2
<1>5. \A j, k \in follow : to[j] = to[k] => j = k
  BY <1>1, Followers
<1>6. IsFiniteSet(follow)
  BY <1>1, FS_Subset
<1>7. SumFunctionOnSet(Qty(legs), {to[k] : k \in follow}) = SumFunctionOnSet(Qty(legs), follow)
  <2> HIDE DEF to, follow
  <2> QED BY <1>4, <1>5, <1>6, SumCarried
<1>8. Amount(legs, from \ Owed(legs, d)) = Amount(legs, follow)
  BY <1>3, <1>7 DEF Amount
<1>9. from \in SUBSET DOMAIN legs
  BY <1>1
<1> HIDE DEF from, follow, to, B
<1>10. /\ Amount(legs, from) = Amount(legs, Owed(legs, d)) + Amount(legs, from \ Owed(legs, d))
       /\ Amount(legs, Owed(legs, d)) \in Nat /\ Amount(legs, from \ Owed(legs, d)) \in Nat
  BY <1>1, <1>2, <1>9, Amounts
<1>11. Amount(legs, from) = Amount(legs, follow) + Amount(legs, Owed(legs, d))
  BY <1>8, <1>10
<1> QED
  BY <1>11 DEF from, follow, B

\* The cash legs of the groups half done by day d.
Carriers(table, d) ==
    {k \in DOMAIN table :
        \/ k[2] = "in" /\ k \notin Behind(table, d) /\ Source(k) \in Behind(table, d)
        \/ k[2] = "out" /\ k[1] \notin Transfers
           /\ k \in Behind(table, d) /\ Follower(k) \notin Behind(table, d)}

LEMMA CarriersOwed ==
    ASSUME NEW days \in SUBSET Nat, TableOK(legs, days), IsFiniteSet(DOMAIN legs), NEW d
    PROVE  Amount(legs, Carriers(legs, d)) = Amount(legs, Owed(legs, d))
<1> DEFINE B == Behind(legs, d)
           C == Carriers(legs, d)
           to == [k \in C |-> IF k[2] = "in" THEN Source(k) ELSE k]
<1>1. legs \in [DOMAIN legs -> Leg] /\ B \in SUBSET DOMAIN legs /\ C \in SUBSET DOMAIN legs
  BY DEF TableOK, Behind, Carriers
<1>2. \A k \in C : k[2] = "in" => ~Starts(legs, k)
  BY DEF Starts
<1>3. ASSUME NEW k \in C
      PROVE  /\ to[k] \in Owed(legs, d) /\ legs[to[k]].qty = legs[k].qty
             /\ k[2] = "in" => Follower(to[k]) = k
             /\ k[2] # "in" => Follower(to[k])[2] = "fund"
  <2>1. CASE k[2] = "in"
    BY <1>1, <1>2, <2>1, Followers DEF Carriers, Owed
  <2>2. CASE k[2] # "in"
    <3>1. k[2] = "out" /\ k \in B /\ Follower(k) \notin B /\ k[1] \notin Transfers /\ to[k] = k
      BY <2>2 DEF Carriers
    <3>2. Follower(k)[2] = "fund"
      BY <3>1 DEF Follower
    <3> QED
      BY <2>2, <3>1, <3>2 DEF Owed, Starts
  <2> QED
    BY <2>1, <2>2
<1>4. ASSUME NEW k \in Owed(legs, d) PROVE \E j \in C : to[j] = k
  <2>1. k \in B /\ Starts(legs, k) /\ Follower(k) \notin B /\ k \in DOMAIN legs
        /\ legs[k].status = "confirmed"
    BY DEF Owed, Behind
  <2>2. /\ Follower(k) \in DOMAIN legs /\ Source(Follower(k)) = k
    BY <2>1, Starters
  <2>3. CASE k[2] = "out" /\ k[1] \notin Transfers
    <3>1. k \in C /\ to[k] = k
      BY <2>1, <2>3 DEF Carriers
    <3> QED
      BY <3>1
  <2>4. CASE ~(k[2] = "out" /\ k[1] \notin Transfers)
    <3>1. Follower(k)[2] = "in"
      BY <2>4 DEF Follower
    <3>2. Follower(k) \in C /\ to[Follower(k)] = k
      BY <2>1, <2>2, <3>1 DEF Carriers
    <3> QED
      BY <3>2
  <2> QED
    BY <2>3, <2>4
<1>5. {to[k] : k \in C} = Owed(legs, d)
  <2> HIDE DEF to, C
  <2> QED BY <1>3, <1>4
<1>6. \A k \in C : Qty(legs)[k] \in Int /\ Qty(legs)[to[k]] = Qty(legs)[k]
  <2> SUFFICES ASSUME NEW k \in C
               PROVE  Qty(legs)[k] \in Int /\ Qty(legs)[to[k]] = Qty(legs)[k]
    OBVIOUS
  <2>1. k \in DOMAIN legs /\ to[k] \in DOMAIN legs /\ legs[to[k]].qty = legs[k].qty
    <3>1. Owed(legs, d) \in SUBSET DOMAIN legs
      BY DEF Owed, Behind
    <3> HIDE DEF to, C
    <3> QED BY <1>1, <1>3, <3>1
  <2>2. \A j \in DOMAIN legs : Qty(legs)[j] = legs[j].qty /\ Qty(legs)[j] \in Nat
    BY <1>1, Amounts
  <2> HIDE DEF to, C
  <2> QED
    BY <2>1, <2>2
<1>7. \A j, k \in C : to[j] = to[k] => j = k
  <2> SUFFICES ASSUME NEW j \in C, NEW k \in C, to[j] = to[k] PROVE j = k
    OBVIOUS
  <2>1. j[2] = "in" /\ k[2] = "in" => j = k
    <3> HIDE DEF to, C
    <3> QED BY <1>3
  <2>2. j[2] # "in" /\ k[2] # "in" => j = k
    OBVIOUS
  <2>3. ~(j[2] = "in" /\ k[2] # "in") /\ ~(j[2] # "in" /\ k[2] = "in")
    <3> HIDE DEF to, C
    <3> QED BY <1>3
  <2> QED
    BY <2>1, <2>2, <2>3
<1>8. IsFiniteSet(C)
  BY <1>1, FS_Subset
<1>9. SumFunctionOnSet(Qty(legs), {to[k] : k \in C}) = SumFunctionOnSet(Qty(legs), C)
  <2> HIDE DEF to, C
  <2> QED BY <1>6, <1>7, <1>8, SumCarried
<1> QED
  BY <1>5, <1>9 DEF Amount

-----------------------------------------------------------------------------
(* Building a day                                                          *)

LEMMA TotalIsAmount ==
    ASSUME IsFiniteSet(DOMAIN legs), NEW S \in SUBSET DOMAIN legs
    PROVE  Total(S) = Amount(legs, S)
<1> DEFINE F == [k \in S |-> legs[k].qty]
<1>1. IsFiniteSet(S)
  BY FS_Subset
<1>2. \A k \in S : F[k] = Qty(legs)[k]
  BY DEF Qty
<1>3. SumFunctionOnSet(F, S) = SumFunctionOnSet(Qty(legs), S)
  <2> HIDE DEF F
  <2> QED BY <1>1, <1>2, SumAgree
<1> QED
  BY <1>3 DEF Total, Amount

LEMMA ByPlatform ==
    ASSUME IsFiniteSet(DOMAIN legs), legs \in [DOMAIN legs -> Leg],
           NEW S \in SUBSET DOMAIN legs
    PROVE  Sum([p \in Platforms |-> Amount(legs, {k \in S : legs[k].platform = p})])
              = Amount(legs, S)
<1> DEFINE owner == [k \in DOMAIN legs |-> legs[k].platform]
           parts == [p \in Platforms |-> Amount(legs, {k \in S : legs[k].platform = p})]
<1>1. IsFiniteSet(S) /\ \A k \in S : Qty(legs)[k] \in Int
  BY Amounts
<1>2. \A k \in S : owner[k] \in Platforms
  BY DEF Leg
<1>3. ASSUME NEW p \in Platforms
      PROVE  parts[p] = SumFunctionOnSet(Qty(legs), PartOf(S, owner, p))
  <2>1. PartOf(S, owner, p) = {k \in S : legs[k].platform = p}
    BY DEF PartOf
  <2> QED
    BY <2>1 DEF Amount
<1>4. SumFunctionOnSet(parts, Platforms) = SumFunctionOnSet(Qty(legs), S)
  <2> HIDE DEF parts, owner
  <2> QED BY <1>1, <1>2, <1>3, PlatformAssumption, SumOfSums
<1> QED
  BY <1>4 DEF Sum, Amount

\* The legs a day adds to those of the day it is built on.
LEMMA WindowAdds ==
    ASSUME IInv, IsFiniteSet(DOMAIN legs), NEW b \in Nat, NEW d \in Nat, b < d, NEW r, NEW p
    PROVE  /\ Total(Window(r, p, b, d))
                = Amount(legs, Booked(legs, r, p, d)) - Amount(legs, Booked(legs, r, p, b))
           /\ \A type :
                 Total({k \in Window(r, p, b, d) : legs[k].type = type})
                    = Amount(legs, OfType(legs, Booked(legs, r, p, d), type))
                          - Amount(legs, OfType(legs, Booked(legs, r, p, b), type))
<1>1. legs \in [DOMAIN legs -> Leg] /\ \A k \in DOMAIN legs : legs[k].confirm \in Nat
  BY DaysAreNumbers DEF IInv, TableOK, Leg
<1>2. /\ Window(r, p, b, d) = Booked(legs, r, p, d) \ Booked(legs, r, p, b)
      /\ Booked(legs, r, p, b) \in SUBSET Booked(legs, r, p, d)
      /\ Booked(legs, r, p, d) \in SUBSET DOMAIN legs
  BY <1>1 DEF Window, WithRole, Confirmed, Booked, Behind
<1>3. Total(Window(r, p, b, d))
         = Amount(legs, Booked(legs, r, p, d)) - Amount(legs, Booked(legs, r, p, b))
  <2> DEFINE S == Booked(legs, r, p, d)
             T == Booked(legs, r, p, b)
  <2>1. S \in SUBSET DOMAIN legs /\ T \in SUBSET S /\ Window(r, p, b, d) = S \ T
    BY <1>2
  <2> HIDE DEF S, T
  <2>2. /\ Amount(legs, S) = Amount(legs, T) + Amount(legs, S \ T)
        /\ Amount(legs, T) \in Nat /\ Amount(legs, S \ T) \in Nat
    BY <1>1, <2>1, Amounts
  <2>3. Total(S \ T) = Amount(legs, S \ T)
    BY <2>1, TotalIsAmount
  <2>4. Total(S \ T) = Amount(legs, S) - Amount(legs, T)
    BY <2>2, <2>3
  <2> QED
    BY <2>1, <2>4 DEF S, T
<1>4. ASSUME NEW type
      PROVE  Total({k \in Window(r, p, b, d) : legs[k].type = type})
                = Amount(legs, OfType(legs, Booked(legs, r, p, d), type))
                      - Amount(legs, OfType(legs, Booked(legs, r, p, b), type))
  <2> DEFINE S == OfType(legs, Booked(legs, r, p, d), type)
             T == OfType(legs, Booked(legs, r, p, b), type)
             W == {k \in Window(r, p, b, d) : legs[k].type = type}
  <2>1. S \in SUBSET DOMAIN legs /\ T \in SUBSET S /\ W = S \ T
    BY <1>2 DEF OfType
  <2> HIDE DEF S, T, W
  <2>2. /\ Amount(legs, S) = Amount(legs, T) + Amount(legs, S \ T)
        /\ Amount(legs, T) \in Nat /\ Amount(legs, S \ T) \in Nat
    BY <1>1, <2>1, Amounts
  <2>3. Total(S \ T) = Amount(legs, S \ T)
    BY <2>1, TotalIsAmount
  <2>4. Total(W) = Amount(legs, S) - Amount(legs, T)
    BY <2>1, <2>2, <2>3
  <2> QED
    BY <2>4 DEF S, T, W
<1> QED
  BY <1>3, <1>4

\* The day a build starts from.
LEMMA LastDayBefore ==
    ASSUME IInv, NEW d \in TradingDays
    PROVE  /\ LastSnapUpTo(d - 1) \in SnapDays /\ LastSnapUpTo(d - 1) < d
           /\ LastSnapUpTo(d - 1) \in Nat /\ d \in Nat
<1>1. d \in Nat /\ d > 0 /\ SnapDays \subseteq 0..LastDay /\ 0 \in SnapDays
  BY ChainDays, CalendarAssumption DEF Days
<1> DEFINE S == {e \in SnapDays : e <= d - 1}
<1>2. S \in SUBSET (0..LastDay) /\ 0 \in S
  <2>1. 0 <= d - 1
    BY <1>1
  <2> QED
    BY <1>1, <2>1
<1>3. Max(S) \in S
  <2> HIDE DEF S
  <2> QED BY <1>2, MaxOfDays
<1> QED
  BY <1>1, <1>2, <1>3 DEF LastSnapUpTo

\* At a build, the sets in transit and those confirmed ahead are the cash legs of
\* the groups half done.
LEMMA TransitIsCarriers ==
    ASSUME IInv, NEW d \in Nat, NoPendingDue(d)
    PROVE  /\ BuyTransit(d) \cup SellTransit(d) \cup TransferTransit(d) \cup ConfirmedAhead(d)
                 = Carriers(legs, d)
           /\ (BuyTransit(d) \cup SellTransit(d) \cup TransferTransit(d)) \cap ConfirmedAhead(d) = {}
<1>0. TableOK(legs, SnapDays) /\ TableOK(legs, {d})
  BY Tables DEF TableOK, AheadOf, NoPendingDue, Pending
<1>1. \A k \in DOMAIN legs : /\ legs[k].confirm \in Nat /\ legs[k] \in Leg
                             /\ legs[k].status \in {"pending", "confirmed", "cancelled"}
  BY <1>0, DaysAreNumbers DEF TableOK, Leg
<1>2. ASSUME NEW k \in DOMAIN legs, k[2] = "out", k[1] \notin Transfers
      PROVE  k \in Carriers(legs, d) <=> k \in BuyTransit(d)
  <2> DEFINE f == <<k[1], "fund">>
  <2>1. k[1] \in Rebals /\ Follower(k) = f /\ k # f
    BY <1>0, <1>2, GroupOfLeg DEF Follower, Groups
  <2>2. legs[f].type = "buy" /\ PurchaseConsistent(legs, k[1])
    BY <1>0, <1>2, <2>1, GroupOfLeg, Keys DEF SaleConsistent
  <2>3. f \in DOMAIN legs /\ k = <<k[1], "out">>
    BY <1>0, <1>2, <2>2, GroupOfLeg DEF PurchaseConsistent
  <2>4. k \in Confirmed => legs[f].status \in {"pending", "confirmed"}
    BY <1>1, <2>2, <2>3 DEF PurchaseConsistent, Confirmed
  <2>5. f \notin Behind(legs, d) <=> legs[f].status # "confirmed" \/ legs[f].confirm > d
    BY <1>1, <2>3 DEF Behind
  <2> QED
    BY <1>1, <1>2, <2>1, <2>3, <2>4, <2>5 DEF Carriers, BuyTransit, WithRole, Confirmed, Pending, Behind
<1>3. ASSUME NEW k \in DOMAIN legs, k[2] = "in", k[1] \notin Transfers
      PROVE  k \in Carriers(legs, d) <=> k \in SellTransit(d)
  <2> DEFINE f == <<k[1], "fund">>
  <2>1. k[1] \in Rebals /\ Source(k) = f /\ k = <<k[1], "in">> /\ k # f /\ k # <<k[1], "out">>
    BY <1>0, <1>3, GroupOfLeg, Keys DEF Source, Groups
  <2>2. legs[f].type # "buy" /\ SaleConsistent(legs, k[1])
    BY <1>0, <1>3, <2>1, GroupOfLeg DEF PurchaseConsistent
  <2>3. legs[f].status = "confirmed" /\ f \in DOMAIN legs /\ legs[k].status = "confirmed"
    BY <1>0, <1>3, <2>1, <2>2, GroupOfLeg DEF SaleConsistent
  <2>4. f \in Behind(legs, d) <=> legs[f].confirm <= d
    BY <2>3 DEF Behind
  <2>5. k \notin Behind(legs, d) <=> legs[k].confirm > d
    BY <1>1, <2>3 DEF Behind
  <2> QED
    BY <1>3, <2>1, <2>3, <2>4, <2>5 DEF Carriers, SellTransit, WithRole, Confirmed, Pending
<1>4. ASSUME NEW k \in DOMAIN legs, k[2] = "in", k[1] \in Transfers
      PROVE  k \in Carriers(legs, d) <=> k \in TransferTransit(d) \/ k \in ConfirmedAhead(d)
  <2> DEFINE o == <<k[1], "out">>
  <2>1. Source(k) = o /\ k = <<k[1], "in">> /\ TransferConsistent(legs, k[1])
    BY <1>0, <1>4, GroupOfLeg DEF Source
  <2>2. o \in DOMAIN legs /\ (legs[k].status = "cancelled" <=> legs[o].status = "cancelled")
    BY <1>0, <2>1, GroupOfLeg DEF TransferConsistent
  <2>3. k \in SentBy(d) <=> o \in Behind(legs, d)
    BY <1>4, <2>2 DEF SentBy, WithRole, Confirmed, Behind
  <2>4. legs[k].status = "pending" => d < legs[k].confirm
    BY DEF NoPendingDue, Pending
  <2>5. k \notin Behind(legs, d) <=> legs[k].status # "confirmed" \/ legs[k].confirm > d
    BY <1>1 DEF Behind
  <2>6. o \in Behind(legs, d) => legs[k].status \in {"pending", "confirmed"}
    BY <1>1, <2>2 DEF Behind
  <2> QED
    BY <1>4, <2>1, <2>3, <2>4, <2>5, <2>6 DEF Carriers, TransferTransit, ConfirmedAhead, Pending, Confirmed
<1>5. /\ BuyTransit(d) \subseteq {k \in DOMAIN legs : k[2] = "out" /\ k[1] \notin Transfers}
      /\ SellTransit(d) \subseteq {k \in DOMAIN legs : k[2] = "in" /\ k[1] \notin Transfers}
      /\ TransferTransit(d) \subseteq {k \in DOMAIN legs : k[2] = "in" /\ k[1] \in Transfers}
      /\ ConfirmedAhead(d) \subseteq {k \in DOMAIN legs : k[2] = "in" /\ k[1] \in Transfers}
  BY GroupAssumption DEF BuyTransit, SellTransit, TransferTransit, ConfirmedAhead, SentBy, WithRole
<1>6. Carriers(legs, d) \subseteq {k \in DOMAIN legs :
                                     k[2] = "in" \/ (k[2] = "out" /\ k[1] \notin Transfers)}
  BY DEF Carriers
<1>7. TransferTransit(d) \cap ConfirmedAhead(d) = {}
  BY DEF TransferTransit, ConfirmedAhead, Pending, Confirmed
<1>8. \A k : k \in BuyTransit(d) \cup SellTransit(d) \cup TransferTransit(d) \cup ConfirmedAhead(d)
                <=> k \in Carriers(legs, d)
  BY <1>2, <1>3, <1>4, <1>5, <1>6
<1>9. (BuyTransit(d) \cup SellTransit(d) \cup TransferTransit(d)) \cap ConfirmedAhead(d) = {}
  BY <1>5, <1>7
<1> QED
  BY <1>8, <1>9

LEMMA BuiltRowFits ==
    ASSUME IInv, IsFiniteSet(DOMAIN legs), Fits(legs, snap), NEW d \in TradingDays, NoPendingDue(d)
    PROVE  RowFits(legs, d, DayRow(LastSnapUpTo(d - 1), d))
<1> DEFINE b == LastSnapUpTo(d - 1)
           row == DayRow(b, d)
           base == snap[b]
<1>1. b \in SnapDays /\ b < d /\ b \in Nat /\ d \in Nat
  BY LastDayBefore
<1>2. RowFits(legs, b, base)
  BY <1>1 DEF Fits, SnapDays
<1>3. legs \in [DOMAIN legs -> Leg] /\ TableOK(legs, SnapDays)
  BY Tables DEF TableOK
<1> HIDE DEF b
<1> DEFINE net(p) == NetShares(p, b, d)
           short(p) == IF net(p) < 0 THEN -net(p) ELSE 0
<1>4. /\ row.cash = [p \in Platforms |-> CashOn(p, b, d)]
      /\ row.shares = [p \in Platforms |-> net(p) + short(p)]
      /\ row.transit = TransitRows(d)
      /\ row.lost = Total(ConfirmedAhead(d))
      /\ row.dropped = [p \in Platforms |-> base.dropped[p] + short(p)]
  BY DEF DayRow, Snapshot
<1> HIDE DEF row
<1>5. ASSUME NEW p \in Platforms
      PROVE  row.cash[p] \in Int /\ CashFits(legs, d, row, p)
  <2> DEFINE ib == Amount(legs, Booked(legs, "in", p, b))
             id == Amount(legs, Booked(legs, "in", p, d))
             ob == Amount(legs, Booked(legs, "out", p, b))
             od == Amount(legs, Booked(legs, "out", p, d))
  <2>1. ib \in Nat /\ id \in Nat /\ ob \in Nat /\ od \in Nat
    <3>1. \A r, e : Booked(legs, r, p, e) \in SUBSET DOMAIN legs
      BY DEF Booked, Behind
    <3> QED
      BY <1>3, <3>1, Amounts
  <2>2. Total(Window("in", p, b, d)) = id - ib /\ Total(Window("out", p, b, d)) = od - ob
    BY <1>1, WindowAdds
  <2>3. base.cash[p] = OpeningCash[p] + ib - ob
    BY <1>2 DEF RowFits, CashFits
  <2>4. row.cash[p] = base.cash[p] + Total(Window("in", p, b, d)) - Total(Window("out", p, b, d))
    BY <1>4 DEF CashOn
  <2>5. OpeningCash[p] \in Nat
    BY OpeningAssumption
  <2> HIDE DEF ib, id, ob, od
  <2>6. row.cash[p] \in Int /\ row.cash[p] = OpeningCash[p] + id - od
    BY <2>1, <2>2, <2>3, <2>4, <2>5
  <2> QED
    BY <2>6 DEF CashFits, id, od
<1>6. ASSUME NEW p \in Platforms
      PROVE  /\ row.shares[p] \in Nat /\ row.dropped[p] \in Nat
             /\ SharesFit(legs, d, row, p)
  <2> DEFINE Bought(e) == OfType(legs, Booked(legs, "fund", p, e), "buy")
             Sold(e) == OfType(legs, Booked(legs, "fund", p, e), "sell")
             W == Window("fund", p, b, d)
             sold == {k \in W : legs[k].type = "sell"}
             bb == Amount(legs, Bought(b))
             bd == Amount(legs, Bought(d))
             sb == Amount(legs, Sold(b))
             sd == Amount(legs, Sold(d))
  <2>1. bb \in Nat /\ bd \in Nat /\ sb \in Nat /\ sd \in Nat
    <3>1. \A e, type : OfType(legs, Booked(legs, "fund", p, e), type) \in SUBSET DOMAIN legs
      BY DEF OfType, Booked, Behind
    <3> QED
      BY <1>3, <3>1, Amounts
  <2>2. W \ sold = {k \in W : legs[k].type = "buy"}
    BY <1>3 DEF Window, WithRole, Leg
  <2>3. Total(W \ sold) = bd - bb /\ Total(sold) = sd - sb
    BY <1>1, <2>2, WindowAdds
  <2>4. base.shares[p] - base.dropped[p] = OpeningShares[p] + bb - sb
    BY <1>2 DEF RowFits, SharesFit
  <2>5. net(p) = base.shares[p] + Total(W \ sold) - Total(sold)
    BY DEF NetShares
  <2>6. OpeningShares[p] \in Nat /\ base.shares[p] \in Nat /\ base.dropped[p] \in Nat
    BY <1>2, OpeningAssumption DEF RowFits, RowOK
  <2>7. row.shares[p] = net(p) + short(p) /\ row.dropped[p] = base.dropped[p] + short(p)
    BY <1>4
  <2>8. net(p) \in Int
    <3> HIDE DEF net, bb, bd, sb, sd, W, sold
    <3> QED BY <2>1, <2>3, <2>5, <2>6
  <2>9. short(p) \in Nat /\ net(p) + short(p) \in Nat
    <3> HIDE DEF net
    <3> QED BY <2>8
  <2> HIDE DEF net, short, bb, bd, sb, sd, W, sold, Bought, Sold
  <2>10. row.shares[p] \in Nat /\ row.dropped[p] \in Nat
    BY <2>6, <2>7, <2>9
  <2>11. row.shares[p] - row.dropped[p] = net(p) - base.dropped[p]
    BY <2>6, <2>7, <2>8, <2>9
  <2>12. row.shares[p] - row.dropped[p] = OpeningShares[p] + bd - sd
    BY <2>1, <2>3, <2>4, <2>5, <2>6, <2>11
  <2> QED
    BY <2>10, <2>12 DEF SharesFit, bd, sd, Bought, Sold
<1>7. /\ row.transit \in [Platforms -> Int] /\ row.lost \in Int
      /\ Sum(row.transit) + row.lost = Amount(legs, Owed(legs, d))
  <2> DEFINE under == BuyTransit(d) \cup SellTransit(d) \cup TransferTransit(d)
             ahead == ConfirmedAhead(d)
             C == Carriers(legs, d)
  <2>1. under \cup ahead = C /\ under \cap ahead = {}
    BY <1>1, TransitIsCarriers
  <2>2. C \in SUBSET DOMAIN legs /\ under \in SUBSET C /\ C \ under = ahead
    <3>1. C \in SUBSET DOMAIN legs
      BY DEF Carriers
    <3> HIDE DEF under, ahead, C
    <3> QED BY <2>1, <3>1
  <2>3. row.transit = [p \in Platforms |-> Total({k \in under : legs[k].platform = p})]
    BY <1>4 DEF TransitRows
  <2>4. \A p \in Platforms :
           /\ Total({k \in under : legs[k].platform = p}) = Amount(legs, {k \in under : legs[k].platform = p})
           /\ Amount(legs, {k \in under : legs[k].platform = p}) \in Nat
    <3> SUFFICES ASSUME NEW p \in Platforms
                 PROVE /\ Total({k \in under : legs[k].platform = p})
                             = Amount(legs, {k \in under : legs[k].platform = p})
                       /\ Amount(legs, {k \in under : legs[k].platform = p}) \in Nat
      OBVIOUS
    <3>1. {k \in under : legs[k].platform = p} \in SUBSET DOMAIN legs
      <4> HIDE DEF under, C
      <4> QED BY <2>2
    <3> HIDE DEF under
    <3> QED
      BY <1>3, <3>1, TotalIsAmount, Amounts
  <2> HIDE DEF under, ahead, C
  <2>5. Sum(row.transit) = Amount(legs, under)
    <3>1. row.transit = [p \in Platforms |-> Amount(legs, {k \in under : legs[k].platform = p})]
      BY <2>3, <2>4
    <3> QED
      BY <1>3, <2>2, <3>1, ByPlatform
  <2>6. row.lost = Amount(legs, ahead) /\ Amount(legs, ahead) \in Nat
    BY <1>3, <1>4, <2>2, TotalIsAmount, Amounts DEF ahead
  <2>7. Amount(legs, C) = Amount(legs, under) + Amount(legs, ahead)
    BY <1>3, <2>2, Amounts
  <2>8. Amount(legs, C) = Amount(legs, Owed(legs, d))
    BY <1>3, <1>1, Tables, CarriersOwed DEF C
  <2>9. row.transit \in [Platforms -> Int]
    BY <2>3, <2>4
  <2> QED
    BY <2>5, <2>6, <2>7, <2>8, <2>9
<1>8. RowOK(row)
  BY <1>4, <1>5, <1>6, <1>7 DEF RowOK
<1> QED
  BY <1>5, <1>6, <1>7, <1>8 DEF RowFits, row, b

LEMMA BuildFits ==
    ASSUME IInv, IsFiniteSet(DOMAIN legs), Fits(legs, snap), NEW d, Build(d)
    PROVE  Fits(legs, snap')
<1>1. d \in TradingDays /\ NoPendingDue(d) /\ snap' = Put(snap, d, DayRow(LastSnapUpTo(d - 1), d))
  BY DEF Build
<1>2. RowFits(legs, d, snap'[d]) /\ \A e \in DOMAIN snap' : e # d => e \in DOMAIN snap /\ snap'[e] = snap[e]
  BY <1>1, BuiltRowFits DEF Put
<1> QED
  BY <1>2 DEF Fits

-----------------------------------------------------------------------------
(* Every step keeps the books                                              *)

LEMMA ArrivalsHarmless ==
    ASSUME NEW d, NEW days, TableOK(legs, days), ConfirmArrivals(d)
    PROVE  DOMAIN legs' = DOMAIN legs /\ Quiet(days)
<1> DEFINE due(k) == /\ k[1] \in Transfers /\ legs[k].confirm <= today
                     /\ IsTradingDaysAfter(d, 1, legs[k].confirm)
           S == {k \in Pending : \E j \in LegsOf(k[1]) \cap Pending : due(j)}
<1>1. ConfirmLegs(S) /\ S \in SUBSET Pending
  BY DEF ConfirmArrivals
<1>2. \A k \in S : k[1] \in Transfers
  BY DEF LegsOf, LegsIn
<1> HIDE DEF S
<1> QED
  BY <1>1, <1>2, ConfirmLegsHarmless

LEMMA Confirms ==
    ASSUME IInv
    PROVE  \A k \in DOMAIN legs : legs[k].confirm \in Nat
BY Tables DEF Leg

\* A change that no day of the chain notices.
LEMMA QuietStep ==
    ASSUME IInv, IInv', IsFiniteSet(DOMAIN legs), Quiet(SnapDays'), Fits(legs, snap')
    PROVE  Fits(legs', snap')
<1>1. \A k \in DOMAIN legs' : legs'[k].confirm \in Nat
  BY DaysAreNumbers DEF IInv, TableOK, Leg
<1>2. SnapDays' \in SUBSET Nat /\ DOMAIN snap' \subseteq SnapDays'
  <2>1. DOMAIN snap' \subseteq TradingDays \cup {0}
    BY DEF IInv, TypeOK, IsDatabase, DB
  <2>2. 0 \in Nat /\ TradingDays \subseteq Nat
    BY DaysAreNumbers
  <2>3. DOMAIN snap' \in SUBSET Nat
    BY <2>1, <2>2
  <2> QED
    BY <2>3 DEF SnapDays
<1> QED
  BY <1>1, <1>2, Confirms, QuietKeeps

LEMMA BookInit == Init => BookInv
<1> SUFFICES ASSUME Init PROVE BookInv
  OBVIOUS
<1>1. DOMAIN legs = {} /\ IsFiniteSet(DOMAIN legs) /\ Idle /\ IInv
  BY InitHolds, FS_EmptySet DEF Init, Idle
<1>2. RowOK(Opening)
  BY OpeningAssumption DEF RowOK, Opening, Snapshot
<1>3. Behind(legs, 0) = {} /\ Owed(legs, 0) = {}
  BY <1>1 DEF Behind, Owed
<1>4. Amount(legs, {}) = 0
  BY SumEmpty DEF Amount
<1>5. \A p \in Platforms : CashFits(legs, 0, Opening, p) /\ SharesFit(legs, 0, Opening, p)
  <2>1. \A r, p : Booked(legs, r, p, 0) = {}
    BY <1>3 DEF Booked
  <2>2. \A type : OfType(legs, {}, type) = {}
    BY DEF OfType
  <2>3. \A p \in Platforms : /\ Opening.cash[p] = OpeningCash[p] /\ OpeningCash[p] \in Int
                              /\ Opening.shares[p] = OpeningShares[p] /\ OpeningShares[p] \in Int
                              /\ Opening.dropped[p] = 0
    BY OpeningAssumption DEF Opening, Snapshot
  <2>4. \A r, p, type : /\ Amount(legs, Booked(legs, r, p, 0)) = 0
                        /\ Amount(legs, OfType(legs, Booked(legs, r, p, 0), type)) = 0
    BY <1>4, <2>1, <2>2
  <2>5. \A p \in Platforms : CashFits(legs, 0, Opening, p)
    BY <2>3, <2>4 DEF CashFits
  <2>6. \A p \in Platforms : SharesFit(legs, 0, Opening, p)
    BY <2>3, <2>4 DEF SharesFit
  <2> QED
    BY <2>5, <2>6
<1>6. Sum(Opening.transit) + Opening.lost = Amount(legs, Owed(legs, 0))
  <2> DEFINE none == [p \in Platforms |-> 0]
  <2>1. \A p \in Platforms : none[p] = 0
    OBVIOUS
  <2>2. SumFunctionOnSet(none, Platforms) = 0
    <3> HIDE DEF none
    <3> QED BY <2>1, PlatformAssumption, SumZero
  <2> QED
    BY <1>3, <1>4, <2>2 DEF Sum, Opening, Snapshot
<1>7. Fits(legs, snap)
  BY <1>2, <1>5, <1>6 DEF Init, Fits, RowFits
<1> QED
  BY <1>1, <1>7 DEF BookInv

LEMMA BookNext ==
    ASSUME BookInv, [Next]_vars
    PROVE  BookInv'
<1>1. IInv /\ IInv' /\ IsFiniteSet(DOMAIN legs) /\ Fits(legs, snap)
  BY NextKeeps DEF BookInv
<1>2. CASE TradeRequest \/ TransferRequest
  <2>1. UNCHANGED <<snap, today, tx, saved>> /\ Idle
    BY <1>2, RequestsWriteLegs
  <2>2. IsFiniteSet(DOMAIN legs') /\ Quiet(SnapDays) /\ SnapDays' = SnapDays
    BY <1>1, <1>2, <2>1, RequestHarmless DEF Harmless, SnapDays
  <2>3. Fits(legs', snap')
    BY <1>1, <2>1, <2>2, QuietStep
  <2> QED
    BY <1>1, <2>1, <2>2, <2>3 DEF BookInv, Idle
<1>3. ASSUME NEW d, Build(d), legs' = legs \/ ConfirmArrivals(d)
      PROVE  IsFiniteSet(DOMAIN legs') /\ Fits(legs', snap')
  <2>1. Fits(legs, snap') /\ TableOK(legs, SnapDays')
    BY <1>1, <1>3, BuildFits, BuildKeeps
  <2>2. CASE legs' = legs
    BY <1>1, <2>1, <2>2
  <2>3. CASE ConfirmArrivals(d)
    <3>1. DOMAIN legs' = DOMAIN legs /\ Quiet(SnapDays')
      BY <2>1, <2>3, ArrivalsHarmless
    <3> QED
      BY <1>1, <2>1, <3>1, QuietStep
  <2> QED
    BY <1>3, <2>2, <2>3
<1>4. ASSUME NEW d \in TradingDays, Generate(d) \/ Advance(d)
      PROVE  BookInv'
  <2>1. Build(d) /\ Idle /\ UNCHANGED <<today, tx, saved>> /\ (legs' = legs \/ ConfirmArrivals(d))
    BY <1>4 DEF Generate, Advance
  <2> QED
    BY <1>1, <1>3, <2>1 DEF BookInv, Idle
<1>5. ASSUME NEW d \in TradingDays, DeleteDay(d)
      PROVE  BookInv'
  <2>1. Idle /\ UNCHANGED <<legs, today, tx, saved>> /\ snap' = Drop(snap, {d})
    BY <1>5 DEF DeleteDay
  <2>2. Fits(legs, snap')
    BY <1>1, <2>1 DEF Fits, Drop
  <2> QED
    BY <1>1, <2>1, <2>2 DEF BookInv, Idle
<1>6. CASE ConfirmOnly
  <2>1. PICK l \in SnapDays : ConfirmArrivals(l)
    BY <1>6 DEF ConfirmOnly
  <2>2. UNCHANGED <<snap, today, tx, saved>> /\ Idle /\ SnapDays' = SnapDays
    BY <1>6 DEF ConfirmOnly, SnapDays
  <2>3. DOMAIN legs' = DOMAIN legs /\ Quiet(SnapDays')
    BY <1>1, <2>1, <2>2, Tables, ArrivalsHarmless
  <2>4. Fits(legs', snap')
    BY <1>1, <2>2, <2>3, QuietStep
  <2> QED
    BY <1>1, <2>2, <2>3, <2>4 DEF BookInv, Idle
<1>7. ASSUME NEW d \in Days, BeginRecalculate(d)
      PROVE  BookInv'
  <2>1. saved' = DB /\ UNCHANGED <<legs, snap, today>>
    BY <1>7 DEF BeginRecalculate
  <2> QED
    BY <1>1, <2>1 DEF BookInv, DB
<1>8. CASE RecalcDay
  <2>1. Build(tx.day) /\ ConfirmArrivals(tx.day) /\ UNCHANGED <<today, saved>> /\ ~Idle
    BY <1>8 DEF RecalcDay, AtTradingDay
  <2> QED
    BY <1>1, <1>3, <2>1 DEF BookInv
<1>9. CASE RecalcSkipDay
  <2>1. UNCHANGED <<legs, snap, today, saved>> /\ ~Idle
    BY <1>9 DEF RecalcSkipDay, AtHoliday
  <2> QED
    BY <1>1, <2>1 DEF BookInv
<1>10. CASE Commit
  <2>1. UNCHANGED <<legs, snap, today>> /\ Idle'
    BY <1>10, NoTxTyped DEF Commit
  <2> QED
    BY <1>1, <2>1 DEF BookInv
<1>11. CASE Rollback
  <2>1. legs' = saved.legs /\ snap' = saved.snap /\ ~Idle /\ Idle'
    BY <1>11, NoTxTyped DEF Rollback
  <2> QED
    BY <1>1, <2>1 DEF BookInv
<1>12. CASE NewDay \/ UNCHANGED vars
  <2>1. UNCHANGED <<legs, snap, tx, saved>>
    BY <1>12 DEF NewDay, vars
  <2> QED
    BY <1>1, <2>1 DEF BookInv, Idle
<1> QED
  BY <1>2, <1>4, <1>5, <1>6, <1>7, <1>8, <1>9, <1>10, <1>11, <1>12 DEF Next, SnapshotRequest

\* For every calendar, any platforms, groups and quantities, each row of the chain
\* adds up the legs its day has counted from the opening on, in and out of
\* recalculations, and so do the rows a rollback restores.
THEOREM BooksFit == Spec => []BookInv
<1> QED
  BY BookInit, BookNext, PTL DEF Spec

-----------------------------------------------------------------------------
(* No trading day is left out                                              *)

\* A trading day comes to be missing inside the chain only when it is deleted, or
\* when the recalculation that built it is rolled back: no generation and no
\* recalculation leaves one out, wherever it starts.
GapsOnlyDeleted ==
    [][\A d \in Missing(SnapDays') \ Missing(SnapDays) :
          DeleteDay(d) \/ (Rollback /\ d \in SnapDays)]_vars

\* what a recalculation passes is built, or was missing before it
GapInv ==
    /\ IInv
    /\ ~Idle => /\ DOMAIN saved.snap \subseteq SnapDays
                /\ \A e \in TradingDays \ SnapDays : e < tx.day => e \in Missing(SnapDays)

LEMMA GapInit == Init => GapInv
BY InitHolds DEF Init, GapInv, Idle

\* A day built in front of the days known to be missing.
LEMMA BuildLeavesNoGap ==
    ASSUME IInv, NEW d, Build(d), \A e \in TradingDays \ SnapDays : e < d => e \in Missing(SnapDays)
    PROVE  SnapDays' = SnapDays \cup {d} /\ Missing(SnapDays') = Missing(SnapDays) \ {d}
<1>1. SnapDays' = SnapDays \cup {d}
  BY DEF Build, Put, SnapDays
<1>2. SnapDays \in SUBSET Nat
  BY ChainDays, DaysAreNumbers
<1> QED
  BY <1>1, <1>2, MissingChanges

LEMMA GapNext ==
    ASSUME GapInv, [Next]_vars
    PROVE  /\ GapInv'
           /\ \A d \in Missing(SnapDays') \ Missing(SnapDays) : DeleteDay(d) \/ (Rollback /\ d \in SnapDays)
<1> DEFINE Reported == \A d \in Missing(SnapDays') \ Missing(SnapDays) : DeleteDay(d) \/ (Rollback /\ d \in SnapDays)
<1>1. IInv /\ IInv' /\ SnapDays \subseteq 0..LastDay /\ SnapDays \in SUBSET Nat
  BY NextKeeps, ChainDays, DaysAreNumbers DEF GapInv
<1>2. CASE TradeRequest \/ TransferRequest \/ ConfirmOnly \/ NewDay \/ UNCHANGED vars
  <2>1. UNCHANGED <<snap, tx, saved>>
    BY <1>2, RequestsWriteLegs DEF ConfirmOnly, NewDay, vars
  <2>2. SnapDays' = SnapDays /\ Idle' = Idle
    BY <2>1 DEF SnapDays, Idle
  <2> QED
    BY <1>1, <2>1, <2>2 DEF GapInv
<1>3. ASSUME NEW d \in TradingDays, Generate(d) \/ Advance(d)
      PROVE  GapInv' /\ Reported
  <2>1. Build(d) /\ FollowsChain(d) /\ Idle'
    BY <1>3 DEF Generate, Advance, Idle
  <2>2. Missing(SnapDays') = Missing(SnapDays) \ {d}
    BY <1>1, <2>1, FollowsClosely, BuildLeavesNoGap
  <2> QED
    BY <1>1, <2>1, <2>2 DEF GapInv
<1>4. ASSUME NEW d \in TradingDays, DeleteDay(d)
      PROVE  GapInv' /\ Reported
  <2>1. Idle' /\ SnapDays' = SnapDays \ {d}
    BY <1>4 DEF DeleteDay, Idle, SnapDays, Drop
  <2>2. Missing(SnapDays') \subseteq Missing(SnapDays) \cup {d}
    BY <1>1, <2>1, MissingChanges
  <2> QED
    BY <1>1, <1>4, <2>1, <2>2 DEF GapInv
<1>5. ASSUME NEW d \in Days, BeginRecalculate(d)
      PROVE  GapInv' /\ Reported
  <2>1. saved'.snap = snap /\ UNCHANGED snap /\ tx'.day = d /\ Begins(d)
    BY <1>5 DEF BeginRecalculate, Begins, DB
  <2>2. \A e \in TradingDays \ SnapDays : e < d => e \in Missing(SnapDays)
    BY <1>1, <2>1, BeginsClosely
  <2>3. SnapDays' = SnapDays
    BY <2>1 DEF SnapDays
  <2> QED
    BY <1>1, <2>1, <2>2, <2>3 DEF GapInv, SnapDays
<1>6. CASE RecalcDay \/ RecalcSkipDay
  <2>1. ~Idle /\ saved' = saved /\ tx'.day = tx.day + 1 /\ tx.day \in Nat
    <3>1. tx \in [day : 0..LastDay + 1, end : 0..LastDay]
      BY <1>1 DEF IInv, TypeOK
    <3> QED
      BY <1>6, <3>1, CalendarAssumption
         DEF RecalcDay, RecalcSkipDay, AtTradingDay, AtHoliday, NextInTx
  <2>2. /\ DOMAIN saved.snap \subseteq SnapDays
        /\ \A e \in TradingDays \ SnapDays : e < tx.day => e \in Missing(SnapDays)
    BY <2>1 DEF GapInv
  <2>3. /\ SnapDays \subseteq SnapDays' /\ (tx.day \in TradingDays => tx.day \in SnapDays')
        /\ Missing(SnapDays') = Missing(SnapDays) \ {tx.day}
    <3>1. CASE RecalcDay
      <4>1. Build(tx.day)
        BY <3>1 DEF RecalcDay
      <4> QED
        BY <1>1, <2>2, <4>1, BuildLeavesNoGap
    <3>2. CASE RecalcSkipDay
      <4>1. SnapDays' = SnapDays /\ tx.day \notin TradingDays
        BY <3>2 DEF RecalcSkipDay, AtHoliday, SnapDays
      <4>2. tx.day \notin Missing(SnapDays)
        BY <4>1 DEF Missing
      <4> QED
        BY <4>1, <4>2
    <3> QED
      BY <1>6, <3>1, <3>2
  <2>4. \A e \in TradingDays \ SnapDays' : e < tx'.day => e \in Missing(SnapDays')
    <3> SUFFICES ASSUME NEW e \in TradingDays, e \notin SnapDays', e < tx.day + 1
                 PROVE  e \in Missing(SnapDays) \ {tx.day}
      BY <2>1, <2>3
    <3>1. e < tx.day /\ e # tx.day
      BY <2>1, <2>3, DaysAreNumbers
    <3> QED
      BY <2>2, <2>3, <3>1
  <2> QED
    BY <1>1, <2>1, <2>2, <2>3, <2>4 DEF GapInv
<1>7. CASE Commit
  <2>1. Idle' /\ SnapDays' = SnapDays
    BY <1>7, NoTxTyped DEF Commit, SnapDays
  <2> QED
    BY <1>1, <2>1 DEF GapInv
<1>8. CASE Rollback
  <2>1. Idle' /\ SnapDays' \subseteq SnapDays
    BY <1>8, NoTxTyped DEF Rollback, SnapDays, GapInv
  <2>2. \A d \in Missing(SnapDays') \ Missing(SnapDays) : d \in SnapDays
    BY <2>1 DEF Missing
  <2> QED
    BY <1>1, <1>8, <2>1, <2>2 DEF GapInv
<1> QED
  BY <1>2, <1>3, <1>4, <1>5, <1>6, <1>7, <1>8 DEF Next, SnapshotRequest

\* Whatever requests do to the chain, and wherever days of it were deleted, no
\* step but the deletion of that very day, or the rollback of its build, leaves a
\* trading day out.
THEOREM GapsAreDeletions == Spec => GapsOnlyDeleted
<1> QED
  BY GapInit, GapNext, PTL DEF Spec, GapsOnlyDeleted

-----------------------------------------------------------------------------
(* What the portfolio is worth                                             *)

\* What the legs of one role, and the fund legs of one type, have brought each
\* platform up to a day.
ByRole(table, r, d) == {k \in Behind(table, d) : k[2] = r}
ByType(table, type, d) == {k \in Behind(table, d) : k[2] = "fund" /\ table[k].type = type}
Cash(table, r, d) == [p \in Platforms |-> Amount(table, Booked(table, r, p, d))]
Shares(table, type, d) ==
    [p \in Platforms |-> Amount(table, OfType(table, Booked(table, "fund", p, d), type))]

\* They add up over the platforms.
LEMMA CashAddsUp ==
    ASSUME IsFiniteSet(DOMAIN legs), legs \in [DOMAIN legs -> Leg], NEW d, NEW r
    PROVE  /\ Cash(legs, r, d) \in [Platforms -> Int]
           /\ Sum(Cash(legs, r, d)) = Amount(legs, ByRole(legs, r, d))
<1> DEFINE S == ByRole(legs, r, d)
<1>1. S \in SUBSET DOMAIN legs
  BY DEF Behind, ByRole
<1>2. \A p : {k \in S : legs[k].platform = p} = Booked(legs, r, p, d)
  BY DEF Booked, ByRole
<1> HIDE DEF S
<1>3. Sum([p \in Platforms |-> Amount(legs, {k \in S : legs[k].platform = p})]) = Amount(legs, S)
  BY <1>1, ByPlatform
<1>4. Sum(Cash(legs, r, d)) = Amount(legs, S)
  BY <1>2, <1>3 DEF Cash
<1>5. \A p \in Platforms : Amount(legs, Booked(legs, r, p, d)) \in Nat
  <2>1. \A p \in Platforms : Booked(legs, r, p, d) \in SUBSET DOMAIN legs
    BY DEF Booked, Behind
  <2> QED
    BY <2>1, Amounts
<1> QED
  BY <1>4, <1>5 DEF S, Cash

LEMMA SharesAddUp ==
    ASSUME IsFiniteSet(DOMAIN legs), legs \in [DOMAIN legs -> Leg], NEW d, NEW type
    PROVE  /\ Shares(legs, type, d) \in [Platforms -> Int]
           /\ Sum(Shares(legs, type, d)) = Amount(legs, ByType(legs, type, d))
<1> DEFINE S == ByType(legs, type, d)
<1>1. S \in SUBSET DOMAIN legs
  BY DEF Behind, ByType
<1>2. \A p : {k \in S : legs[k].platform = p} = OfType(legs, Booked(legs, "fund", p, d), type)
  BY DEF Booked, OfType, ByType
<1> HIDE DEF S
<1>3. Sum([p \in Platforms |-> Amount(legs, {k \in S : legs[k].platform = p})]) = Amount(legs, S)
  BY <1>1, ByPlatform
<1>4. Sum(Shares(legs, type, d)) = Amount(legs, S)
  BY <1>2, <1>3 DEF Shares
<1>5. \A p \in Platforms : Amount(legs, OfType(legs, Booked(legs, "fund", p, d), type)) \in Nat
  <2>1. \A p \in Platforms : OfType(legs, Booked(legs, "fund", p, d), type) \in SUBSET DOMAIN legs
    BY DEF OfType, Booked, Behind
  <2> QED
    BY <2>1, Amounts
<1> QED
  BY <1>4, <1>5 DEF S, Shares

\* An equation that holds on each platform holds of the sums: x + z = a + y.
LEMMA SumBalance ==
    ASSUME NEW a \in [Platforms -> Int], NEW x \in [Platforms -> Int],
           NEW y \in [Platforms -> Int], NEW z \in [Platforms -> Int],
           \A p \in Platforms : x[p] + z[p] = a[p] + y[p]
    PROVE  /\ Sum(x) + Sum(z) = Sum(a) + Sum(y)
           /\ Sum(x) \in Int /\ Sum(y) \in Int /\ Sum(z) \in Int /\ Sum(a) \in Int
<1> DEFINE h == [p \in Platforms |-> x[p] + z[p]]
<1>1. Adds(h, x, z, Platforms)
  BY DEF Adds
<1>2. Adds(h, a, y, Platforms)
  BY DEF Adds
<1> HIDE DEF h
<1>3. /\ SumFunctionOnSet(h, Platforms) = SumFunctionOnSet(x, Platforms) + SumFunctionOnSet(z, Platforms)
      /\ SumFunctionOnSet(x, Platforms) \in Int /\ SumFunctionOnSet(z, Platforms) \in Int
  BY <1>1, PlatformAssumption, SumPlus
<1>4. /\ SumFunctionOnSet(h, Platforms) = SumFunctionOnSet(a, Platforms) + SumFunctionOnSet(y, Platforms)
      /\ SumFunctionOnSet(a, Platforms) \in Int /\ SumFunctionOnSet(y, Platforms) \in Int
  BY <1>2, PlatformAssumption, SumPlus
<1> QED
  BY <1>3, <1>4 DEF Sum

\* The legs behind a day by what they do to the portfolio.
LEMMA StartersByRole ==
    ASSUME IInv, IsFiniteSet(DOMAIN legs), NEW d
    PROVE  /\ Amount(legs, {k \in Behind(legs, d) : Starts(legs, k)})
                 = Amount(legs, ByRole(legs, "out", d)) + Amount(legs, ByType(legs, "sell", d))
           /\ Amount(legs, {k \in Behind(legs, d) : ~Starts(legs, k)})
                 = Amount(legs, ByRole(legs, "in", d)) + Amount(legs, ByType(legs, "buy", d))
           /\ \A r : Amount(legs, ByRole(legs, r, d)) \in Nat
           /\ \A type : Amount(legs, ByType(legs, type, d)) \in Nat
<1>1. legs \in [DOMAIN legs -> Leg] /\ TableOK(legs, SnapDays)
  BY Tables DEF TableOK
<1>2. \A k \in DOMAIN legs : k[2] \in {"fund", "out", "in"} /\ legs[k].type \in {"buy", "sell"}
  BY <1>1, GroupOfLeg DEF Leg
<1>3. ASSUME NEW S \in SUBSET DOMAIN legs, NEW T \in SUBSET S, NEW U, U = S \ T
      PROVE  Amount(legs, S) = Amount(legs, T) + Amount(legs, U)
  BY <1>1, <1>3, Amounts
<1>4. Amount(legs, {k \in Behind(legs, d) : Starts(legs, k)})
         = Amount(legs, ByRole(legs, "out", d)) + Amount(legs, ByType(legs, "sell", d))
  <2> DEFINE S == {k \in Behind(legs, d) : Starts(legs, k)}
  <2>1. S \in SUBSET DOMAIN legs /\ ByRole(legs, "out", d) \in SUBSET S
    BY DEF Behind, ByRole, Starts
  <2>2. ByType(legs, "sell", d) = S \ ByRole(legs, "out", d)
    BY DEF ByRole, ByType, Starts
  <2> HIDE DEF S
  <2>3. Amount(legs, S) = Amount(legs, ByRole(legs, "out", d)) + Amount(legs, ByType(legs, "sell", d))
    BY <1>3, <2>1, <2>2
  <2> QED
    BY <2>3 DEF S
<1>5. Amount(legs, {k \in Behind(legs, d) : ~Starts(legs, k)})
         = Amount(legs, ByRole(legs, "in", d)) + Amount(legs, ByType(legs, "buy", d))
  <2> DEFINE S == {k \in Behind(legs, d) : ~Starts(legs, k)}
  <2>1. S \in SUBSET DOMAIN legs /\ ByRole(legs, "in", d) \in SUBSET S
    BY DEF Behind, ByRole, Starts
  <2>2. ByType(legs, "buy", d) = S \ ByRole(legs, "in", d)
    BY <1>2 DEF ByRole, ByType, Starts, Behind
  <2> HIDE DEF S
  <2>3. Amount(legs, S) = Amount(legs, ByRole(legs, "in", d)) + Amount(legs, ByType(legs, "buy", d))
    BY <1>3, <2>1, <2>2
  <2> QED
    BY <2>3 DEF S
<1>6. /\ \A r : ByRole(legs, r, d) \in SUBSET DOMAIN legs
      /\ \A type : ByType(legs, type, d) \in SUBSET DOMAIN legs
  BY DEF ByRole, ByType, Behind
<1>7. \A r : Amount(legs, ByRole(legs, r, d)) \in Nat
  BY <1>1, <1>6, Amounts
<1>8. \A type : Amount(legs, ByType(legs, type, d)) \in Nat
  BY <1>1, <1>6, Amounts
<1> QED
  BY <1>4, <1>5, <1>7, <1>8

LEMMA RowIsWorthTheOpening ==
    ASSUME IInv, IsFiniteSet(DOMAIN legs), NEW d \in SnapDays, NEW row, RowFits(legs, d, row)
    PROVE  Value(row) + row.lost = Sum(OpeningCash) + Sum(OpeningShares) + Sum(row.dropped)
<1> DEFINE ins == Cash(legs, "in", d)
           outs == Cash(legs, "out", d)
           buys == Shares(legs, "buy", d)
           sells == Shares(legs, "sell", d)
           opened == [p \in Platforms |-> OpeningShares[p] + row.dropped[p]]
<1>1. legs \in [DOMAIN legs -> Leg] /\ TableOK(legs, SnapDays) /\ SnapDays \in SUBSET Nat
  BY Tables DEF TableOK
<1>2. /\ ins \in [Platforms -> Int] /\ outs \in [Platforms -> Int]
      /\ Sum(ins) = Amount(legs, ByRole(legs, "in", d))
      /\ Sum(outs) = Amount(legs, ByRole(legs, "out", d))
  BY <1>1, CashAddsUp
<1>3. /\ buys \in [Platforms -> Int] /\ sells \in [Platforms -> Int]
      /\ Sum(buys) = Amount(legs, ByType(legs, "buy", d))
      /\ Sum(sells) = Amount(legs, ByType(legs, "sell", d))
  BY <1>1, SharesAddUp
<1>4. /\ OpeningCash \in [Platforms -> Int] /\ OpeningShares \in [Platforms -> Int]
      /\ row.cash \in [Platforms -> Int] /\ row.shares \in [Platforms -> Int]
      /\ row.dropped \in [Platforms -> Int] /\ row.lost \in Int /\ row.transit \in [Platforms -> Int]
  BY OpeningAssumption DEF RowFits, RowOK
<1>5. opened \in [Platforms -> Int] /\ \A p \in Platforms : opened[p] = OpeningShares[p] + row.dropped[p]
  BY <1>4
<1>6. \A p \in Platforms : row.cash[p] + outs[p] = OpeningCash[p] + ins[p]
  <2> SUFFICES ASSUME NEW p \in Platforms
               PROVE  row.cash[p] + outs[p] = OpeningCash[p] + ins[p]
    OBVIOUS
  <2>1. row.cash[p] = OpeningCash[p] + ins[p] - outs[p]
    BY DEF RowFits, CashFits, Cash
  <2>2. row.cash[p] \in Int /\ outs[p] \in Int /\ ins[p] \in Int /\ OpeningCash[p] \in Int
    BY <1>2, <1>4
  <2> HIDE DEF ins, outs
  <2> QED
    BY <2>1, <2>2
<1>7. \A p \in Platforms : row.shares[p] + sells[p] = opened[p] + buys[p]
  <2> SUFFICES ASSUME NEW p \in Platforms
               PROVE  row.shares[p] + sells[p] = opened[p] + buys[p]
    OBVIOUS
  <2>1. row.shares[p] - row.dropped[p] = OpeningShares[p] + buys[p] - sells[p]
    BY DEF RowFits, SharesFit, Shares
  <2>2. /\ row.shares[p] \in Int /\ row.dropped[p] \in Int /\ OpeningShares[p] \in Int
        /\ buys[p] \in Int /\ sells[p] \in Int /\ opened[p] = OpeningShares[p] + row.dropped[p]
    BY <1>3, <1>4, <1>5
  <2> HIDE DEF buys, sells, opened
  <2> QED
    BY <2>1, <2>2
<1> HIDE DEF ins, outs, buys, sells, opened
<1>8. /\ Sum(row.cash) + Sum(outs) = Sum(OpeningCash) + Sum(ins)
      /\ Sum(row.cash) \in Int /\ Sum(OpeningCash) \in Int /\ Sum(ins) \in Int /\ Sum(outs) \in Int
  BY <1>2, <1>4, <1>6, SumBalance
<1>9. /\ Sum(row.shares) + Sum(sells) = Sum(opened) + Sum(buys)
      /\ Sum(row.shares) \in Int /\ Sum(sells) \in Int /\ Sum(opened) \in Int /\ Sum(buys) \in Int
  BY <1>3, <1>4, <1>5, <1>7, SumBalance
<1>10. /\ Sum(opened) = Sum(OpeningShares) + Sum(row.dropped)
       /\ Sum(OpeningShares) \in Int /\ Sum(row.dropped) \in Int
  <2>1. Adds(opened, OpeningShares, row.dropped, Platforms)
    BY <1>4, <1>5 DEF Adds
  <2> QED
    BY <2>1, PlatformAssumption, SumPlus DEF Sum
<1>11. Amount(legs, {k \in Behind(legs, d) : Starts(legs, k)})
         = Amount(legs, {k \in Behind(legs, d) : ~Starts(legs, k)}) + Amount(legs, Owed(legs, d))
  BY <1>1, HalvesAddUp
<1>12. Sum(row.transit) + row.lost = Amount(legs, Owed(legs, d)) /\ Sum(row.transit) \in Int
  <2>1. \A p \in Platforms : row.transit[p] \in Int
    BY <1>4
  <2> QED
    BY <2>1, PlatformAssumption, SumRemove DEF RowFits, Sum
<1>13. Amount(legs, Owed(legs, d)) \in Nat
  <2>1. Owed(legs, d) \in SUBSET DOMAIN legs
    BY DEF Owed, Behind
  <2> QED
    BY <1>1, <2>1, Amounts
<1>14. /\ Sum(outs) + Sum(sells) = Sum(ins) + Sum(buys) + Amount(legs, Owed(legs, d))
  BY <1>2, <1>3, <1>11, <1>13, StartersByRole
<1>15. Sum(row.cash) + Sum(row.shares) + Sum(row.transit) + row.lost
          = Sum(OpeningCash) + Sum(OpeningShares) + Sum(row.dropped)
  <2> DEFINE c == Sum(row.cash)
             o == Sum(outs)
             oc == Sum(OpeningCash)
             i == Sum(ins)
             h == Sum(row.shares)
             s == Sum(sells)
             b == Sum(buys)
             op == Sum(opened)
             os == Sum(OpeningShares)
             dr == Sum(row.dropped)
             t == Sum(row.transit)
             w == Amount(legs, Owed(legs, d))
             l == row.lost
  <2>1. /\ c \in Int /\ o \in Int /\ oc \in Int /\ i \in Int /\ h \in Int /\ s \in Int /\ b \in Int
        /\ op \in Int /\ os \in Int /\ dr \in Int /\ t \in Int /\ w \in Int /\ l \in Int
    BY <1>4, <1>8, <1>9, <1>10, <1>12, <1>13
  <2>2. c + o = oc + i /\ h + s = op + b /\ op = os + dr /\ t + l = w /\ o + s = i + b + w
    BY <1>8, <1>9, <1>10, <1>12, <1>14
  <2>3. c + h + t + l = oc + os + dr
    <3> HIDE DEF c, o, oc, i, h, s, b, op, os, dr, t, w, l
    <3> QED BY <2>1, <2>2
  <2> QED
    BY <2>3
<1> QED
  BY <1>15 DEF Value

\* At par the portfolio is worth what it opened with on every day of the chain,
\* less transfers confirmed ahead of their arrival and plus shares sold that a
\* platform did not have.
THEOREM ValueAlwaysKept == Spec => []ValueKept
<1>1. BookInv => ValueKept
  <2> SUFFICES ASSUME BookInv, NEW d \in SnapDays
               PROVE  Value(snap[d]) + snap[d].lost
                         = Sum(OpeningCash) + Sum(OpeningShares) + Sum(snap[d].dropped)
    BY DEF ValueKept
  <2> QED
    BY RowIsWorthTheOpening DEF BookInv, Fits, SnapDays
<1> QED
  BY <1>1, BooksFit, PTL

-----------------------------------------------------------------------------
(* The views                                                               *)

\* Credits less debits.
LEMMA SignedAmounts ==
    ASSUME IsFiniteSet(DOMAIN legs), legs \in [DOMAIN legs -> Leg],
           NEW S \in SUBSET DOMAIN legs
    PROVE  SumSigned(S) = Amount(legs, {k \in S : k[2] # "out"})
                              - Amount(legs, {k \in S : k[2] = "out"})
<1> DEFINE F == [k \in S |-> Signed(k)]
           none == [k \in S |-> 0]
           T == {k \in S : k[2] = "out"}
<1>0. S \ T = {k \in S : k[2] # "out"}
  OBVIOUS
<1>1. IsFiniteSet(S) /\ IsFiniteSet(T) /\ IsFiniteSet(S \ T) /\ T \in SUBSET S
  BY FS_Subset
<1>2. \A k \in DOMAIN legs : Qty(legs)[k] = legs[k].qty /\ Qty(legs)[k] \in Nat
  BY Amounts
<1>3. \A k \in S : F[k] \in Int
  BY <1>2 DEF Signed
<1>4. \A k \in S \ T : F[k] = Qty(legs)[k]
  BY <1>2 DEF Signed
<1>5. Adds(none, F, Qty(legs), T)
  BY <1>2 DEF Adds, Signed
<1>6. \A k \in T : none[k] = 0
  OBVIOUS
<1>7. Amount(legs, T) \in Nat /\ Amount(legs, S \ T) \in Nat
  <2> HIDE DEF T
  <2> QED BY <1>1, Amounts
<1> HIDE DEF F, T, none
<1>8. /\ SumFunctionOnSet(F, S) = SumFunctionOnSet(F, T) + SumFunctionOnSet(F, S \ T)
      /\ SumFunctionOnSet(F, T) \in Int
  <2>1. \A k \in T : F[k] \in Int
    BY <1>1, <1>3
  <2>2. SumFunctionOnSet(F, S) = SumFunctionOnSet(F, T) + SumFunctionOnSet(F, S \ T)
    <3> DEFINE U == S \ T
    <3>1. IsFiniteSet(T) /\ IsFiniteSet(U) /\ T \cap U = {} /\ T \cup U = S
      BY <1>1
    <3>2. \A k \in T \cup U : F[k] \in Int
      BY <1>3, <3>1
    <3> HIDE DEF U
    <3>3. SumFunctionOnSet(F, T \cup U) = SumFunctionOnSet(F, T) + SumFunctionOnSet(F, U)
      BY <3>1, <3>2, SumUnion
    <3> QED
      BY <3>1, <3>3 DEF U
  <2>3. SumFunctionOnSet(F, T) \in Int
    BY <1>1, <2>1, SumRemove
  <2> QED BY <2>2, <2>3
<1>9. SumFunctionOnSet(F, S \ T) = SumFunctionOnSet(Qty(legs), S \ T)
  BY <1>1, <1>4, SumAgree
<1>10. SumFunctionOnSet(none, T) = SumFunctionOnSet(F, T) + SumFunctionOnSet(Qty(legs), T)
  BY <1>1, <1>5, SumPlus
<1>11. SumFunctionOnSet(none, T) = 0
  BY <1>1, <1>6, SumZero
<1>12. SumFunctionOnSet(F, S) = Amount(legs, S \ T) - Amount(legs, T)
  BY <1>7, <1>8, <1>9, <1>10, <1>11 DEF Amount
<1> QED
  BY <1>0, <1>12 DEF SumSigned, F, T

\* What the statement shows half done are the cash legs of the groups half done.
LEMMA HalfDoneCarries ==
    ASSUME IInv, today \in SnapDays
    PROVE  HalfDone = Carriers(legs, today)
<1>0. TableOK(legs, SnapDays) /\ SnapDays \in SUBSET Nat /\ today \in Nat
  BY Tables
<1>1. \A k \in DOMAIN legs : /\ legs[k].confirm \in Nat /\ legs[k].trade \in Nat /\ legs[k] \in Leg
                             /\ legs[k].status \in {"pending", "confirmed", "cancelled"}
  BY <1>0, DaysAreNumbers DEF TableOK, Leg
<1>10. \A k : Settled(k) \in BOOLEAN /\ PairSettled(k) \in BOOLEAN
  BY DEF Settled, PairSettled
<1>2. ASSUME NEW k \in DOMAIN legs, k[2] = "out", k[1] \notin Transfers
      PROVE  k \in HalfDone <=> k \in Carriers(legs, today)
  <2> DEFINE f == <<k[1], "fund">>
  <2>1. k[1] \in Rebals /\ Follower(k) = f /\ Source(f) = k /\ k # f /\ k = <<k[1], "out">>
    BY <1>0, <1>2, GroupOfLeg, Keys DEF Follower, Source, Groups
  <2>2. legs[f].type = "buy" /\ PurchaseConsistent(legs, k[1])
    BY <1>0, <1>2, <2>1, GroupOfLeg, Keys DEF SaleConsistent
  <2>3. f \in DOMAIN legs /\ legs[k].confirm = legs[k].trade
    BY <1>0, <1>2, <2>1, <2>2, GroupOfLeg DEF PurchaseConsistent
  <2>4. f \in Behind(legs, today) => k \in Behind(legs, today)
    <3>1. ~Starts(legs, f)
      BY <2>2, Keys DEF Starts
    <3> QED
      BY <1>0, <2>1, <2>3, <3>1, Followers
  <2>5. Settled(k) <=> k \in Behind(legs, today)
    BY <1>2, <2>3 DEF Settled, CashDate, Behind, Confirmed
  <2>6. PairSettled(k) <=> f \in Behind(legs, today)
    BY <2>1 DEF PairSettled, Pair, Behind, Confirmed
  <2>7. k \in Behind(legs, today) => k \in StatementRows
    BY <1>2 DEF StatementRows, WithRole, Behind
  <2> QED
    BY <1>2, <1>10, <2>1, <2>4, <2>5, <2>6, <2>7 DEF HalfDone, Carriers
<1>3. ASSUME NEW k \in DOMAIN legs, k[2] = "in"
      PROVE  k \in HalfDone <=> k \in Carriers(legs, today)
  <2> DEFINE s == Source(k)
  <2>1. ~Starts(legs, k)
    BY <1>3 DEF Starts
  <2>2. s \in DOMAIN legs /\ (k \in Behind(legs, today) => s \in Behind(legs, today))
    BY <1>0, <2>1, Followers
  <2>3. Settled(k) <=> k \in Behind(legs, today)
    BY <1>3 DEF Settled, CashDate, Behind, Confirmed
  <2>4. /\ s \in Behind(legs, today) => legs[k].status # "cancelled"
        /\ PairSettled(k) <=> s \in Behind(legs, today)
    <3>1. CASE k[1] \in Transfers
      <4>1. s = <<k[1], "out">> /\ s[2] = "out" /\ k = <<k[1], "in">> /\ k[1] \notin Rebals
        BY <1>0, <1>3, <3>1, GroupOfLeg, Keys, GroupAssumption DEF Source
      <4>2. TransferConsistent(legs, k[1])
        BY <1>0, <3>1, GroupOfLeg
      <4>3. legs[s].confirm = legs[s].trade /\ (legs[k].status = "cancelled" <=> legs[s].status = "cancelled")
        BY <4>1, <4>2 DEF TransferConsistent
      <4>4. PairSettled(k) <=> Settled(s)
        BY <1>3, <4>1 DEF PairSettled, Pair
      <4> QED
        BY <2>2, <4>1, <4>3, <4>4 DEF Settled, CashDate, Confirmed, Behind
    <3>2. CASE k[1] \notin Transfers
      <4>1. s = <<k[1], "fund">> /\ k = <<k[1], "in">> /\ k[1] \in Rebals
        BY <1>0, <1>3, <3>2, GroupOfLeg, Keys DEF Source, Groups
      <4>2. k # s /\ k # <<k[1], "out">>
        BY <1>3, <4>1, Keys
      <4>3. SaleConsistent(legs, k[1])
        BY <1>0, <3>2, <4>1, <4>2, GroupOfLeg DEF PurchaseConsistent
      <4>4. legs[k].status # "cancelled"
        BY <1>0, <4>1, <4>2, <4>3, GroupOfLeg DEF SaleConsistent
      <4>5. PairSettled(k) <=> s \in Behind(legs, today)
        BY <4>1 DEF PairSettled, Pair, Behind, Confirmed
      <4> QED
        BY <4>4, <4>5
    <3> QED
      BY <3>1, <3>2
  <2> QED
    BY <1>3, <1>10, <2>2, <2>3, <2>4 DEF HalfDone, Carriers, StatementRows, WithRole
<1>4. /\ HalfDone \subseteq {k \in DOMAIN legs : k[2] = "in" \/ (k[2] = "out" /\ k[1] \notin Transfers)}
      /\ Carriers(legs, today) \subseteq {k \in DOMAIN legs : k[2] = "in" \/ (k[2] = "out" /\ k[1] \notin Transfers)}
  <2>1. HalfDone \subseteq {k \in DOMAIN legs : k[2] = "in" \/ (k[2] = "out" /\ k[1] \notin Transfers)}
    BY DEF HalfDone, StatementRows, WithRole
  <2>2. Carriers(legs, today) \subseteq {k \in DOMAIN legs : k[2] = "in" \/ (k[2] = "out" /\ k[1] \notin Transfers)}
    BY DEF Carriers
  <2> QED
    BY <2>1, <2>2
<1>5. \A k : k \in HalfDone <=> k \in Carriers(legs, today)
  BY <1>2, <1>3, <1>4
<1> QED
  BY <1>5

\* On a day with a snapshot the rows in transit, and what is lost, are what the
\* statement shows half done, whatever the groups went through since.
THEOREM TransitAlwaysHalfDone == Spec => []TransitIsHalfDone
<1>1. BookInv => TransitIsHalfDone
  <2> SUFFICES ASSUME BookInv, today \in SnapDays
               PROVE  Sum(snap[today].transit) + snap[today].lost = Total(HalfDone)
    BY DEF TransitIsHalfDone
  <2>1. IInv /\ IsFiniteSet(DOMAIN legs) /\ RowFits(legs, today, snap[today])
    BY DEF BookInv, Fits, SnapDays
  <2>2. TableOK(legs, SnapDays) /\ SnapDays \in SUBSET Nat
    BY <2>1, Tables
  <2>3. HalfDone \in SUBSET DOMAIN legs
    BY DEF HalfDone, StatementRows, WithRole
  <2>4. Total(HalfDone) = Amount(legs, Carriers(legs, today))
    BY <2>1, <2>3, TotalIsAmount, HalfDoneCarries
  <2>5. Amount(legs, Carriers(legs, today)) = Amount(legs, Owed(legs, today))
    BY <2>1, <2>2, CarriersOwed
  <2> QED
    BY <2>1, <2>4, <2>5 DEF RowFits
<1> QED
  BY <1>1, BooksFit, PTL
-----------------------------------------------------------------------------
(* Profits                                                                 *)

\* A day built on the trading day before it counts the legs of the day itself, and
\* no others: none lies between it and that day.
LEMMA DaysAdjoin ==
    ASSUME IInv, NEW d \in SnapDays \ {0}
    PROVE  /\ PrevSnapDay(d) \in SnapDays /\ PrevSnapDay(d) \in Nat /\ d \in Nat /\ PrevSnapDay(d) < d
           /\ DayBeforeStored(d) => \A k \in DOMAIN legs :
                 legs[k].confirm = d <=> PrevSnapDay(d) < legs[k].confirm /\ legs[k].confirm <= d
<1> DEFINE b == PrevSnapDay(d)
<1>1. d \in TradingDays
  BY ChainDays
<1>2. b \in SnapDays /\ b < d /\ b \in Nat /\ d \in Nat
  BY <1>1, LastDayBefore DEF PrevSnapDay
<1>3. ASSUME NEW k \in DOMAIN legs, DayBeforeStored(d)
      PROVE  legs[k].confirm = d <=> b < legs[k].confirm /\ legs[k].confirm <= d
  <2>1. legs[k].confirm \in TradingDays /\ legs[k].confirm \in Nat
    BY Tables DEF Leg
  <2>2. b < legs[k].confirm => d <= legs[k].confirm
    BY <1>3, <2>1 DEF DayBeforeStored
  <2> QED
    BY <1>2, <2>1, <2>2
<1> QED
  BY <1>2, <1>3

LEMMA FlowsOfTheDay ==
    ASSUME IInv, IsFiniteSet(DOMAIN legs), NEW d \in SnapDays \ {0}, NEW p \in Platforms,
           DayBeforeStored(d)
    PROVE  /\ CashFlow(p, d) = Total(Window("in", p, PrevSnapDay(d), d))
                                   - Total(Window("out", p, PrevSnapDay(d), d))
           /\ FundFlow(p, d)
                 = Total({k \in Window("fund", p, PrevSnapDay(d), d) : legs[k].type = "buy"})
                       - Total({k \in Window("fund", p, PrevSnapDay(d), d) : legs[k].type = "sell"})
<1> DEFINE b == PrevSnapDay(d)
           S == {k \in (WithRole("in") \cup WithRole("out")) \cap Confirmed :
                    legs[k].platform = p /\ legs[k].confirm = d}
           on == {k \in WithRole("fund") \cap Confirmed :
                     legs[k].platform = p /\ legs[k].confirm = d}
<1>1. IInv /\ legs \in [DOMAIN legs -> Leg]
  BY Tables DEF TableOK
<1>2. \A k \in DOMAIN legs : legs[k].confirm = d <=> b < legs[k].confirm /\ legs[k].confirm <= d
  BY DaysAdjoin
<1>3. /\ S \in SUBSET DOMAIN legs
      /\ {k \in S : k[2] # "out"} = Window("in", p, b, d)
      /\ {k \in S : k[2] = "out"} = Window("out", p, b, d)
  <2> HIDE DEF b
  <2> QED BY <1>2 DEF Window, WithRole, Confirmed
<1>4. \A r : Window(r, p, b, d) \in SUBSET DOMAIN legs
  BY DEF Window, WithRole
<1>5. SumSigned(S) = Total(Window("in", p, b, d)) - Total(Window("out", p, b, d))
  <2> HIDE DEF S, b
  <2>1. SumSigned(S) = Amount(legs, {k \in S : k[2] # "out"}) - Amount(legs, {k \in S : k[2] = "out"})
    BY <1>1, <1>3, SignedAmounts
  <2>2. \A r : Total(Window(r, p, b, d)) = Amount(legs, Window(r, p, b, d))
    BY <1>4, TotalIsAmount
  <2> QED
    BY <1>3, <2>1, <2>2
<1>6. CashFlow(p, d) = SumSigned(S)
  BY DEF CashFlow
<1>7. on = Window("fund", p, b, d)
  <2> HIDE DEF b
  <2> QED BY <1>2 DEF Window, WithRole, Confirmed
<1>8. on \ {k \in on : legs[k].type = "sell"} = {k \in on : legs[k].type = "buy"}
  BY <1>1 DEF Leg, WithRole
<1>9. FundFlow(p, d) = Total(on \ {k \in on : legs[k].type = "sell"})
                           - Total({k \in on : legs[k].type = "sell"})
  BY DEF FundFlow
<1> QED
  BY <1>5, <1>6, <1>7, <1>8, <1>9

\* The basis of a cash position, by category, is all that was booked.
LEMMA BasisIsBooked ==
    ASSUME IInv, IsFiniteSet(DOMAIN legs), NEW d, NEW p \in Platforms
    PROVE  CashBasis(p, d) = Amount(legs, Booked(legs, "in", p, d))
                                 - Amount(legs, Booked(legs, "out", p, d))
<1> DEFINE mine == {k \in Confirmed : legs[k].platform = p /\ legs[k].confirm <= d}
           buys == {k \in mine : k[1] \in Rebals /\ k[2] = "out"}
           sells == {k \in mine : k[1] \in Rebals /\ k[2] = "in"}
           moved == {k \in mine : k[1] \in Transfers}
           movedIn == {k \in moved : k[2] # "out"}
           movedOut == {k \in moved : k[2] = "out"}
           ins == Booked(legs, "in", p, d)
           outs == Booked(legs, "out", p, d)
<1>1. legs \in [DOMAIN legs -> Leg] /\ TableOK(legs, SnapDays)
  BY Tables DEF TableOK
<1>2. ASSUME NEW k \in DOMAIN legs
      PROVE  /\ k[1] \in Rebals \/ k[1] \in Transfers
             /\ ~(k[1] \in Rebals /\ k[1] \in Transfers)
             /\ k[1] \in Transfers => k[2] = "out" \/ k[2] = "in"
  <2>1. k[1] \in Groups /\ (k[1] \in Transfers => TransferConsistent(legs, k[1])) /\ k \in LegsIn(legs, k[1])
    BY <1>1, GroupOfLeg
  <2>2. k[1] \in Transfers => k = <<k[1], "out">> \/ k = <<k[1], "in">>
    BY <2>1 DEF TransferConsistent
  <2>3. k[1] \in Transfers => k[2] = "out" \/ k[2] = "in"
    BY <2>2, Keys
  <2> QED
    BY <2>1, <2>3, GroupAssumption DEF Groups
<1>3. mine \in SUBSET DOMAIN legs /\ mine = {k \in Behind(legs, d) : legs[k].platform = p}
  BY DEF Confirmed, Behind
<1>4. /\ outs \in SUBSET DOMAIN legs /\ buys \in SUBSET outs /\ movedOut = outs \ buys
      /\ ins \in SUBSET DOMAIN legs /\ sells \in SUBSET ins /\ movedIn = ins \ sells
  <2>1. outs \in SUBSET DOMAIN legs /\ ins \in SUBSET DOMAIN legs
    BY DEF Booked, Behind
  <2> HIDE DEF mine
  <2>2. outs = {k \in mine : k[2] = "out"} /\ ins = {k \in mine : k[2] = "in"}
    BY <1>3 DEF Booked
  <2>3. movedOut = outs \ buys
    BY <1>2, <1>3, <2>2
  <2>4. movedIn = ins \ sells
    BY <1>2, <1>3, <2>2
  <2> QED
    BY <2>1, <2>2, <2>3, <2>4
<1>5. moved \in SUBSET DOMAIN legs
  BY <1>3
<1>6. CashBasis(p, d) = Total(sells) - Total(buys) + SumSigned(moved)
  BY DEF CashBasis
<1> HIDE DEF buys, sells, moved, ins, outs
<1>7. SumSigned(moved) = Amount(legs, movedIn) - Amount(legs, movedOut)
  BY <1>1, <1>5, SignedAmounts
<1> HIDE DEF movedIn, movedOut
<1>8. Total(sells) = Amount(legs, sells) /\ Total(buys) = Amount(legs, buys)
  BY <1>4, TotalIsAmount
<1>9. /\ Amount(legs, outs) = Amount(legs, buys) + Amount(legs, movedOut)
      /\ Amount(legs, buys) \in Nat /\ Amount(legs, movedOut) \in Nat
  <2>1. outs \in SUBSET DOMAIN legs /\ buys \in SUBSET outs
    BY <1>4
  <2>2. /\ Amount(legs, outs) = Amount(legs, buys) + Amount(legs, outs \ buys)
        /\ Amount(legs, buys) \in Nat /\ Amount(legs, outs \ buys) \in Nat
    BY <1>1, <2>1, Amounts
  <2> QED
    BY <1>4, <2>2
<1>10. /\ Amount(legs, ins) = Amount(legs, sells) + Amount(legs, movedIn)
       /\ Amount(legs, sells) \in Nat /\ Amount(legs, movedIn) \in Nat
  <2>1. ins \in SUBSET DOMAIN legs /\ sells \in SUBSET ins
    BY <1>4
  <2>2. /\ Amount(legs, ins) = Amount(legs, sells) + Amount(legs, ins \ sells)
        /\ Amount(legs, sells) \in Nat /\ Amount(legs, ins \ sells) \in Nat
    BY <1>1, <2>1, Amounts
  <2> QED
    BY <1>4, <2>2
<1>11. CashBasis(p, d) = Amount(legs, ins) - Amount(legs, outs)
  BY <1>6, <1>7, <1>8, <1>9, <1>10
<1> QED
  BY <1>11 DEF ins, outs

\* The cost of the fund, likewise.
LEMMA CostIsBooked ==
    ASSUME IInv, IsFiniteSet(DOMAIN legs), NEW d, NEW p \in Platforms
    PROVE  CumulativeFundProfit(p, d)
              = snap[d].shares[p]
                    - Amount(legs, OfType(legs, Booked(legs, "fund", p, d), "buy"))
                    + Amount(legs, OfType(legs, Booked(legs, "fund", p, d), "sell"))
<1> DEFINE mine == {k \in WithRole("fund") \cap Confirmed :
                       legs[k].platform = p /\ legs[k].confirm <= d}
           sold == {k \in mine : legs[k].type = "sell"}
<1>1. legs \in [DOMAIN legs -> Leg]
  BY Tables DEF TableOK
<1>2. /\ sold = OfType(legs, Booked(legs, "fund", p, d), "sell")
      /\ mine \ sold = OfType(legs, Booked(legs, "fund", p, d), "buy")
  BY <1>1 DEF OfType, Booked, Behind, WithRole, Confirmed, Leg
<1>3. sold \in SUBSET DOMAIN legs /\ mine \ sold \in SUBSET DOMAIN legs
  BY DEF WithRole
<1>4. CumulativeFundProfit(p, d) = snap[d].shares[p] - Total(mine \ sold) + Total(sold)
  BY DEF CumulativeFundProfit
<1> HIDE DEF mine, sold
<1>5. Total(sold) = Amount(legs, sold) /\ Total(mine \ sold) = Amount(legs, mine \ sold)
  BY <1>3, TotalIsAmount
<1> QED
  BY <1>2, <1>4, <1>5

LEMMA NobodyEarns ==
    ASSUME IInv, IsFiniteSet(DOMAIN legs), Fits(legs, snap),
           NEW d \in SnapDays \ {0}, NEW p \in Platforms
    PROVE  /\ DayBeforeStored(d) =>
                 /\ DailyCashProfit(p, d) = 0
                 /\ DailyFundProfit(p, d) = snap[d].dropped[p] - snap[PrevSnapDay(d)].dropped[p]
           /\ snap[d].cash[p] - CashBasis(p, d) = OpeningCash[p]
           /\ CumulativeFundProfit(p, d) = OpeningShares[p] + snap[d].dropped[p]
<1> DEFINE b == PrevSnapDay(d)
           W(r) == Window(r, p, b, d)
           bought(e) == Amount(legs, OfType(legs, Booked(legs, "fund", p, e), "buy"))
           sold(e) == Amount(legs, OfType(legs, Booked(legs, "fund", p, e), "sell"))
           in(e) == Amount(legs, Booked(legs, "in", p, e))
           out(e) == Amount(legs, Booked(legs, "out", p, e))
<1>1. IInv /\ legs \in [DOMAIN legs -> Leg]
  BY Tables DEF TableOK
<1>2. b \in SnapDays /\ b \in Nat /\ d \in Nat /\ b < d
  BY DaysAdjoin
<1>3. \A e \in SnapDays : /\ snap[e].cash[p] = OpeningCash[p] + in(e) - out(e)
                          /\ snap[e].shares[p] - snap[e].dropped[p] = OpeningShares[p] + bought(e) - sold(e)
                          /\ snap[e].cash[p] \in Int /\ snap[e].shares[p] \in Int /\ snap[e].dropped[p] \in Int
  BY DEF Fits, RowFits, CashFits, SharesFit, RowOK, SnapDays
<1>4. \A e : bought(e) \in Nat /\ sold(e) \in Nat /\ in(e) \in Nat /\ out(e) \in Nat
  <2>1. \A e, r : Booked(legs, r, p, e) \in SUBSET DOMAIN legs
    BY DEF Booked, Behind
  <2>2. \A e, type : OfType(legs, Booked(legs, "fund", p, e), type) \in SUBSET DOMAIN legs
    BY DEF OfType, Booked, Behind
  <2>3. \A e, r : Amount(legs, Booked(legs, r, p, e)) \in Nat
    BY <1>1, <2>1, Amounts
  <2>4. \A e, type : Amount(legs, OfType(legs, Booked(legs, "fund", p, e), type)) \in Nat
    BY <1>1, <2>2, Amounts
  <2> QED
    BY <2>3, <2>4
<1>5. OpeningCash[p] \in Int /\ OpeningShares[p] \in Int
  BY OpeningAssumption
<1>6. DayBeforeStored(d) => CashFlow(p, d) = (in(d) - in(b)) - (out(d) - out(b))
  <2>1. Total(W("in")) = in(d) - in(b) /\ Total(W("out")) = out(d) - out(b)
    BY <1>1, <1>2, WindowAdds
  <2>2. DayBeforeStored(d) => CashFlow(p, d) = Total(W("in")) - Total(W("out"))
    BY FlowsOfTheDay
  <2> QED
    BY <2>1, <2>2
<1>7. DayBeforeStored(d) => FundFlow(p, d) = (bought(d) - bought(b)) - (sold(d) - sold(b))
  <2>1. /\ Total({k \in W("fund") : legs[k].type = "buy"}) = bought(d) - bought(b)
        /\ Total({k \in W("fund") : legs[k].type = "sell"}) = sold(d) - sold(b)
    BY <1>1, <1>2, WindowAdds
  <2>2. DayBeforeStored(d) =>
           FundFlow(p, d) = Total({k \in W("fund") : legs[k].type = "buy"})
                            - Total({k \in W("fund") : legs[k].type = "sell"})
    BY FlowsOfTheDay
  <2> QED
    BY <2>1, <2>2
<1>8. CashBasis(p, d) = in(d) - out(d)
  BY <1>1, BasisIsBooked
<1>9. CumulativeFundProfit(p, d) = snap[d].shares[p] - bought(d) + sold(d)
  BY <1>1, CostIsBooked
<1>10. /\ DailyCashProfit(p, d) = snap[d].cash[p] - snap[b].cash[p] - CashFlow(p, d)
       /\ DailyFundProfit(p, d) = snap[d].shares[p] - snap[b].shares[p] - FundFlow(p, d)
  BY DEF DailyCashProfit, DailyFundProfit
<1> HIDE DEF b, W, bought, sold, in, out
<1>11. /\ snap[d].cash[p] = OpeningCash[p] + in(d) - out(d)
       /\ snap[b].cash[p] = OpeningCash[p] + in(b) - out(b)
  BY <1>2, <1>3
<1>12. DayBeforeStored(d) => DailyCashProfit(p, d) = 0
  BY <1>4, <1>5, <1>6, <1>10, <1>11
<1> DEFINE net(e) == snap[e].shares[p] - snap[e].dropped[p]
<1>16. /\ net(d) = OpeningShares[p] + bought(d) - sold(d) /\ net(b) = OpeningShares[p] + bought(b) - sold(b)
       /\ snap[d].shares[p] \in Int /\ snap[d].dropped[p] \in Int
       /\ snap[b].shares[p] \in Int /\ snap[b].dropped[p] \in Int
  BY <1>2, <1>3
<1>17. snap[d].shares[p] = net(d) + snap[d].dropped[p] /\ snap[b].shares[p] = net(b) + snap[b].dropped[p]
  BY <1>16
<1>18. net(d) \in Int /\ net(b) \in Int
  BY <1>16
<1> HIDE DEF net
<1>13. DayBeforeStored(d) => DailyFundProfit(p, d) = snap[d].dropped[p] - snap[b].dropped[p]
  <2>1. DayBeforeStored(d) => FundFlow(p, d) = net(d) - net(b)
    BY <1>4, <1>5, <1>7, <1>16
  <2> QED
    BY <1>10, <1>16, <1>17, <1>18, <2>1
<1>14. snap[d].cash[p] - CashBasis(p, d) = OpeningCash[p]
  BY <1>4, <1>5, <1>8, <1>11
<1>15. CumulativeFundProfit(p, d) = OpeningShares[p] + snap[d].dropped[p]
  <2>1. snap[d].shares[p] = OpeningShares[p] + bought(d) - sold(d) + snap[d].dropped[p]
    BY <1>16, <1>17
  <2> QED
    BY <1>4, <1>5, <1>9, <1>16, <2>1
<1> QED
  BY <1>12, <1>13, <1>14, <1>15 DEF b

\* At par nobody earns anything, by any of the four ways to compute a profit.
THEOREM ProfitsAlwaysAtPar == Spec => []ProfitsAtPar
<1>1. BookInv => ProfitsAtPar
  BY NobodyEarns DEF ProfitsAtPar, BookInv
<1> QED
  BY <1>1, BooksFit, PTL
-----------------------------------------------------------------------------
(* The statement                                                           *)

\* The debits a balance counts: by their order day, as soon as they are entered.
OutBy(p, a) ==
    {k \in WithRole("out") : /\ legs[k].platform = p
                             /\ legs[k].status # "cancelled" /\ legs[k].trade <= a}

LEMMA LastDayUpTo ==
    ASSUME IInv, NEW a \in Nat
    PROVE  LastSnapUpTo(a) \in SnapDays /\ LastSnapUpTo(a) \in Nat /\ LastSnapUpTo(a) <= a
<1>1. SnapDays \subseteq 0..LastDay /\ 0 \in SnapDays /\ SnapDays \subseteq Nat
  BY ChainDays, DaysAreNumbers
<1> DEFINE S == {e \in SnapDays : e <= a}
<1>2. S \in SUBSET (0..LastDay) /\ 0 \in S
  <2>1. 0 <= a
    OBVIOUS
  <2> QED
    BY <1>1, <2>1
<1>3. Max(S) \in S
  <2> HIDE DEF S
  <2> QED BY <1>2, MaxOfDays
<1> QED
  BY <1>1, <1>3 DEF LastSnapUpTo

\* A debit is confirmed for the day it was ordered.
LEMMA DebitsAtOnce ==
    ASSUME IInv
    PROVE  \A k \in DOMAIN legs : k[2] = "out" => legs[k].confirm = legs[k].trade
<1> SUFFICES ASSUME NEW k \in DOMAIN legs, k[2] = "out"
             PROVE  legs[k].confirm = legs[k].trade
  OBVIOUS
<1>0. TableOK(legs, SnapDays)
  BY Tables
<1>1. k = <<k[1], "out">> /\ k # <<k[1], "fund">> /\ k # <<k[1], "in">> /\ k \in LegsIn(legs, k[1])
  BY <1>0, GroupOfLeg, Keys
<1>2. ~SaleConsistent(legs, k[1])
  BY <1>1 DEF SaleConsistent
<1>3. k[1] \in Transfers => TransferConsistent(legs, k[1])
  BY <1>0, GroupOfLeg
<1>4. k[1] \notin Transfers => PurchaseConsistent(legs, k[1])
  BY <1>0, <1>2, GroupOfLeg
<1>5. legs[<<k[1], "out">>].confirm = legs[<<k[1], "out">>].trade
  BY <1>3, <1>4 DEF TransferConsistent, PurchaseConsistent
<1> QED
  BY <1>1, <1>5

\* Whatever snapshot a balance starts from, it is the opening and all credits
\* confirmed, less all debits entered.
LEMMA BalanceIsBooked ==
    ASSUME IInv, IsFiniteSet(DOMAIN legs), Fits(legs, snap), NEW a \in Nat, NEW p \in Platforms
    PROVE  AvailableCash(p, a) = OpeningCash[p] + Amount(legs, Booked(legs, "in", p, a))
                                                - Amount(legs, OutBy(p, a))
<1> DEFINE base == LastSnapUpTo(a)
           own == {k \in DOMAIN legs : legs[k].platform \in {p}}
           in == {k \in WithRole("in") \cap Confirmed \cap own :
                     base < legs[k].confirm /\ legs[k].confirm <= a}
           out == {k \in WithRole("out") \cap own :
                     /\ legs[k].trade <= a
                     /\ \/ legs[k].status = "pending"
                        \/ legs[k].status = "confirmed" /\ base < legs[k].confirm}
           I == Booked(legs, "in", p, a)
           I0 == Booked(legs, "in", p, base)
           O == OutBy(p, a)
           O0 == Booked(legs, "out", p, base)
<1>1. legs \in [DOMAIN legs -> Leg] /\ \A k \in DOMAIN legs : legs[k] \in Leg
                                          /\ legs[k].confirm \in Nat /\ legs[k].trade \in Nat
  BY Tables, DaysAreNumbers DEF TableOK, Leg
<1>2. base \in SnapDays /\ base \in Nat /\ base <= a
  BY LastDayUpTo
<1> HIDE DEF base
<1>3. I \in SUBSET DOMAIN legs /\ I0 \in SUBSET I /\ in = I \ I0
  BY <1>1, <1>2 DEF Booked, Behind, WithRole, Confirmed
<1>4. O \in SUBSET DOMAIN legs /\ O0 \in SUBSET O /\ out = O \ O0
  <2>1. O \in SUBSET DOMAIN legs
    BY DEF OutBy, WithRole
  <2>2. O0 \in SUBSET O
    BY <1>1, <1>2, DebitsAtOnce DEF OutBy, WithRole, Booked, Behind
  <2>3. out = O \ O0
    BY <1>1, <1>2 DEF OutBy, WithRole, Booked, Behind, Leg
  <2> QED
    BY <2>1, <2>2, <2>3
<1>5. AvailableCash(p, a) = SumFunctionOnSet(snap[base].cash, {p}) + Total(in) - Total(out)
  BY DEF AvailableCash, CashOfPlatforms, base
<1>6. /\ snap[base].cash[p] = OpeningCash[p] + Amount(legs, I0) - Amount(legs, O0)
      /\ snap[base].cash[p] \in Int /\ OpeningCash[p] \in Int
  BY <1>2, OpeningAssumption DEF Fits, RowFits, CashFits, RowOK, SnapDays
<1>7. SumFunctionOnSet(snap[base].cash, {p}) = snap[base].cash[p]
  BY <1>6, SumOne
<1> HIDE DEF in, out, I, I0, O, O0
<1>8. /\ Amount(legs, I) = Amount(legs, I0) + Amount(legs, I \ I0)
      /\ Amount(legs, I0) \in Nat /\ Amount(legs, I \ I0) \in Nat
  <2>1. I \in SUBSET DOMAIN legs /\ I0 \in SUBSET I
    BY <1>3
  <2> QED BY <1>1, <2>1, Amounts
<1>9. /\ Amount(legs, O) = Amount(legs, O0) + Amount(legs, O \ O0)
      /\ Amount(legs, O0) \in Nat /\ Amount(legs, O \ O0) \in Nat
  <2>1. O \in SUBSET DOMAIN legs /\ O0 \in SUBSET O
    BY <1>4
  <2> QED BY <1>1, <2>1, Amounts
<1>10. Total(in) = Amount(legs, I \ I0) /\ Total(out) = Amount(legs, O \ O0)
  <2>1. in \in SUBSET DOMAIN legs /\ out \in SUBSET DOMAIN legs
    BY <1>3, <1>4
  <2>2. Total(in) = Amount(legs, in) /\ Total(out) = Amount(legs, out)
    BY <2>1, TotalIsAmount
  <2> QED
    BY <1>3, <1>4, <2>2
<1>11. AvailableCash(p, a) = OpeningCash[p] + Amount(legs, I) - Amount(legs, O)
  BY <1>5, <1>6, <1>7, <1>8, <1>9, <1>10
<1> QED
  BY <1>11 DEF I, O

LEMMA DayBefore ==
    ASSUME NEW d \in TradingDays
    PROVE  /\ PrevTradingDay(d) \in Nat /\ PrevTradingDay(d) < d /\ d \in Nat
           /\ \A e \in TradingDays : e <= PrevTradingDay(d) <=> e < d
<1> DEFINE S == {0} \cup {e \in TradingDays : e < d}
<1>1. d \in Nat /\ d > 0
  BY CalendarAssumption DEF Days
<1>2. S \in SUBSET (0..LastDay) /\ 0 \in S
  <2>1. 0 \in 0..LastDay
    BY CalendarAssumption
  <2>2. TradingDays \subseteq 0..LastDay
    BY DaysAreNumbers
  <2> QED
    BY <2>1, <2>2
<1>3. Max(S) \in S /\ \A x \in S : x <= Max(S)
  <2> HIDE DEF S
  <2> QED BY <1>2, MaxOfDays
<1>4. Max(S) \in Nat /\ Max(S) < d
  <2>1. \A x \in S : x \in Nat /\ x < d
    BY <1>1, DaysAreNumbers
  <2> HIDE DEF S
  <2> QED BY <1>3, <2>1
<1>5. ASSUME NEW e \in TradingDays
      PROVE  e <= Max(S) <=> e < d
  <2>1. e \in Nat /\ (e < d => e \in S)
    BY DaysAreNumbers
  <2> QED
    BY <1>1, <1>3, <1>4, <2>1
<1> QED
  BY <1>1, <1>4, <1>5 DEF PrevTradingDay

LEMMA StatementExplains ==
    ASSUME IInv, IsFiniteSet(DOMAIN legs), Fits(legs, snap), NEW p \in Platforms, NEW d \in TradingDays
    PROVE  EndOfDayBalance(p, d) - PrevDayBalance(p, d)
              = SumSigned({k \in OnPlatforms(StatementRows, {p}) :
                    CashDate(k) = d /\ (k \in Confirmed \/ k[2] = "out")})
<1> DEFINE b == PrevTradingDay(d)
           S == {k \in OnPlatforms(StatementRows, {p}) :
                    CashDate(k) = d /\ (k \in Confirmed \/ k[2] = "out")}
           credits == {k \in S : k[2] # "out"}
           debits == {k \in S : k[2] = "out"}
           I == Booked(legs, "in", p, d)
           I0 == Booked(legs, "in", p, b)
           O == OutBy(p, d)
           O0 == OutBy(p, b)
<1>1. legs \in [DOMAIN legs -> Leg] /\ \A k \in DOMAIN legs : /\ legs[k] \in Leg
                                          /\ legs[k].confirm \in Nat /\ legs[k].trade \in Nat
                                          /\ legs[k].confirm \in TradingDays /\ legs[k].trade \in TradingDays
  BY Tables, DaysAreNumbers DEF TableOK, Leg
<1>2. b \in Nat /\ d \in Nat /\ b < d /\ \A e \in TradingDays : e <= b <=> e < d
  BY DayBefore
<1> HIDE DEF b
<1>3. \A k \in DOMAIN legs : /\ legs[k].confirm = d <=> legs[k].confirm <= d /\ ~(legs[k].confirm <= b)
                             /\ legs[k].trade = d <=> legs[k].trade <= d /\ ~(legs[k].trade <= b)
  BY <1>1, <1>2
<1>4. I \in SUBSET DOMAIN legs /\ I0 \in SUBSET I /\ credits = I \ I0
  <2>1. I \in SUBSET DOMAIN legs /\ I0 \in SUBSET I
    BY <1>1, <1>2 DEF Booked, Behind
  <2>2. credits = I \ I0
    BY <1>3 DEF Booked, Behind, OnPlatforms, StatementRows, WithRole, Confirmed, CashDate
  <2> QED
    BY <2>1, <2>2
<1>5. O \in SUBSET DOMAIN legs /\ O0 \in SUBSET O /\ debits = O \ O0
  <2>1. O \in SUBSET DOMAIN legs /\ O0 \in SUBSET O
    BY <1>1, <1>2 DEF OutBy, WithRole
  <2>2. debits = O \ O0
    BY <1>3 DEF OutBy, OnPlatforms, StatementRows, WithRole, CashDate
  <2> QED
    BY <2>1, <2>2
<1>6. S \in SUBSET DOMAIN legs
  BY DEF OnPlatforms, StatementRows, WithRole
<1> HIDE DEF S
<1>7. SumSigned(S) = Amount(legs, credits) - Amount(legs, debits)
  BY <1>1, <1>6, SignedAmounts
<1> HIDE DEF credits, debits, I, I0, O, O0
<1>8. /\ Amount(legs, I) = Amount(legs, I0) + Amount(legs, I \ I0)
      /\ Amount(legs, I0) \in Nat /\ Amount(legs, I \ I0) \in Nat
  <2>1. I \in SUBSET DOMAIN legs /\ I0 \in SUBSET I
    BY <1>4
  <2> QED BY <1>1, <2>1, Amounts
<1>9. /\ Amount(legs, O) = Amount(legs, O0) + Amount(legs, O \ O0)
      /\ Amount(legs, O0) \in Nat /\ Amount(legs, O \ O0) \in Nat
  <2>1. O \in SUBSET DOMAIN legs /\ O0 \in SUBSET O
    BY <1>5
  <2> QED BY <1>1, <2>1, Amounts
<1>10. /\ EndOfDayBalance(p, d) = OpeningCash[p] + Amount(legs, I) - Amount(legs, O)
       /\ PrevDayBalance(p, d) = OpeningCash[p] + Amount(legs, I0) - Amount(legs, O0)
       /\ OpeningCash[p] \in Int
  BY <1>2, BalanceIsBooked, OpeningAssumption DEF EndOfDayBalance, PrevDayBalance, b, I, I0, O, O0
<1>11. EndOfDayBalance(p, d) - PrevDayBalance(p, d) = SumSigned(S)
  BY <1>4, <1>5, <1>7, <1>8, <1>9, <1>10
<1> QED
  BY <1>11 DEF S

\* From one trading day to the next a balance moves by the rows of the day, though
\* it is computed from snapshots and windows and the rows from the legs.
THEOREM StatementAlwaysBalances == Spec => []StatementBalances
<1>1. BookInv => StatementBalances
  BY StatementExplains DEF StatementBalances, BookInv
<1> QED
  BY <1>1, BooksFit, PTL
-----------------------------------------------------------------------------
(* The breakdown                                                           *)

\* Rows of several platforms, and rows apart, add up.
LEMMA SignedByPlatform ==
    ASSUME IsFiniteSet(DOMAIN legs), legs \in [DOMAIN legs -> Leg],
           NEW S \in SUBSET DOMAIN legs
    PROVE  /\ SumSigned(S) \in Int
           /\ Sum([p \in Platforms |-> SumSigned({k \in S : legs[k].platform = p})]) = SumSigned(S)
           /\ \A T \in SUBSET S : SumSigned(S) = SumSigned(T) + SumSigned(S \ T)
<1> DEFINE F == [k \in DOMAIN legs |-> Signed(k)]
           owner == [k \in DOMAIN legs |-> legs[k].platform]
           parts == [p \in Platforms |-> SumSigned({k \in S : legs[k].platform = p})]
<1>1. \A k \in DOMAIN legs : legs[k].qty \in Nat /\ legs[k].platform \in Platforms
  BY QuantityAssumption DEF Leg
<1>2. \A k \in DOMAIN legs : F[k] \in Int
  BY <1>1 DEF Signed
<1>3. ASSUME NEW T \in SUBSET DOMAIN legs
      PROVE  SumSigned(T) = SumFunctionOnSet(F, T) /\ IsFiniteSet(T) /\ SumSigned(T) \in Int
  <2> DEFINE G == [k \in T |-> Signed(k)]
  <2>1. IsFiniteSet(T)
    BY FS_Subset
  <2>2. \A k \in T : G[k] = F[k] /\ F[k] \in Int
    BY <1>2
  <2>3. SumSigned(T) = SumFunctionOnSet(G, T)
    BY DEF SumSigned
  <2> HIDE DEF F, G
  <2>4. SumFunctionOnSet(G, T) = SumFunctionOnSet(F, T)
    BY <2>1, <2>2, SumAgree
  <2>5. SumFunctionOnSet(F, T) \in Int
    BY <2>1, <2>2, SumRemove
  <2> QED
    BY <2>1, <2>3, <2>4, <2>5
<1>4. ASSUME NEW T \in SUBSET S
      PROVE  SumSigned(S) = SumSigned(T) + SumSigned(S \ T)
  <2> DEFINE U == S \ T
  <2>1. T \in SUBSET DOMAIN legs /\ U \in SUBSET DOMAIN legs /\ T \cap U = {} /\ T \cup U = S
    OBVIOUS
  <2> HIDE DEF U, F
  <2>2. \A k \in T \cup U : F[k] \in Int
    BY <1>2, <2>1
  <2>3. IsFiniteSet(T) /\ IsFiniteSet(U)
    BY <1>3, <2>1
  <2>4. SumFunctionOnSet(F, T \cup U) = SumFunctionOnSet(F, T) + SumFunctionOnSet(F, U)
    BY <2>1, <2>2, <2>3, SumUnion
  <2>5. SumSigned(S) = SumSigned(T) + SumSigned(U)
    BY <1>3, <2>1, <2>4
  <2> QED
    BY <2>5 DEF U
<1>5. Sum(parts) = SumSigned(S)
  <2>1. ASSUME NEW p \in Platforms
        PROVE  parts[p] = SumFunctionOnSet(F, PartOf(S, owner, p))
    <3>1. PartOf(S, owner, p) = {k \in S : legs[k].platform = p}
      BY DEF PartOf
    <3>2. {k \in S : legs[k].platform = p} \in SUBSET DOMAIN legs
      OBVIOUS
    <3> HIDE DEF F
    <3> QED
      BY <1>3, <3>1, <3>2
  <2>2. \A k \in S : owner[k] \in Platforms
    BY <1>1
  <2>3. IsFiniteSet(S) /\ \A k \in S : F[k] \in Int
    BY <1>2, <1>3
  <2>4. SumFunctionOnSet(parts, Platforms) = SumFunctionOnSet(F, S)
    <3> HIDE DEF parts, owner, F
    <3> QED BY <2>1, <2>2, <2>3, PlatformAssumption, SumOfSums
  <2> QED
    BY <1>3, <2>4 DEF Sum
<1> HIDE DEF parts
<1>6. SumSigned(S) \in Int
  BY <1>3
<1> QED
  BY <1>4, <1>5, <1>6 DEF parts

LEMMA SignedOneWay ==
    ASSUME IsFiniteSet(DOMAIN legs), legs \in [DOMAIN legs -> Leg],
           NEW S \in SUBSET DOMAIN legs
    PROVE  /\ (\A k \in S : k[2] # "out") => SumSigned(S) = Total(S)
           /\ (\A k \in S : k[2] = "out") => SumSigned(S) = -Total(S)
<1>1. SumSigned(S) = Amount(legs, {k \in S : k[2] # "out"}) - Amount(legs, {k \in S : k[2] = "out"})
  BY SignedAmounts
<1>2. Amount(legs, {}) = 0
  BY SumEmpty DEF Amount
<1>3. Total(S) = Amount(legs, S) /\ Amount(legs, S) \in Nat
  BY TotalIsAmount, Amounts
<1>4. ASSUME \A k \in S : k[2] # "out" PROVE SumSigned(S) = Total(S)
  <2>1. {k \in S : k[2] # "out"} = S /\ {k \in S : k[2] = "out"} = {}
    BY <1>4
  <2>2. SumSigned(S) = Amount(legs, S) - Amount(legs, {})
    BY <1>1, <2>1
  <2> QED
    BY <1>2, <1>3, <2>2
<1>5. ASSUME \A k \in S : k[2] = "out" PROVE SumSigned(S) = -Total(S)
  <2>1. {k \in S : k[2] # "out"} = {} /\ {k \in S : k[2] = "out"} = S
    BY <1>5
  <2>2. SumSigned(S) = Amount(legs, {}) - Amount(legs, S)
    BY <1>1, <2>1
  <2> QED
    BY <1>2, <1>3, <2>2
<1> QED
  BY <1>4, <1>5

\* What CashOfPlatforms adds to the snapshot it starts from, and takes from it.
Credits(ps, a) ==
    {k \in WithRole("in") \cap Confirmed \cap {k \in DOMAIN legs : legs[k].platform \in ps} :
        LastSnapUpTo(a) < legs[k].confirm /\ legs[k].confirm <= a}
Debits(ps, a) ==
    {k \in WithRole("out") \cap {k \in DOMAIN legs : legs[k].platform \in ps} :
        /\ legs[k].trade <= a
        /\ \/ legs[k].status = "pending"
           \/ legs[k].status = "confirmed" /\ LastSnapUpTo(a) < legs[k].confirm}

LEMMA CashAdds ==
    ASSUME IInv, IsFiniteSet(DOMAIN legs), Fits(legs, snap), NEW a \in Nat
    PROVE  Sum([p \in Platforms |-> CashOfPlatforms({p}, a)]) = CashOfPlatforms(Platforms, a)
<1> DEFINE base == LastSnapUpTo(a)
           cash == snap[base].cash
           all == [p \in Platforms |-> CashOfPlatforms({p}, a)]
           I == Credits(Platforms, a)
           O == Debits(Platforms, a)
           ins == [p \in Platforms |-> Amount(legs, {k \in I : legs[k].platform = p})]
           outs == [p \in Platforms |-> Amount(legs, {k \in O : legs[k].platform = p})]
<1>1. legs \in [DOMAIN legs -> Leg] /\ \A k \in DOMAIN legs : legs[k].platform \in Platforms
  BY Tables DEF TableOK, Leg
<1>2. cash \in [Platforms -> Int]
  BY LastDayUpTo DEF Fits, RowFits, RowOK, SnapDays
<1>3. I \in SUBSET DOMAIN legs /\ O \in SUBSET DOMAIN legs
  BY DEF Credits, Debits
<1>4. \A ps : CashOfPlatforms(ps, a)
                = SumFunctionOnSet(cash, ps) + Total(Credits(ps, a)) - Total(Debits(ps, a))
  BY DEF CashOfPlatforms, Credits, Debits
<1>5. \A p \in Platforms : /\ Credits({p}, a) = {k \in I : legs[k].platform = p}
                           /\ Debits({p}, a) = {k \in O : legs[k].platform = p}
  BY <1>1 DEF Credits, Debits
<1> HIDE DEF I, O, cash
<1>6. Total(I) = Amount(legs, I) /\ Total(O) = Amount(legs, O)
  BY <1>3, TotalIsAmount
<1>7. \A p \in Platforms : /\ ins[p] \in Int /\ Total(Credits({p}, a)) = ins[p]
                           /\ outs[p] \in Int /\ Total(Debits({p}, a)) = outs[p]
  <2> SUFFICES ASSUME NEW p \in Platforms
               PROVE  /\ ins[p] \in Int /\ Total(Credits({p}, a)) = ins[p]
                      /\ outs[p] \in Int /\ Total(Debits({p}, a)) = outs[p]
    OBVIOUS
  <2>1. {k \in I : legs[k].platform = p} \in SUBSET DOMAIN legs /\ {k \in O : legs[k].platform = p} \in SUBSET DOMAIN legs
    BY <1>3
  <2>2. /\ Total({k \in I : legs[k].platform = p}) = Amount(legs, {k \in I : legs[k].platform = p})
        /\ Total({k \in O : legs[k].platform = p}) = Amount(legs, {k \in O : legs[k].platform = p})
    BY <2>1, TotalIsAmount
  <2>3. /\ Amount(legs, {k \in I : legs[k].platform = p}) \in Nat
        /\ Amount(legs, {k \in O : legs[k].platform = p}) \in Nat
    BY <1>1, <2>1, Amounts
  <2>4. /\ ins[p] = Amount(legs, {k \in I : legs[k].platform = p})
        /\ outs[p] = Amount(legs, {k \in O : legs[k].platform = p})
    OBVIOUS
  <2>5. /\ Total(Credits({p}, a)) = Amount(legs, {k \in I : legs[k].platform = p})
        /\ Total(Debits({p}, a)) = Amount(legs, {k \in O : legs[k].platform = p})
    BY <1>5, <2>2
  <2> HIDE DEF ins, outs
  <2> QED
    BY <2>3, <2>4, <2>5
<1>8. Sum(ins) = Amount(legs, I) /\ Sum(outs) = Amount(legs, O)
  BY <1>1, <1>3, ByPlatform
<1>9. ins \in [Platforms -> Int] /\ outs \in [Platforms -> Int]
  BY <1>7
<1> HIDE DEF ins, outs
<1>10. \A p \in Platforms : /\ cash[p] \in Int /\ SumFunctionOnSet(cash, {p}) = cash[p]
                            /\ all[p] = CashOfPlatforms({p}, a)
  BY <1>2, SumOne
<1>11. \A p \in Platforms : all[p] \in Int /\ all[p] + outs[p] = cash[p] + ins[p]
  <2> SUFFICES ASSUME NEW p \in Platforms
               PROVE  all[p] \in Int /\ all[p] + outs[p] = cash[p] + ins[p]
    OBVIOUS
  <2>1. all[p] = SumFunctionOnSet(cash, {p}) + Total(Credits({p}, a)) - Total(Debits({p}, a))
    BY <1>4, <1>10
  <2> HIDE DEF all
  <2>2. /\ SumFunctionOnSet(cash, {p}) = cash[p] /\ cash[p] \in Int
        /\ Total(Credits({p}, a)) = ins[p] /\ Total(Debits({p}, a)) = outs[p]
        /\ ins[p] \in Int /\ outs[p] \in Int
    BY <1>7, <1>10
  <2>3. all[p] = cash[p] + ins[p] - outs[p]
    BY <2>1, <2>2
  <2> QED BY <2>2, <2>3
<1>12. all \in [Platforms -> Int]
  BY <1>11
<1> HIDE DEF all
<1>13. /\ Sum(all) + Sum(outs) = Sum(cash) + Sum(ins)
       /\ Sum(all) \in Int /\ Sum(ins) \in Int /\ Sum(outs) \in Int /\ Sum(cash) \in Int
  BY <1>2, <1>9, <1>11, <1>12, SumBalance
<1>14. CashOfPlatforms(Platforms, a) = Sum(cash) + Total(I) - Total(O)
  BY <1>4 DEF Sum, I, O
<1>15. Sum(all) = CashOfPlatforms(Platforms, a)
  BY <1>6, <1>8, <1>13, <1>14
<1> QED
  BY <1>15 DEF all

\* The rows of a selection by direction, and the transfers among them.
LEMMA FlowsAdd ==
    ASSUME IInv, IsFiniteSet(DOMAIN legs), NEW S \in SUBSET StatementRows
    PROVE  LET total == Flows(S, FALSE)
               row == [p \in Platforms |-> Flows(OnPlatforms(S, {p}), TRUE)]
               moved == {k \in S : FlowType(k) = "transfer" /\ Settled(k)}
           IN  /\ Sum([p \in Platforms |-> row[p].inflow]) - total.inflow
                    = Total({k \in moved : k[2] = "in"})
               /\ Sum([p \in Platforms |-> row[p].outflow]) - total.outflow
                    = -Total({k \in moved : k[2] = "out"})
<1> DEFINE total == Flows(S, FALSE)
           row == [p \in Platforms |-> Flows(OnPlatforms(S, {p}), TRUE)]
           moved == {k \in S : FlowType(k) = "transfer" /\ Settled(k)}
           up == {k \in S : Settled(k) /\ k[2] = "in"}
           down == {k \in S : Settled(k) /\ k[2] = "out"}
           flowUp == {k \in up : FlowType(k) # "transfer"}
           flowDown == {k \in down : FlowType(k) # "transfer"}
<1>1. legs \in [DOMAIN legs -> Leg]
  BY Tables DEF TableOK
<1>2. \A k \in S : /\ k \in DOMAIN legs /\ k[2] \in {"in", "out"}
                   /\ Signed(k) > 0 <=> k[2] = "in"
                   /\ Signed(k) < 0 <=> k[2] = "out"
  BY <1>1, QuantityAssumption DEF StatementRows, WithRole, Signed, Leg
<1>3. /\ up \in SUBSET DOMAIN legs /\ down \in SUBSET DOMAIN legs
      /\ flowUp \in SUBSET up /\ flowDown \in SUBSET down
      /\ up \ flowUp = {k \in moved : k[2] = "in"} /\ down \ flowDown = {k \in moved : k[2] = "out"}
  BY <1>2
<1>4. total.inflow = SumSigned(flowUp) /\ total.outflow = SumSigned(flowDown)
  <2>1. /\ {k \in {k \in S : Settled(k) /\ (FALSE \/ FlowType(k) # "transfer")} : Signed(k) > 0} = flowUp
        /\ {k \in {k \in S : Settled(k) /\ (FALSE \/ FlowType(k) # "transfer")} : Signed(k) < 0} = flowDown
    BY <1>2
  <2> QED
    BY <2>1 DEF Flows
<1>5. \A p \in Platforms : /\ row[p].inflow = SumSigned({k \in up : legs[k].platform = p})
                           /\ row[p].outflow = SumSigned({k \in down : legs[k].platform = p})
  <2> SUFFICES ASSUME NEW p \in Platforms
               PROVE  /\ row[p].inflow = SumSigned({k \in up : legs[k].platform = p})
                      /\ row[p].outflow = SumSigned({k \in down : legs[k].platform = p})
    OBVIOUS
  <2> DEFINE counted == {k \in OnPlatforms(S, {p}) : Settled(k) /\ (TRUE \/ FlowType(k) # "transfer")}
  <2>1. /\ {k \in counted : Signed(k) > 0} = {k \in up : legs[k].platform = p}
        /\ {k \in counted : Signed(k) < 0} = {k \in down : legs[k].platform = p}
    BY <1>2 DEF OnPlatforms
  <2>2. row[p] = [inflow |-> SumSigned({k \in counted : Signed(k) > 0}),
                  outflow |-> SumSigned({k \in counted : Signed(k) < 0})]
    BY DEF Flows
  <2>3. /\ row[p].inflow = SumSigned({k \in counted : Signed(k) > 0})
        /\ row[p].outflow = SumSigned({k \in counted : Signed(k) < 0})
    <3> HIDE DEF row, counted
    <3> QED BY <2>2
  <2> HIDE DEF row, counted, up, down
  <2> QED
    BY <2>1, <2>3
<1>6. /\ [p \in Platforms |-> row[p].inflow] = [p \in Platforms |-> SumSigned({k \in up : legs[k].platform = p})]
      /\ [p \in Platforms |-> row[p].outflow] = [p \in Platforms |-> SumSigned({k \in down : legs[k].platform = p})]
  <2> HIDE DEF row, up, down
  <2> QED BY <1>5
<1>7. (\A k \in up \ flowUp : k[2] # "out") /\ (\A k \in down \ flowDown : k[2] = "out")
  BY <1>2
<1> HIDE DEF up, down, flowUp, flowDown, row, total, moved
<1>8. /\ Sum([p \in Platforms |-> row[p].inflow]) = SumSigned(up)
      /\ Sum([p \in Platforms |-> row[p].outflow]) = SumSigned(down)
  BY <1>1, <1>3, <1>6, SignedByPlatform
<1>9. /\ SumSigned(up) = SumSigned(flowUp) + SumSigned(up \ flowUp)
      /\ SumSigned(down) = SumSigned(flowDown) + SumSigned(down \ flowDown)
  BY <1>1, <1>3, SignedByPlatform
<1>10. flowUp \in SUBSET DOMAIN legs /\ up \ flowUp \in SUBSET DOMAIN legs
       /\ flowDown \in SUBSET DOMAIN legs /\ down \ flowDown \in SUBSET DOMAIN legs
  BY <1>3
<1>11. /\ SumSigned(flowUp) \in Int /\ SumSigned(flowDown) \in Int
       /\ SumSigned(up \ flowUp) \in Int /\ SumSigned(down \ flowDown) \in Int
  BY <1>1, <1>10, SignedByPlatform
<1>12. /\ SumSigned(up \ flowUp) = Total(up \ flowUp)
       /\ SumSigned(down \ flowDown) = -Total(down \ flowDown)
  BY <1>1, <1>7, <1>10, SignedOneWay
<1>13. /\ Sum([p \in Platforms |-> row[p].inflow]) - total.inflow = SumSigned(up \ flowUp)
       /\ Sum([p \in Platforms |-> row[p].outflow]) - total.outflow = SumSigned(down \ flowDown)
  BY <1>4, <1>8, <1>9, <1>11
<1>14. /\ Sum([p \in Platforms |-> row[p].inflow]) - total.inflow = Total({k \in moved : k[2] = "in"})
       /\ Sum([p \in Platforms |-> row[p].outflow]) - total.outflow = -Total({k \in moved : k[2] = "out"})
  BY <1>3, <1>12, <1>13
<1> QED
  BY <1>14 DEF row, total, moved

LEMMA StockAdds ==
    ASSUME IInv, IsFiniteSet(DOMAIN legs), Fits(legs, snap)
    PROVE  /\ Sum([p \in Platforms |-> Stock({p}).available]) = Stock(Platforms).available
           /\ Sum([p \in Platforms |-> Stock({p}).inTransit]) = Stock(Platforms).inTransit
<1>1. legs \in [DOMAIN legs -> Leg] /\ today \in Nat
  BY Tables, CalendarAssumption DEF TableOK, IInv, TypeOK
<1>2. \A ps : /\ Stock(ps).available = CashOfPlatforms(ps, today)
              /\ Stock(ps).inTransit = SumSigned({k \in OnPlatforms(StatementRows, ps) : ~Settled(k)})
  BY DEF Stock, InTransitSum
<1>3. Sum([p \in Platforms |-> Stock({p}).available]) = Stock(Platforms).available
  BY <1>1, <1>2, CashAdds
<1>4. Sum([p \in Platforms |-> Stock({p}).inTransit]) = Stock(Platforms).inTransit
  <2> DEFINE S == {k \in StatementRows : ~Settled(k)}
  <2>1. S \in SUBSET DOMAIN legs
    BY DEF StatementRows, WithRole
  <2>2. {k \in OnPlatforms(StatementRows, Platforms) : ~Settled(k)} = S
    BY <1>1 DEF OnPlatforms, StatementRows, WithRole, Leg
  <2>3. \A p \in Platforms : {k \in OnPlatforms(StatementRows, {p}) : ~Settled(k)}
                                = {k \in S : legs[k].platform = p}
    BY DEF OnPlatforms
  <2> HIDE DEF S
  <2>4. [p \in Platforms |-> Stock({p}).inTransit]
           = [p \in Platforms |-> SumSigned({k \in S : legs[k].platform = p})]
    BY <1>2, <2>3
  <2>5. Sum([p \in Platforms |-> SumSigned({k \in S : legs[k].platform = p})]) = SumSigned(S)
    BY <1>1, <2>1, SignedByPlatform
  <2> QED
    BY <1>2, <2>2, <2>4, <2>5
<1> QED
  BY <1>3, <1>4

\* Whatever is asked for, the breakdown by platform adds up to the total.
THEOREM BreakdownAlwaysAddsUp == Spec => []BreakdownAddsUp
<1>1. BookInv => BreakdownAddsUp
  <2> SUFFICES ASSUME BookInv PROVE BreakdownAddsUp
    OBVIOUS
  <2>1. IInv /\ IsFiniteSet(DOMAIN legs) /\ Fits(legs, snap)
    BY DEF BookInv
  <2>2. LET total == Stock(Platforms)
            row == [p \in Platforms |-> Stock({p})]
        IN  /\ Sum([p \in Platforms |-> row[p].available]) = total.available
            /\ Sum([p \in Platforms |-> row[p].inTransit]) = total.inTransit
    BY <2>1, StockAdds
  <2>3. ASSUME NEW f \in Filters
        PROVE  LET total == PortfolioFlows(f)
                   row == [p \in Platforms |-> PlatformFlows(p, f)]
                   moved == {k \in Shown(f) : FlowType(k) = "transfer" /\ Settled(k)}
               IN  /\ Sum([p \in Platforms |-> row[p].inflow]) - total.inflow
                        = Total({k \in moved : k[2] = "in"})
                   /\ Sum([p \in Platforms |-> row[p].outflow]) - total.outflow
                        = -Total({k \in moved : k[2] = "out"})
    <3>1. Shown(f) \in SUBSET StatementRows
      BY DEF Shown
    <3> QED
      BY <2>1, <3>1, FlowsAdd DEF PortfolioFlows, PlatformFlows
  <2> QED
    BY <2>2, <2>3 DEF BreakdownAddsUp
<1> QED
  BY <1>1, BooksFit, PTL

-----------------------------------------------------------------------------
(* Lists in an order                                                       *)

\* The pairs R order the elements of S: one of two comes before the other.
StrictOrder(S, R) ==
    /\ \A x \in S : <<x, x>> \notin R
    /\ \A x, y \in S : x # y => <<x, y>> \in R \/ <<y, x>> \in R
    /\ \A x, y, z \in S : <<x, y>> \in R /\ <<y, z>> \in R => <<x, z>> \in R

\* An element has as many places before it as there are elements, and the list
\* has each at its place.
Place(S, R) == [x \in S |-> 1 + Cardinality({y \in S : <<y, x>> \in R})]
LEMMA InOrderInverts ==
    ASSUME NEW S, NEW R
    PROVE  InOrder(S, R) = Inverse(Place(S, R), S, 1..Cardinality(S))
BY DEF InOrder, Place

\* The places are 1, 2, ... up to the size of S, in the order R and no two the same.
LEMMA Placed ==
    ASSUME NEW S, IsFiniteSet(S), NEW R, StrictOrder(S, R)
    PROVE  /\ Place(S, R) \in [S -> 1..Cardinality(S)]
           /\ \A x, y \in S : <<x, y>> \in R => Place(S, R)[x] < Place(S, R)[y]
           /\ \A x, y \in S : Place(S, R)[x] = Place(S, R)[y] => x = y
<1> DEFINE n == Cardinality(S)
           before(x) == {y \in S : <<y, x>> \in R}
<1>1. n \in Nat
  BY FS_CardinalityType
<1>2. ASSUME NEW x \in S
      PROVE  /\ IsFiniteSet(before(x)) /\ Cardinality(before(x)) \in Nat
             /\ Cardinality(before(x)) < n
  <2>1. before(x) \in SUBSET S /\ x \notin before(x)
    BY DEF StrictOrder
  <2>2. IsFiniteSet(before(x)) /\ Cardinality(before(x)) <= n
        /\ (Cardinality(before(x)) = n => before(x) = S)
    BY <2>1, FS_Subset
  <2>3. Cardinality(before(x)) \in Nat
    BY <2>2, FS_CardinalityType
  <2> QED
    BY <1>1, <2>1, <2>2, <2>3
<1>3. \A x \in S : Place(S, R)[x] = 1 + Cardinality(before(x))
  BY DEF Place
<1>4. ASSUME NEW x \in S, NEW y \in S, <<x, y>> \in R
      PROVE  Place(S, R)[x] < Place(S, R)[y]
  <2>1. before(x) \in SUBSET before(y) /\ x \in before(y) /\ x \notin before(x)
    BY <1>4 DEF StrictOrder
  <2>2. IsFiniteSet(before(y))
    BY <1>2
  <2>3. Cardinality(before(x)) <= Cardinality(before(y))
        /\ (Cardinality(before(y)) = Cardinality(before(x)) => before(y) = before(x))
    BY <2>1, <2>2, FS_Subset
  <2> HIDE DEF before
  <2> QED
    BY <1>2, <1>3, <2>1, <2>3
<1>5. Place(S, R) \in [S -> 1..n]
  <2>1. \A x \in S : 1 + Cardinality(before(x)) \in 1..n
    <3> HIDE DEF before
    <3> QED BY <1>1, <1>2
  <2> QED
    BY <2>1 DEF Place
<1>6. ASSUME NEW x \in S, NEW y \in S, Place(S, R)[x] = Place(S, R)[y]
      PROVE  x = y
  <2>1. Place(S, R)[x] \in Int /\ Place(S, R)[y] \in Int
    BY <1>5
  <2>2. <<x, y>> \notin R /\ <<y, x>> \notin R
    BY <1>4, <1>6, <2>1
  <2> QED
    BY <2>2 DEF StrictOrder
<1> QED
  BY <1>4, <1>5, <1>6

\* The list has every element, at its place.
LEMMA Listed ==
    ASSUME NEW S, IsFiniteSet(S), NEW R, StrictOrder(S, R)
    PROVE  /\ Cardinality(S) \in Nat
           /\ InOrder(S, R) \in [1..Cardinality(S) -> S]
           /\ \A x \in S : InOrder(S, R)[Place(S, R)[x]] = x
           /\ \A i \in 1..Cardinality(S) : Place(S, R)[InOrder(S, R)[i]] = i
<1> DEFINE n == Cardinality(S)
           place == Place(S, R)
<1>1. n \in Nat /\ IsFiniteSet(1..n) /\ Cardinality(1..n) = n
  BY FS_CardinalityType, FS_Interval
<1>2. place \in Injection(S, 1..n)
  BY Placed DEF Injection, IsInjective
<1>3. place \in Surjection(S, 1..n)
  BY <1>1, <1>2, FS_Injection
<1>4. \A i \in 1..n : \E x \in S : place[x] = i
  BY <1>3 DEF Surjection
<1>5. ASSUME NEW i \in 1..n
      PROVE  InOrder(S, R)[i] \in S /\ place[InOrder(S, R)[i]] = i
  <2>1. InOrder(S, R)[i] = CHOOSE x \in S : i \in Range(place) => place[x] = i
    BY InOrderInverts DEF Inverse
  <2>2. PICK x \in S : place[x] = i
    BY <1>4
  <2>3. i \in Range(place)
    BY <2>2, <1>2 DEF Range, Injection
  <2> QED
    BY <2>1, <2>2, <2>3
<1>6. InOrder(S, R) = [i \in 1..n |-> InOrder(S, R)[i]]
  <2>1. \E f : InOrder(S, R) = Inverse(f, S, 1..n)
    BY InOrderInverts
  <2>2. ASSUME NEW f PROVE Inverse(f, S, 1..n) = [i \in 1..n |-> Inverse(f, S, 1..n)[i]]
    <3> HIDE DEF n
    <3> QED BY DEF Inverse
  <2> QED
    BY <2>1, <2>2
<1>7. ASSUME NEW x \in S PROVE InOrder(S, R)[place[x]] = x
  <2>1. place[x] \in 1..n
    BY <1>2 DEF Injection
  <2> QED
    BY <1>5, <2>1, Placed
<1> QED
  BY <1>1, <1>5, <1>6, <1>7

-----------------------------------------------------------------------------
(* The order of the list of trades                                         *)

\* Finitely many groups can be told apart by numbers.
LEMMA Ranked ==
    ASSUME IsFiniteSet(Groups)
    PROVE  /\ \A g \in Groups : PositionOf[g] \in Nat
           /\ \A g, h \in Groups : PositionOf[g] = PositionOf[h] => g = h
<1> DEFINE n == Cardinality(Groups)
<1>1. n \in Nat /\ ExistsBijection(1..n, Groups)
  BY FS_CardinalityType
<1>2. IsFiniteSet(1..n) /\ Cardinality(1..n) = n
  BY <1>1, FS_Interval
<1>3. ExistsBijection(Groups, 1..n)
  BY <1>2, FS_SameCardinalityBij
<1>4. PICK f : f \in Injection(Groups, 1..n)
  BY <1>3 DEF ExistsBijection, Bijection
<1>5. PositionOf \in Injection(Groups, 1..n)
  BY <1>4 DEF PositionOf
<1> QED
  BY <1>1, <1>5 DEF Injection, IsInjective

\* Of two groups one comes first: the anchors are days, and on one day the
\* positions decide.
LEMMA GroupsOrdered ==
    ASSUME IsFiniteSet(Groups), IInv, NEW S \in SUBSET DOMAIN legs
    PROVE  StrictOrder({k[1] : k \in S}, GroupOrder({k[1] : k \in S}))
<1> DEFINE G == {k[1] : k \in S}
<1>1. ASSUME NEW g \in G
      PROVE  g \in Groups /\ GroupAnchor(g) \in Nat /\ PositionOf[g] \in Nat
  <2> DEFINE days == {legs[k].trade : k \in LegsOf(g)}
  <2>1. g \in Groups /\ LegsOf(g) # {} /\ \A k \in LegsOf(g) : legs[k] \in Leg
    BY Tables, Keys DEF LegsOf, LegsIn
  <2>2. days \in SUBSET (0..LastDay) /\ days # {}
    <3>1. \A k \in LegsOf(g) : legs[k].trade \in 0..LastDay
      BY <2>1, DaysAreNumbers DEF Leg
    <3> QED
      BY <2>1, <3>1
  <2>3. Max(days) \in 0..LastDay
    BY <2>2, MaxOfDays
  <2> QED
    BY <2>1, <2>3, Ranked, DaysAreNumbers DEF GroupAnchor
<1>2. \A g, h \in G : <<g, h>> \in GroupOrder(G) <=> GroupBefore(g, h)
  BY DEF GroupOrder
<1>3. \A g, h \in G : PositionOf[g] = PositionOf[h] => g = h
  BY <1>1, Ranked
<1> HIDE DEF G
<1>4. \A g \in G : ~ GroupBefore(g, g)
  BY <1>1 DEF GroupBefore
<1>5. \A g, h \in G : g # h => GroupBefore(g, h) \/ GroupBefore(h, g)
  BY <1>1, <1>3 DEF GroupBefore
<1>6. \A g, h, i \in G : GroupBefore(g, h) /\ GroupBefore(h, i) => GroupBefore(g, i)
  BY <1>1 DEF GroupBefore
<1> QED
  BY <1>2, <1>4, <1>5, <1>6 DEF StrictOrder, G

\* Of two rows one comes first: their groups decide, within a group the ids.
LEMMA RowsOrdered ==
    ASSUME IsFiniteSet(Groups), IInv, NEW S \in SUBSET DOMAIN legs
    PROVE  StrictOrder(S, RowOrder(S))
<1> DEFINE G == {k[1] : k \in S}
<1>1. StrictOrder(G, GroupOrder(G))
  BY GroupsOrdered
<1>2. /\ \A g \in G : ~ GroupBefore(g, g)
      /\ \A g, h \in G : g # h => GroupBefore(g, h) \/ GroupBefore(h, g)
      /\ \A g, h, i \in G : GroupBefore(g, h) /\ GroupBefore(h, i) => GroupBefore(g, i)
  BY <1>1 DEF StrictOrder, GroupOrder
<1>3. \A j, k \in S : <<j, k>> \in RowOrder(S) <=> RowBefore(j, k)
  BY DEF RowOrder
<1>4. \A k \in S : k[1] \in G /\ k = <<k[1], k[2]>> /\ k[2] \in {"fund", "out", "in"}
  BY Tables, Keys
<1>5. \A k \in S : IdOf(k) \in Nat
  BY DEF IdOf
<1>6. \A j, k \in S : j[1] = k[1] /\ IdOf(j) = IdOf(k) => j = k
  <2>1. \A j, k \in S : IdOf(j) = IdOf(k) => j[2] = k[2]
    BY <1>4 DEF IdOf
  <2> QED
    BY <1>4, <2>1
<1> HIDE DEF G
<1>7. \A k \in S : ~ RowBefore(k, k)
  BY <1>2, <1>4, <1>5 DEF RowBefore
<1>8. \A j, k \in S : j # k => RowBefore(j, k) \/ RowBefore(k, j)
  BY <1>2, <1>4, <1>5, <1>6 DEF RowBefore
<1>9. \A i, j, k \in S : RowBefore(i, j) /\ RowBefore(j, k) => RowBefore(i, k)
  BY <1>2, <1>4, <1>5 DEF RowBefore
<1> QED
  BY <1>3, <1>7, <1>8, <1>9 DEF StrictOrder

-----------------------------------------------------------------------------
(* The walk over the groups                                                *)

\* The least of a set of numbers.
LEMMA LeastOf ==
    ASSUME NEW S \in SUBSET Nat, S # {}
    PROVE  Min(S) \in S /\ \A x \in S : Min(S) <= x
<1>1. PICK m \in S : \A x \in S : ~ (<<x, m>> \in OpToRel(<, Nat))
  BY NatLessThanWellFounded, WFMin
<1>2. \A x \in S : m <= x
  <2> SUFFICES ASSUME NEW x \in S, ~ (m <= x) PROVE FALSE
    OBVIOUS
  <2>1. <<x, m>> \in Nat \X Nat /\ <<x, m>>[1] < <<x, m>>[2]
    OBVIOUS
  <2> QED
    BY <1>1, <2>1 DEF OpToRel
<1> QED
  BY <1>2 DEF Min

\* A list of sizes, none of them zero, and the rows of the first i groups.
Sizes(sizes) == sizes = [i \in 1..Len(sizes) |-> sizes[i]] /\ Len(sizes) \in Nat
                /\ \A i \in 1..Len(sizes) : sizes[i] \in Nat \ {0}
UpTo(sizes, i) == SumFunctionOnSet(sizes, 1..i)

\* Group by group the rows become more.
LEMMA RowsGrow ==
    ASSUME NEW sizes, Sizes(sizes)
    PROVE  /\ UpTo(sizes, 0) = 0
           /\ \A i \in 0..Len(sizes) : UpTo(sizes, i) \in Nat
           /\ \A i \in 1..Len(sizes) : UpTo(sizes, i) = UpTo(sizes, i - 1) + sizes[i]
           /\ \A i, j \in 0..Len(sizes) : i < j => UpTo(sizes, i) < UpTo(sizes, j)
<1> DEFINE N == Len(sizes)
<1>1. UpTo(sizes, 0) = 0
  <2>1. 1..0 = {}
    OBVIOUS
  <2> QED
    BY <2>1, SumEmpty DEF UpTo
<1>2. ASSUME NEW i \in 0..N PROVE UpTo(sizes, i) \in Nat
  <2>1. IsFiniteSet(1..i) /\ \A x \in 1..i : sizes[x] \in Nat
    BY FS_Interval DEF Sizes
  <2> QED
    BY <2>1, SumNat DEF UpTo
<1>3. ASSUME NEW i \in 1..N PROVE UpTo(sizes, i) = UpTo(sizes, i - 1) + sizes[i]
  <2>1. IsFiniteSet(1..(i-1)) /\ i \notin 1..(i-1) /\ 1..i = (1..(i-1)) \cup {i}
    BY FS_Interval DEF Sizes
  <2>2. \A x \in 1..i : sizes[x] \in Int
    BY DEF Sizes
  <2> QED
    BY <2>1, <2>2, SumAdd DEF UpTo
<1> DEFINE P == {m \in Nat : \A i \in 0..N : i + m + 1 <= N => UpTo(sizes, i) < UpTo(sizes, i + m + 1)}
<1>4. \A i \in 0..N : i + 1 <= N => UpTo(sizes, i) < UpTo(sizes, i + 1)
  <2> SUFFICES ASSUME NEW i \in 0..N, i + 1 <= N PROVE UpTo(sizes, i) < UpTo(sizes, i + 1)
    OBVIOUS
  <2>1. N \in Nat /\ i + 1 \in 1..N /\ (i + 1) - 1 = i
    BY DEF Sizes
  <2>2. sizes[i + 1] \in Nat \ {0} /\ UpTo(sizes, i) \in Nat
    BY <2>1, <1>2 DEF Sizes
  <2>3. UpTo(sizes, i + 1) = UpTo(sizes, i) + sizes[i + 1]
    BY <1>3, <2>1
  <2> QED
    BY <2>2, <2>3
<1>5. 0 \in P
  BY <1>4 DEF Sizes
<1>6. ASSUME NEW m \in Nat, m \in P PROVE m + 1 \in P
  <2> SUFFICES ASSUME NEW i \in 0..N, i + (m + 1) + 1 <= N
               PROVE  UpTo(sizes, i) < UpTo(sizes, i + (m + 1) + 1)
    OBVIOUS
  <2>1. N \in Nat /\ i + m + 1 \in 0..N /\ i + m + 1 + 1 <= N /\ i + (m + 1) + 1 = (i + m + 1) + 1
    BY DEF Sizes
  <2>2. UpTo(sizes, i) < UpTo(sizes, i + m + 1)
    BY <1>6, <2>1
  <2>3. UpTo(sizes, i + m + 1) < UpTo(sizes, i + m + 1 + 1)
    BY <1>4, <2>1
  <2>4. UpTo(sizes, i) \in Nat /\ UpTo(sizes, i + m + 1) \in Nat /\ UpTo(sizes, i + m + 1 + 1) \in Nat
    <3>1. i + m + 1 + 1 \in 0..N
      BY <2>1
    <3> QED BY <1>2, <2>1, <3>1
  <2> QED
    BY <2>1, <2>2, <2>3, <2>4
<1>7. Nat \subseteq P
  <2> HIDE DEF P
  <2> QED BY <1>5, <1>6, NatInduct
<1>8. ASSUME NEW i \in 0..N, NEW j \in 0..N, i < j PROVE UpTo(sizes, i) < UpTo(sizes, j)
  <2>1. N \in Nat /\ j - i - 1 \in Nat /\ i + (j - i - 1) + 1 = j
    BY <1>8 DEF Sizes
  <2>2. j - i - 1 \in P
    BY <1>7, <2>1
  <2> QED
    BY <2>1, <2>2
<1> QED
  BY <1>1, <1>2, <1>3, <1>8

\* The end of the page after one that ends at e, and all ends from those before.
NextEnd(sizes, n, e) ==
    LET full == {b \in Borders(sizes) : b >= e + n}
    IN  IF full = {} THEN Max(Borders(sizes)) ELSE Min(full)
EndsFrom(sizes, n, g) ==
    [p \in 0..Len(sizes) |-> IF p = 0 THEN 0 ELSE NextEnd(sizes, n, g[p - 1])]

\* The recursion of PageEnds picks a function that solves it,
LEMMA EndsChosen ==
    ASSUME NEW sizes, NEW n
    PROVE  PageEnds(sizes, n) = CHOOSE g : g = EndsFrom(sizes, n, g)
BY DEF PageEnds, EndsFrom, NextEnd

\* and there is one: m steps of it are right for the first m pages.
LEMMA EndsSolve ==
    ASSUME NEW sizes, Len(sizes) \in Nat, NEW n
    PROVE  PageEnds(sizes, n) = EndsFrom(sizes, n, PageEnds(sizes, n))
<1> DEFINE N == Len(sizes)
           Q == {m \in Nat : \E g : \A p \in 0..N : p <= m => g[p] = EndsFrom(sizes, n, g)[p]}
<1>1. \A g : /\ EndsFrom(sizes, n, g)[0] = 0
             /\ \A p \in 1..N : EndsFrom(sizes, n, g)[p] = NextEnd(sizes, n, g[p - 1])
  BY DEF EndsFrom
<1>2. 0 \in Q
  <2>1. \A p \in 0..N : p <= 0 =>
           [q \in 0..N |-> 0][p] = EndsFrom(sizes, n, [q \in 0..N |-> 0])[p]
    BY <1>1
  <2> QED
    BY <2>1
<1>3. ASSUME NEW m \in Nat, m \in Q PROVE m + 1 \in Q
  <2>1. PICK g : \A p \in 0..N : p <= m => g[p] = EndsFrom(sizes, n, g)[p]
    BY <1>3
  <2> DEFINE h == EndsFrom(sizes, n, g)
  <2>2. ASSUME NEW p \in 0..N, p <= m + 1 PROVE h[p] = EndsFrom(sizes, n, h)[p]
    <3>1. CASE p = 0
      BY <1>1, <3>1
    <3>2. CASE p # 0
      <4>1. p \in 1..N /\ p - 1 \in 0..N /\ p - 1 <= m
        BY <2>2, <3>2
      <4>2. g[p - 1] = h[p - 1]
        BY <2>1, <4>1
      <4> QED
        BY <1>1, <4>1, <4>2
    <3> QED
      BY <3>1, <3>2
  <2> QED
    BY <2>2
<1>4. N \in Q
  <2>1. Nat \subseteq Q
    <3> HIDE DEF Q
    <3> QED BY <1>2, <1>3, NatInduct
  <2> QED
    BY <2>1
<1>5. PICK g : \A p \in 0..N : g[p] = EndsFrom(sizes, n, g)[p]
  BY <1>4
<1> DEFINE h == EndsFrom(sizes, n, g)
<1>6. \A p \in 0..N : NextEnd(sizes, n, g[p]) = NextEnd(sizes, n, h[p])
  BY <1>5
<1>7. h = EndsFrom(sizes, n, h)
  <2>1. \A p \in 0..N : p # 0 => NextEnd(sizes, n, g[p - 1]) = NextEnd(sizes, n, h[p - 1])
    BY <1>6
  <2> QED
    BY <2>1 DEF EndsFrom
<1> QED
  BY <1>7, EndsChosen

\* What the walk cuts: every end is a border, no page but the last has less than
\* n rows, and the last one ends with the last row.
Cut(sizes, n, end, count) ==
    /\ count \in 0..Len(sizes)
    /\ \A p \in 0..count : \E i \in 0..Len(sizes) : end[p] = UpTo(sizes, i)
    /\ end[0] = 0 /\ end[count] = UpTo(sizes, Len(sizes))
    /\ \A p \in 1..count : end[p - 1] <= end[p] /\ (p < count => end[p] >= end[p - 1] + n)

\* The pages between the ends.
PagesBy(end, count) ==
    [p \in 1..count |-> [offset |-> end[p - 1], limit |-> end[p] - end[p - 1]]]

\* The last border is behind all rows.
LEMMA LastBorder ==
    ASSUME NEW sizes, Sizes(sizes)
    PROVE  /\ Max(Borders(sizes)) = UpTo(sizes, Len(sizes))
           /\ Borders(sizes) \in SUBSET Nat
           /\ \A b \in Borders(sizes) : b <= UpTo(sizes, Len(sizes))
<1> DEFINE N == Len(sizes)
<1>1. N \in Nat /\ N \in 0..N
  BY DEF Sizes
<1>2. Borders(sizes) = {UpTo(sizes, i) : i \in 0..N}
  BY DEF Borders, UpTo
<1>3. \A i \in 0..N : UpTo(sizes, i) \in Nat /\ UpTo(sizes, i) <= UpTo(sizes, N)
  <2> SUFFICES ASSUME NEW i \in 0..N PROVE UpTo(sizes, i) \in Nat /\ UpTo(sizes, i) <= UpTo(sizes, N)
    OBVIOUS
  <2>1. UpTo(sizes, i) \in Nat /\ UpTo(sizes, N) \in Nat
    BY <1>1, RowsGrow
  <2>2. CASE i = N
    BY <2>1, <2>2
  <2>3. CASE i # N
    <3>1. i < N
      BY <1>1, <2>3
    <3> QED
      BY <1>1, <2>1, <3>1, RowsGrow
  <2> QED
    BY <2>2, <2>3
<1>4. Borders(sizes) \in SUBSET Nat /\ UpTo(sizes, N) \in Borders(sizes)
      /\ \A b \in Borders(sizes) : b <= UpTo(sizes, N)
  BY <1>1, <1>2, <1>3
<1>5. Max(Borders(sizes)) \in Borders(sizes) /\ \A b \in Borders(sizes) : Max(Borders(sizes)) >= b
  <2>1. \E x \in Borders(sizes) : \A y \in Borders(sizes) : x >= y
    BY <1>4
  <2> QED
    BY <2>1 DEF Max
<1> QED
  BY <1>4, <1>5

\* The walk cuts so, since every page takes a group at least.
LEMMA PagesCut ==
    ASSUME NEW sizes, Sizes(sizes), NEW n \in Nat \ {0}
    PROVE  \E end, count : /\ Cut(sizes, n, end, count)
                           /\ WalkGroupPages(sizes, n) = PagesBy(end, count)
<1> DEFINE N == Len(sizes)
           end == PageEnds(sizes, n)
           total == UpTo(sizes, N)
           C == {p \in DOMAIN end : end[p] = Max(Borders(sizes))}
           count == Min(C)
<1>1. N \in Nat
  BY DEF Sizes
<1>2. DOMAIN end = 0..N /\ end[0] = 0 /\ \A p \in 1..N : end[p] = NextEnd(sizes, n, end[p - 1])
  <2>1. end = EndsFrom(sizes, n, end)
    BY <1>1, EndsSolve
  <2> HIDE DEF end
  <2>2. \A g : /\ DOMAIN EndsFrom(sizes, n, g) = 0..N /\ EndsFrom(sizes, n, g)[0] = 0
               /\ \A p \in 1..N : EndsFrom(sizes, n, g)[p] = NextEnd(sizes, n, g[p - 1])
    BY <1>1 DEF EndsFrom
  <2> QED
    BY <2>1, <2>2
<1> HIDE DEF end
<1>3. ASSUME NEW e \in Borders(sizes)
      PROVE  /\ NextEnd(sizes, n, e) \in Borders(sizes) /\ e <= NextEnd(sizes, n, e)
             /\ NextEnd(sizes, n, e) = total \/ NextEnd(sizes, n, e) >= e + n
  <2> DEFINE full == {b \in Borders(sizes) : b >= e + n}
  <2>1. e \in Nat /\ e <= total /\ total \in Borders(sizes) /\ total = Max(Borders(sizes))
    BY <1>1, LastBorder DEF Borders, UpTo
  <2>2. CASE full = {}
    BY <2>1, <2>2 DEF NextEnd
  <2>3. CASE full # {}
    <3>1. full \in SUBSET Nat
      BY LastBorder
    <3>2. Min(full) \in full
      BY <2>3, <3>1, LeastOf
    <3>3. NextEnd(sizes, n, e) = Min(full)
      BY <2>3 DEF NextEnd
    <3> QED
      BY <2>1, <3>1, <3>2, <3>3
  <2> QED
    BY <2>2, <2>3
\* every page takes a group at least
<1> DEFINE P == {p \in Nat : p <= N => \E i \in p..N : end[p] = UpTo(sizes, i)}
<1>4. 0 \in P
  BY <1>1, <1>2, RowsGrow
<1>5. ASSUME NEW p \in Nat, p \in P PROVE p + 1 \in P
  <2> SUFFICES ASSUME p + 1 <= N PROVE \E i \in (p + 1)..N : end[p + 1] = UpTo(sizes, i)
    OBVIOUS
  <2>1. PICK i \in p..N : end[p] = UpTo(sizes, i)
    BY <1>1, <1>5
  <2>2. p + 1 \in 1..N /\ (p + 1) - 1 = p /\ i \in 0..N
    BY <1>1, <2>1
  <2>3. end[p] \in Borders(sizes) /\ end[p] \in Nat
    BY <2>1, <2>2, RowsGrow DEF Borders, UpTo
  <2>4. end[p + 1] = NextEnd(sizes, n, end[p])
    BY <1>2, <2>2
  <2>5. CASE end[p + 1] = total
    BY <1>1, <2>5
  <2>6. CASE end[p + 1] # total
    <3>1. end[p + 1] \in Borders(sizes) /\ end[p + 1] >= end[p] + n
      BY <1>3, <2>3, <2>4, <2>6
    <3>2. PICK j \in 0..N : end[p + 1] = UpTo(sizes, j)
      BY <3>1 DEF Borders, UpTo
    <3>3. UpTo(sizes, j) \in Nat /\ UpTo(sizes, i) < UpTo(sizes, j)
      BY <2>1, <2>3, <3>1, <3>2, RowsGrow
    <3>4. ~ (j <= i)
      <4>1. CASE j < i
        <5>1. UpTo(sizes, j) < UpTo(sizes, i)
          BY <2>2, <4>1, RowsGrow
        <5> QED BY <2>1, <2>3, <3>3, <5>1
      <4>2. CASE j = i
        BY <3>3, <4>2
      <4> QED
        BY <2>2, <4>1, <4>2
    <3> QED
      BY <2>1, <2>2, <3>2, <3>4
  <2> QED
    BY <2>5, <2>6
<1>6. \A p \in 0..N : \E i \in p..N : end[p] = UpTo(sizes, i)
  <2>1. Nat \subseteq P
    <3> HIDE DEF P
    <3> QED BY <1>4, <1>5, NatInduct
  <2> QED
    BY <2>1
<1>7. \A p \in 0..N : end[p] \in Borders(sizes) /\ end[p] \in Nat
  BY <1>6, RowsGrow DEF Borders, UpTo
<1>8. total = Max(Borders(sizes))
  BY LastBorder
<1>9. count \in C /\ \A p \in C : count <= p
  <2>1. N \in C
    BY <1>1, <1>2, <1>6, <1>8
  <2>2. C \in SUBSET Nat
    BY <1>2
  <2> QED
    BY <2>1, <2>2, LeastOf
<1> HIDE DEF count
<1>10. count \in 0..N /\ end[count] = total /\ \A p \in 0..N : p < count => end[p] # total
  BY <1>1, <1>2, <1>8, <1>9
<1>11. WalkGroupPages(sizes, n) = PagesBy(end, count)
  BY DEF WalkGroupPages, PagesBy, end, count
<1>12. ASSUME NEW p \in 1..count
       PROVE  end[p - 1] <= end[p] /\ (p < count => end[p] >= end[p - 1] + n)
  <2>1. p \in 1..N /\ p - 1 \in 0..N
    BY <1>10
  <2> QED
    BY <1>2, <1>3, <1>7, <1>10, <2>1
<1>13. Cut(sizes, n, end, count)
  <2>1. \A p \in 0..count : \E i \in 0..N : end[p] = UpTo(sizes, i)
    BY <1>1, <1>6, <1>10
  <2> QED
    BY <1>2, <1>10, <1>12, <2>1 DEF Cut
<1> QED
  BY <1>11, <1>13

-----------------------------------------------------------------------------
(* The pages                                                               *)

\* The rows between the ends, page by page.
Slices(items, end, count) ==
    [p \in 1..count |-> SubSeq(items, end[p - 1] + 1, end[p])]

\* Slices of a list, one after the other up to its end, join to that list.
LEMMA CutsJoin ==
    ASSUME NEW S, NEW items \in Seq(S), NEW count \in Nat, NEW end,
           end[0] = 0, end[count] = Len(items),
           \A p \in 0..count : end[p] \in Nat,
           \A p \in 1..count : end[p - 1] <= end[p]
    PROVE  Seqs!FlattenSeq(Slices(items, end, count)) = items
<1> DEFINE pages == Slices(items, end, count)
           joined == [p \in 1..count |-> SubSeq(items, 1, end[p])]
           Body(f) == [i \in 1..Len(pages) |-> IF i = 1 THEN pages[i] ELSE f[i-1] \o pages[i]]
<1>1. /\ pages = [p \in 1..count |-> SubSeq(items, end[p - 1] + 1, end[p])]
      /\ Len(pages) = count
  BY DEF Slices
<1> HIDE DEF pages
<1>2. \A p \in 0..count : end[p] <= Len(items)
  <2> DEFINE P == {m \in Nat : m <= count => end[count - m] <= Len(items)}
  <2>1. 0 \in P
    OBVIOUS
  <2>2. ASSUME NEW m \in Nat, m \in P PROVE m + 1 \in P
    <3> SUFFICES ASSUME m + 1 <= count PROVE end[count - (m + 1)] <= Len(items)
      OBVIOUS
    <3>1. count - m \in 1..count /\ count - (m + 1) = (count - m) - 1
          /\ count - m \in 0..count /\ count - (m + 1) \in 0..count
      OBVIOUS
    <3>2. end[count - m] <= Len(items) /\ end[count - (m + 1)] <= end[count - m]
      BY <2>2, <3>1
    <3>3. end[count - m] \in Nat /\ end[count - (m + 1)] \in Nat /\ Len(items) \in Nat
      BY <3>1
    <3> QED
      BY <3>2, <3>3
  <2>3. Nat \subseteq P
    <3> HIDE DEF P
    <3> QED BY <2>1, <2>2, NatInduct
  <2> SUFFICES ASSUME NEW p \in 0..count PROVE end[p] <= Len(items)
    OBVIOUS
  <2>4. count - p \in Nat /\ count - p <= count /\ count - (count - p) = p
    OBVIOUS
  <2>5. count - p \in P
    BY <2>3, <2>4
  <2> QED
    BY <2>4, <2>5
<1>3. ASSUME NEW p \in 1..count, p # 1
      PROVE  joined[p - 1] \o pages[p] = joined[p]
  <2>1. p - 1 \in 1..count /\ p - 1 \in 0..count /\ p \in 0..count
    BY <1>3
  <2>2. end[p - 1] \in 0..Len(items) /\ end[p] \in end[p - 1]..Len(items) /\ 1 \in 1..(Len(items) + 1)
    BY <1>2, <2>1
  <2>3. SubSeq(items, 1, end[p - 1]) \o SubSeq(items, end[p - 1] + 1, end[p]) = SubSeq(items, 1, end[p])
    <3>1. end[p - 1] \in (1 - 1)..Len(items)
      BY <2>2
    <3> HIDE DEF joined
    <3> QED BY <2>2, <3>1, ConcatAdjacentSubSeq
  <2> QED
    BY <1>1, <2>1, <2>3
<1>4. joined = Body(joined)
  <2>1. ASSUME NEW p \in 1..count
        PROVE  joined[p] = IF p = 1 THEN pages[p] ELSE joined[p - 1] \o pages[p]
    <3>1. CASE p = 1
      <4>1. p - 1 = 0 /\ end[p - 1] + 1 = 1
        BY <3>1
      <4> QED
        BY <1>1, <3>1, <4>1
    <3>2. CASE p # 1
      BY <1>3, <3>2
    <3> QED
      BY <3>1, <3>2
  <2>2. Body(joined) = [p \in 1..count |-> IF p = 1 THEN pages[p] ELSE joined[p - 1] \o pages[p]]
    BY <1>1
  <2>3. joined = [p \in 1..count |-> joined[p]]
    OBVIOUS
  <2> HIDE DEF joined, Body
  <2> QED
    BY <2>1, <2>2, <2>3
<1>5. ASSUME NEW f, f = Body(f), count # 0 PROVE f[count] = joined[count]
  <2> DEFINE P == {m \in Nat : m + 1 <= count => f[m + 1] = joined[m + 1]}
  <2>1. \A p \in 1..count : f[p] = IF p = 1 THEN pages[p] ELSE f[p - 1] \o pages[p]
    BY <1>1, <1>5
  <2>2. \A p \in 1..count : joined[p] = IF p = 1 THEN pages[p] ELSE joined[p - 1] \o pages[p]
    <3> HIDE DEF joined
    <3> QED BY <1>1, <1>4
  <2> HIDE DEF joined
  <2>3. 0 \in P
    BY <2>1, <2>2
  <2>4. ASSUME NEW m \in Nat, m \in P PROVE m + 1 \in P
    <3> SUFFICES ASSUME (m + 1) + 1 <= count PROVE f[(m + 1) + 1] = joined[(m + 1) + 1]
      OBVIOUS
    <3>1. (m + 1) + 1 \in 1..count /\ (m + 1) + 1 # 1 /\ ((m + 1) + 1) - 1 = m + 1 /\ m + 1 <= count
      OBVIOUS
    <3> QED
      BY <2>1, <2>2, <2>4, <3>1
  <2>5. Nat \subseteq P
    <3> HIDE DEF P
    <3> QED BY <2>3, <2>4, NatInduct
  <2>6. count - 1 \in Nat /\ (count - 1) + 1 = count
    BY <1>5
  <2>7. count - 1 \in P
    BY <2>5, <2>6
  <2> QED
    BY <2>6, <2>7
<1>6. CASE count = 0
  <2>1. pages = <<>> /\ items = <<>>
    BY <1>1, <1>6
  <2> QED
    BY <1>1, <1>6, <2>1 DEF Seqs!FlattenSeq, pages
<1>7. CASE count # 0
  <2> DEFINE flat == CHOOSE f : f = Body(f)
  <2>1. flat = Body(flat)
    <3> HIDE DEF joined, Body
    <3> QED BY <1>4
  <2>2. flat[count] = joined[count]
    <3> HIDE DEF flat, joined, Body
    <3> QED BY <1>5, <1>7, <2>1
  <2>3. Seqs!FlattenSeq(pages) = flat[Len(pages)]
    <3> HIDE DEF joined
    <3> QED BY <1>1, <1>7 DEF Seqs!FlattenSeq
  <2>4. joined[count] = items
    BY <1>7, SubSeqFull
  <2> QED
    BY <1>1, <2>2, <2>3, <2>4 DEF pages
<1> QED
  BY <1>6, <1>7

\* The groups of the rows S, and the turn of each.
GroupsIn(S) == {k[1] : k \in S}
Turns(S) == Place(GroupsIn(S), GroupOrder(GroupsIn(S)))

\* The first i sizes add up to the rows of the first i groups.
LEMMA SizesAddUp ==
    ASSUME IsFiniteSet(Groups), IInv, NEW S \in SUBSET DOMAIN legs, IsFiniteSet(S)
    PROVE  /\ Sizes(GroupSizes(S)) /\ Len(GroupSizes(S)) = Cardinality(GroupsIn(S))
           /\ \A i \in 0..Cardinality(GroupsIn(S)) :
                 UpTo(GroupSizes(S), i) = Cardinality({k \in S : Turns(S)[k[1]] <= i})
<1> DEFINE G == GroupsIn(S)
           N == Cardinality(G)
           order == InOrder(G, GroupOrder(G))
           sizes == GroupSizes(S)
           turn == Turns(S)
           upto(i) == {k \in S : turn[k[1]] <= i}
           own(i) == {k \in S : turn[k[1]] = i}
<1>1. StrictOrder(G, GroupOrder(G)) /\ IsFiniteSet(G)
  <2>1. IsFiniteSet(G)
    <3> DEFINE f == [k \in S |-> k[1]]
    <3>1. f \in Surjection(S, G)
      BY DEF Surjection, GroupsIn
    <3> QED
      BY <3>1, FS_Surjection
  <2> QED
    BY <2>1, GroupsOrdered DEF GroupsIn
<1>2. /\ N \in Nat /\ order \in [1..N -> G] /\ turn \in [G -> 1..N]
      /\ \A g \in G : order[turn[g]] = g
      /\ \A i \in 1..N : turn[order[i]] = i
  BY <1>1, Listed, Placed DEF Turns
<1>3. \A k \in S : k[1] \in G /\ turn[k[1]] \in 1..N
  BY <1>2 DEF GroupsIn
<1>4. \A i \in 1..N : {k \in S : k[1] = order[i]} = own(i)
  <2> SUFFICES ASSUME NEW i \in 1..N PROVE {k \in S : k[1] = order[i]} = own(i)
    OBVIOUS
  <2> HIDE DEF order, turn, G, N
  <2> QED
    BY <1>2, <1>3
<1>5. sizes = [i \in 1..N |-> Cardinality(own(i))]
  <2>1. sizes = [i \in DOMAIN order |-> Cardinality({k \in S : k[1] = order[i]})]
    BY DEF GroupSizes, GroupsIn
  <2>2. DOMAIN order = 1..N
    BY <1>2
  <2> HIDE DEF order, own
  <2> QED
    BY <1>4, <2>1, <2>2
<1> HIDE DEF G, N, order, sizes, turn
<1>6. ASSUME NEW i PROVE IsFiniteSet(own(i)) /\ Cardinality(own(i)) \in Nat
                         /\ IsFiniteSet(upto(i)) /\ Cardinality(upto(i)) \in Nat
  <2>1. own(i) \in SUBSET S /\ upto(i) \in SUBSET S
    OBVIOUS
  <2> HIDE DEF own, upto
  <2> QED
    BY <2>1, FS_Subset, FS_CardinalityType
<1>7. ASSUME NEW i \in 1..N PROVE Cardinality(own(i)) # 0
  <2>1. PICK k \in S : k[1] = order[i]
    BY <1>2 DEF G, GroupsIn
  <2>2. own(i) # {}
    BY <1>2, <2>1
  <2> HIDE DEF own
  <2> QED
    BY <1>6, <2>2, FS_EmptySet
<1>8. Sizes(sizes) /\ Len(sizes) = N
  <2>1. Len(sizes) = N
    BY <1>2, <1>5
  <2>2. \A i \in 1..N : sizes[i] \in Nat \ {0}
    <3> HIDE DEF own
    <3> QED BY <1>5, <1>6, <1>7
  <2>3. sizes = [i \in 1..N |-> sizes[i]]
    BY <1>5
  <2> QED
    BY <1>2, <2>1, <2>2, <2>3 DEF Sizes
<1> DEFINE P == {m \in Nat : m <= N => UpTo(sizes, m) = Cardinality(upto(m))}
<1>9. 0 \in P
  <2>1. upto(0) = {}
    BY <1>3
  <2>2. Cardinality(upto(0)) = 0
    BY <2>1, FS_EmptySet
  <2>3. UpTo(sizes, 0) = 0
    BY <1>8, RowsGrow
  <2> HIDE DEF upto
  <2> QED
    BY <2>2, <2>3
<1>10. ASSUME NEW m \in Nat, m \in P PROVE m + 1 \in P
  <2> SUFFICES ASSUME m + 1 <= N PROVE UpTo(sizes, m + 1) = Cardinality(upto(m + 1))
    OBVIOUS
  <2>1. m + 1 \in 1..N /\ (m + 1) - 1 = m /\ m <= N
    BY <1>2
  <2>2. UpTo(sizes, m + 1) = UpTo(sizes, m) + sizes[m + 1]
    BY <1>8, <2>1, RowsGrow
  <2>3. upto(m + 1) = upto(m) \cup own(m + 1) /\ upto(m) \cap own(m + 1) = {}
    BY <1>2, <1>3
  <2>4. sizes[m + 1] = Cardinality(own(m + 1)) /\ UpTo(sizes, m) = Cardinality(upto(m))
    BY <1>5, <1>10, <2>1
  <2> HIDE DEF own, upto
  <2>5. Cardinality(upto(m + 1)) = Cardinality(upto(m)) + Cardinality(own(m + 1)) - Cardinality({})
    BY <1>6, <2>3, FS_Union
  <2> QED
    BY <1>6, <2>2, <2>4, <2>5, FS_EmptySet
<1>11. Nat \subseteq P
  <2> HIDE DEF P
  <2> QED BY <1>9, <1>10, NatInduct
<1>12. ASSUME NEW i \in 0..N PROVE UpTo(sizes, i) = Cardinality(upto(i))
  BY <1>2, <1>11
<1> QED
  BY <1>8, <1>12 DEF sizes, turn, N, G

\* A row has its place behind the rows of all groups before its own, and not behind
\* those of its own.
LEMMA PlacesInGroup ==
    ASSUME IsFiniteSet(Groups), IInv, NEW S \in SUBSET DOMAIN legs, IsFiniteSet(S), NEW k \in S
    PROVE  /\ Turns(S)[k[1]] \in 1..Cardinality(GroupsIn(S))
           /\ UpTo(GroupSizes(S), Turns(S)[k[1]] - 1) < Place(S, RowOrder(S))[k]
           /\ Place(S, RowOrder(S))[k] <= UpTo(GroupSizes(S), Turns(S)[k[1]])
<1> DEFINE G == GroupsIn(S)
           N == Cardinality(G)
           turn == Turns(S)
           a == turn[k[1]]
           upto(i) == {j \in S : turn[j[1]] <= i}
           before == {j \in S : <<j, k>> \in RowOrder(S)}
<1>1. StrictOrder(G, GroupOrder(G)) /\ StrictOrder(S, RowOrder(S)) /\ IsFiniteSet(G)
  <2>1. IsFiniteSet(G)
    <3> DEFINE f == [j \in S |-> j[1]]
    <3>1. f \in Surjection(S, G)
      BY DEF Surjection, GroupsIn
    <3> QED
      BY <3>1, FS_Surjection
  <2> QED
    BY <2>1, GroupsOrdered, RowsOrdered DEF GroupsIn
<1>2. /\ N \in Nat /\ turn \in [G -> 1..N]
      /\ \A g, h \in G : <<g, h>> \in GroupOrder(G) => turn[g] < turn[h]
  BY <1>1, Listed, Placed DEF Turns
<1>3. \A j \in S : j[1] \in G /\ turn[j[1]] \in 1..N
  BY <1>2 DEF GroupsIn
<1>4. \A g, h \in G : GroupBefore(g, h) => turn[g] < turn[h]
  BY <1>2 DEF GroupOrder
<1>5. \A g, h \in G : turn[g] < turn[h] => GroupBefore(g, h)
  <2> SUFFICES ASSUME NEW g \in G, NEW h \in G, turn[g] < turn[h] PROVE GroupBefore(g, h)
    OBVIOUS
  <2>1. turn[g] \in Int /\ turn[h] \in Int
    BY <1>2
  <2> HIDE DEF G, turn
  <2>2. <<h, g>> \notin GroupOrder(G) /\ g # h
    BY <1>2, <2>1
  <2>3. <<g, h>> \in GroupOrder(G)
    BY <1>1, <2>2 DEF StrictOrder
  <2> QED
    BY <2>3 DEF GroupOrder
<1>6. \A j \in S : j \in before <=> RowBefore(j, k)
  BY DEF RowOrder
<1>7. k \notin before
  BY <1>1 DEF StrictOrder
<1> HIDE DEF G, N, turn
<1>8. upto(a - 1) \in SUBSET before
  <2> SUFFICES ASSUME NEW j \in S, turn[j[1]] <= a - 1 PROVE RowBefore(j, k)
    BY <1>6
  <2>1. turn[j[1]] < turn[k[1]]
    BY <1>3
  <2> QED
    BY <1>3, <1>5, <2>1 DEF RowBefore
<1>9. before \cup {k} \in SUBSET upto(a)
  <2>1. ASSUME NEW j \in S, RowBefore(j, k) PROVE turn[j[1]] <= a
    <3>1. turn[j[1]] \in Int /\ a \in Int
      BY <1>3
    <3> QED
      BY <1>3, <1>4, <2>1, <3>1 DEF RowBefore
  <2>2. k \in upto(a)
    BY <1>3
  <2> QED
    BY <1>6, <2>1, <2>2
<1>10. Place(S, RowOrder(S))[k] = 1 + Cardinality(before)
  BY DEF Place
<1>11. a \in 1..N /\ a - 1 \in 0..N /\ a \in 0..N
  BY <1>2, <1>3
<1>12. UpTo(GroupSizes(S), a - 1) = Cardinality(upto(a - 1))
       /\ UpTo(GroupSizes(S), a) = Cardinality(upto(a))
  BY <1>11, SizesAddUp DEF turn, G, N
<1>13. before \in SUBSET S /\ upto(a) \in SUBSET S /\ upto(a - 1) \in SUBSET S
  OBVIOUS
<1> HIDE DEF before, upto, a
<1>14. /\ IsFiniteSet(before) /\ Cardinality(before) \in Nat
       /\ IsFiniteSet(upto(a)) /\ Cardinality(upto(a)) \in Nat
       /\ IsFiniteSet(upto(a - 1)) /\ Cardinality(upto(a - 1)) \in Nat
  BY <1>13, FS_Subset, FS_CardinalityType
<1>15. Cardinality(upto(a - 1)) <= Cardinality(before)
  BY <1>8, <1>14, FS_Subset
<1>16. Cardinality(before \cup {k}) = Cardinality(before) + 1
  BY <1>7, <1>14, FS_AddElement
<1>17. Cardinality(before \cup {k}) <= Cardinality(upto(a))
  BY <1>9, <1>14, FS_Subset
<1> QED
  BY <1>10, <1>11, <1>12, <1>14, <1>15, <1>16, <1>17 DEF a, turn, G, N

\* The list of trades has the slices that the walk cuts.
LEMMA ListTradesCuts ==
    ASSUME NEW S, NEW n \in Nat \ {0}, NEW end, NEW count,
           WalkGroupPages(GroupSizes(S), n) = PagesBy(end, count),
           count \in Nat, \A p \in 0..count : end[p] \in Nat
    PROVE  ListTrades(S, n) = Slices(InOrder(S, RowOrder(S)), end, count)
<1> DEFINE items == InOrder(S, RowOrder(S))
           pages == WalkGroupPages(GroupSizes(S), n)
<1>1. ListTrades(S, n) = [i \in DOMAIN pages |->
          SubSeq(items, pages[i].offset + 1, pages[i].offset + pages[i].limit)]
  BY DEF ListTrades
<1>2. DOMAIN pages = 1..count
      /\ \A p \in 1..count : pages[p].offset = end[p - 1] /\ pages[p].limit = end[p] - end[p - 1]
  BY DEF pages, PagesBy
<1> HIDE DEF items, pages
<1>3. \A p \in 1..count : end[p - 1] + (end[p] - end[p - 1]) = end[p]
  <2> SUFFICES ASSUME NEW p \in 1..count PROVE end[p - 1] + (end[p] - end[p - 1]) = end[p]
    OBVIOUS
  <2>1. p \in 0..count /\ p - 1 \in 0..count
    OBVIOUS
  <2>2. end[p] \in Nat /\ end[p - 1] \in Nat
    BY <2>1
  <2> QED
    BY <2>2
<1>4. \A p \in 1..count : SubSeq(items, pages[p].offset + 1, pages[p].offset + pages[p].limit)
                             = SubSeq(items, end[p - 1] + 1, end[p])
  BY <1>2, <1>3
<1> QED
  BY <1>1, <1>2, <1>4 DEF items, Slices

\* Whatever rows are asked for, in pages of any size, the pages are the list.
LEMMA WholeList ==
    ASSUME IsFiniteSet(Groups), IInv, IsFiniteSet(DOMAIN legs),
           NEW S \in SUBSET DOMAIN legs, NEW n \in Nat \ {0}
    PROVE  ListedWhole(S, n)
<1> DEFINE items == InOrder(S, RowOrder(S))
           place == Place(S, RowOrder(S))
           sizes == GroupSizes(S)
           N == Len(sizes)
           pages == ListTrades(S, n)
           rows == Cardinality(S)
           turn == Turns(S)
<1>1. IsFiniteSet(S) /\ StrictOrder(S, RowOrder(S))
  BY FS_Subset, RowsOrdered
<1>2. /\ rows \in Nat /\ items \in [1..rows -> S] /\ place \in [S -> 1..rows]
      /\ \A x \in S : items[place[x]] = x
      /\ \A i \in 1..rows : place[items[i]] = i
  BY <1>1, Listed, Placed
<1>3. Sizes(sizes) /\ N = Cardinality(GroupsIn(S)) /\ N \in Nat
  BY <1>1, SizesAddUp DEF Sizes
<1>4. /\ \A i \in 0..N : UpTo(sizes, i) \in Nat
      /\ \A i, j \in 0..N : i < j => UpTo(sizes, i) < UpTo(sizes, j)
  BY <1>3, RowsGrow
<1>5. \A k \in S : /\ turn[k[1]] \in 1..N
                   /\ UpTo(sizes, turn[k[1]] - 1) < place[k]
                   /\ place[k] <= UpTo(sizes, turn[k[1]])
  BY <1>1, <1>3, PlacesInGroup
<1>6. UpTo(sizes, N) = rows
  <2>1. {k \in S : turn[k[1]] <= N} = S
    BY <1>3, <1>5
  <2>2. UpTo(sizes, N) = Cardinality({k \in S : turn[k[1]] <= N})
    BY <1>1, <1>3, SizesAddUp
  <2> HIDE DEF turn, sizes, N
  <2> QED
    BY <2>1, <2>2
<1>7. PICK end, count : /\ Cut(sizes, n, end, count)
                        /\ WalkGroupPages(sizes, n) = PagesBy(end, count)
  BY <1>3, PagesCut
<1>8. /\ count \in Nat /\ end[0] = 0 /\ end[count] = rows
      /\ \A p \in 0..count : \E i \in 0..N : end[p] = UpTo(sizes, i)
      /\ \A p \in 1..count : end[p - 1] <= end[p] /\ (p < count => end[p] >= end[p - 1] + n)
  BY <1>3, <1>6, <1>7 DEF Cut
<1>9. \A p \in 0..count : end[p] \in Nat
  BY <1>4, <1>8
<1>10. pages = Slices(items, end, count)
  BY <1>7, <1>8, <1>9, ListTradesCuts
<1>11. items \in Seq(S) /\ Len(items) = rows
  BY <1>2
<1>12. Seqs!FlattenSeq(pages) = items
  <2> HIDE DEF pages, items
  <2> QED BY <1>8, <1>9, <1>10, <1>11, CutsJoin
<1> HIDE DEF pages, items, place, sizes, N, rows, turn
<1>13. ASSUME NEW p \in 1..count
       PROVE  /\ pages[p] = SubSeq(items, end[p - 1] + 1, end[p])
              /\ end[p - 1] \in Nat /\ end[p] \in Nat /\ end[p - 1] <= end[p]
  <2>1. p \in 0..count /\ p - 1 \in 0..count
    BY <1>8
  <2> QED
    BY <1>8, <1>9, <1>10, <2>1 DEF Slices
\* the ends of pages in between only grow
<1>14. \A p, q \in 0..count : p <= q => end[p] <= end[q]
  <2> DEFINE P == {m \in Nat : \A p \in 0..count : p + m <= count => end[p] <= end[p + m]}
  <2>1. 0 \in P
    BY <1>8, <1>9
  <2>2. ASSUME NEW m \in Nat, m \in P PROVE m + 1 \in P
    <3> SUFFICES ASSUME NEW p \in 0..count, p + (m + 1) <= count PROVE end[p] <= end[p + (m + 1)]
      OBVIOUS
    <3>1. p + (m + 1) \in 1..count /\ (p + (m + 1)) - 1 = p + m /\ p + m <= count /\ p + m \in 0..count
          /\ p + (m + 1) \in 0..count
      BY <1>8
    <3>2. end[p] <= end[p + m] /\ end[p + m] <= end[p + (m + 1)]
      BY <1>8, <2>2, <3>1
    <3>3. end[p] \in Nat /\ end[p + m] \in Nat /\ end[p + (m + 1)] \in Nat
      BY <1>9, <3>1
    <3> QED
      BY <3>2, <3>3
  <2>3. Nat \subseteq P
    <3> HIDE DEF P
    <3> QED BY <2>1, <2>2, NatInduct
  <2> SUFFICES ASSUME NEW p \in 0..count, NEW q \in 0..count, p <= q PROVE end[p] <= end[q]
    OBVIOUS
  <2>4. q - p \in Nat /\ p + (q - p) = q /\ p + (q - p) <= count
    BY <1>8
  <2>5. q - p \in P
    BY <2>3, <2>4
  <2> QED
    BY <2>4, <2>5
\* the rows of a page are those at the places between its ends
<1>15. ASSUME NEW p \in 1..count, NEW k \in Range(pages[p])
       PROVE  k \in S /\ end[p - 1] < place[k] /\ place[k] <= end[p]
  <2>1. PICK i \in DOMAIN pages[p] : k = pages[p][i]
    BY <1>15 DEF Range
  <2>2. end[p] <= rows
    <3>1. p \in 0..count /\ count \in 0..count /\ p <= count
      BY <1>8
    <3> QED BY <1>8, <1>14, <3>1
  <2>3. /\ DOMAIN pages[p] = 1..(end[p] - end[p - 1])
        /\ \A j \in 1..(end[p] - end[p - 1]) : pages[p][j] = items[end[p - 1] + j]
    <3>1. \A j \in (end[p - 1] + 1)..end[p] : items[j] \in S
      BY <1>2, <1>13, <2>2
    <3>2. /\ SubSeq(items, end[p - 1] + 1, end[p]) \in Seq(S)
          /\ Len(SubSeq(items, end[p - 1] + 1, end[p]))
                = IF end[p - 1] + 1 <= end[p] THEN end[p] - (end[p - 1] + 1) + 1 ELSE 0
          /\ \A j \in 1..(end[p] - (end[p - 1] + 1) + 1) :
                SubSeq(items, end[p - 1] + 1, end[p])[j] = items[(end[p - 1] + 1) + j - 1]
      <4>1. end[p - 1] + 1 \in Int /\ end[p] \in Int
        BY <1>13
      <4> QED BY <3>1, <4>1, SubSeqProperties
    <3>3. end[p - 1] \in Nat /\ end[p] \in Nat /\ end[p - 1] <= end[p]
      BY <1>13
    <3>4. /\ end[p] - (end[p - 1] + 1) + 1 = end[p] - end[p - 1]
          /\ (end[p - 1] + 1 <= end[p]) \/ end[p] - end[p - 1] = 0
          /\ \A j \in 1..(end[p] - end[p - 1]) : (end[p - 1] + 1) + j - 1 = end[p - 1] + j
      BY <3>3
    <3>5. pages[p] \in Seq(S) /\ Len(pages[p]) = end[p] - end[p - 1]
      BY <1>13, <3>2, <3>4
    <3>6. \A j \in 1..(end[p] - end[p - 1]) : pages[p][j] = items[end[p - 1] + j]
      BY <1>13, <3>2, <3>4
    <3> QED
      BY <3>5, <3>6
  <2>4. i \in 1..(end[p] - end[p - 1]) /\ k = items[end[p - 1] + i]
    BY <2>1, <2>3
  <2>5. end[p - 1] + i \in 1..rows /\ end[p - 1] < end[p - 1] + i /\ end[p - 1] + i <= end[p]
    <3>1. rows \in Nat /\ end[p - 1] \in Nat /\ end[p] \in Nat /\ end[p] <= rows
      BY <1>2, <1>13, <2>2
    <3>2. i \in Int /\ 1 <= i /\ i <= end[p] - end[p - 1]
      BY <2>4, <3>1
    <3> QED
      BY <3>1, <3>2
  <2> QED
    BY <1>2, <2>4, <2>5
<1>16. ASSUME NEW p \in 1..count, NEW q \in 1..count, p < q,
              NEW j \in Range(pages[p]), NEW k \in Range(pages[q])
       PROVE  j[1] # k[1]
  <2> SUFFICES ASSUME j[1] = k[1] PROVE FALSE
    OBVIOUS
  <2> DEFINE a == turn[j[1]]
  <2>1. /\ j \in S /\ k \in S /\ place[j] <= end[p] /\ end[q - 1] < place[k]
    BY <1>15
  <2>2. /\ a \in 1..N /\ UpTo(sizes, a - 1) < place[j] /\ place[k] <= UpTo(sizes, a)
    BY <1>5, <2>1
  <2>3. p \in 0..count /\ q - 1 \in 0..count /\ p <= q - 1
    BY <1>8, <1>16
  <2>4. end[p] <= end[q - 1]
    BY <1>14, <2>3
  <2>5. PICK b \in 0..N : end[p] = UpTo(sizes, b)
    BY <1>8, <2>3
  <2> HIDE DEF a
  <2>6. a - 1 \in 0..N /\ a \in 0..N
    BY <1>3, <2>2
  <2>7. /\ UpTo(sizes, a - 1) \in Nat /\ UpTo(sizes, a) \in Nat /\ UpTo(sizes, b) \in Nat
        /\ place[j] \in Nat /\ place[k] \in Nat /\ end[q - 1] \in Nat
    <3>1. UpTo(sizes, a - 1) \in Nat /\ UpTo(sizes, a) \in Nat /\ UpTo(sizes, b) \in Nat
      BY <1>4, <2>6
    <3>2. place[j] \in Nat /\ place[k] \in Nat
      BY <1>2, <2>1
    <3>3. end[q - 1] \in Nat
      BY <1>9, <2>3
    <3> QED
      BY <3>1, <3>2, <3>3
  <2>8. UpTo(sizes, a - 1) < UpTo(sizes, b) /\ UpTo(sizes, b) < UpTo(sizes, a)
    BY <2>1, <2>2, <2>4, <2>5, <2>7
  <2>9. CASE b < a - 1
    <3>1. UpTo(sizes, b) < UpTo(sizes, a - 1)
      BY <1>4, <2>6, <2>9
    <3> QED BY <2>7, <2>8, <3>1
  <2>10. CASE b = a - 1 \/ b = a
    BY <2>7, <2>8, <2>10
  <2>11. CASE a < b
    <3>1. UpTo(sizes, a) < UpTo(sizes, b)
      BY <1>4, <2>6, <2>11
    <3> QED BY <2>7, <2>8, <3>1
  <2> QED
    BY <2>6, <2>9, <2>10, <2>11
<1>17. ASSUME NEW p \in 1..count, p < count PROVE Len(pages[p]) >= n
  <2>1. end[p] >= end[p - 1] + n
    BY <1>8, <1>17
  <2>2. end[p] <= rows
    <3>1. p \in 0..count /\ count \in 0..count /\ p <= count
      BY <1>8
    <3> QED BY <1>8, <1>14, <3>1
  <2>3. \A i \in (end[p - 1] + 1)..end[p] : items[i] \in S
    BY <1>2, <1>13, <2>2
  <2>4. Len(SubSeq(items, end[p - 1] + 1, end[p]))
                = IF end[p - 1] + 1 <= end[p] THEN end[p] - (end[p - 1] + 1) + 1 ELSE 0
    <3>1. end[p - 1] + 1 \in Int /\ end[p] \in Int
      BY <1>13
    <3> QED BY <2>3, <3>1, SubSeqProperties
  <2>5. end[p - 1] \in Nat /\ end[p] \in Nat /\ n \in Nat
    BY <1>13
  <2>6. pages[p] = SubSeq(items, end[p - 1] + 1, end[p])
    BY <1>13
  <2>7. end[p] - (end[p - 1] + 1) + 1 >= n /\ (end[p - 1] + 1 <= end[p] \/ n = 0)
    BY <2>1, <2>5
  <2> QED
    BY <2>4, <2>5, <2>6, <2>7
<1>18. DOMAIN pages = 1..count /\ Len(pages) = count
  BY <1>8, <1>10 DEF Slices
<1>19. Seqs!FlattenSeq(pages) = InOrder(S, RowOrder(S))
  BY <1>12 DEF items
<1>20. ASSUME NEW p \in 1..count, NEW q \in 1..count, p # q
       PROVE  {k[1] : k \in Range(pages[p])} \cap {k[1] : k \in Range(pages[q])} = {}
  <2>1. CASE p < q
    BY <1>16, <2>1
  <2>2. CASE q < p
    BY <1>16, <2>2
  <2> QED
    BY <1>20, <2>1, <2>2
<1> QED
  BY <1>17, <1>18, <1>19, <1>20 DEF ListedWhole, pages

\* Whatever a request filters, and whatever page size it asks for, the pages are
\* the list and no group is torn.
THEOREM AnyListWhole ==
    ASSUME IsFiniteSet(Groups)
    PROVE  Spec => [](\A S \in SUBSET DOMAIN legs, n \in Nat \ {0} : ListedWhole(S, n))
<1>1. BookInv => \A S \in SUBSET DOMAIN legs, n \in Nat \ {0} : ListedWhole(S, n)
  BY WholeList DEF BookInv
<1> QED
  BY <1>1, BooksFit, PTL

\* In particular for the filters and sizes the runs look at.
THEOREM PagesAlwaysWhole ==
    ASSUME IsFiniteSet(Groups)
    PROVE  Spec => []PagesWhole
<1>1. BookInv => PagesWhole
  <2> SUFFICES ASSUME BookInv, NEW S \in ListedRows, NEW n \in 1..2 PROVE ListedWhole(S, n)
    BY DEF PagesWhole
  <2>1. S \in SUBSET DOMAIN legs /\ n \in Nat \ {0}
    BY DEF ListedRows, Confirmed, WithRole
  <2> QED
    BY <2>1, WholeList DEF BookInv
<1> QED
  BY <1>1, BooksFit, PTL
=============================================================================
