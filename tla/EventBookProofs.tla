-------------------------- MODULE EventBookProofs --------------------------
(***************************************************************************)
(* What EventBook and its views promise, for every calendar, any events    *)
(* and any platforms: no child of a split without its parent, no confirmed *)
(* event whose base is not that of the stored chain, no pending event that *)
(* blocks a day the chain has passed; from what each stored day says       *)
(* (BookInv), that an event is counted once, however it came to be         *)
(* settled, and that the profits of the views agree; and that a            *)
(* recalculation gives the same chain (RepeatInv).                         *)
(***************************************************************************)
EXTENDS EventViews, ChainProofs, Sums

-----------------------------------------------------------------------------
(* The inductive invariant                                                 *)

\* The fields of a row, but for the amounts.
Shape(r) ==
    /\ DOMAIN r = {"kind", "platform", "ent", "ex", "pay", "arrive", "qty", "base", "status"}
    /\ r = [x \in DOMAIN r |-> r[x]]
    /\ r.platform \in Platforms \cup {"all"}
    /\ r.ent \in Nat /\ r.ex \in Nat /\ r.pay \in Nat /\ r.arrive \in Nat
    /\ r.status \in {"pending", "confirmed", "cancelled"}

\* Whatever it is settled as, a row is settled after its entitlement date; only
\* an announcement may stay open on the day itself.
Dated(r) ==
    /\ r.ent <= r.ex
    /\ r.ent = r.ex => r.arrive # NoDate \/ r.kind \in {"cash_dividend", "dividend_pending"}
    /\ ValidArrive(r) /\ ValidPay(r)

\* A row is not due on the days up to n, but for those that had counted it before
\* the day it is entitled on was deleted.
Ahead(r, chain, n) ==
    \A d \in DOMAIN chain : d # 0 /\ d < n =>
        NotDue(r, d) \/ (r.ent \in Missing(DOMAIN chain) /\ chain[d].stale)

\* A row that was confirmed from a chain, or is ahead of it.
RowOK(r, chain, n) ==
    /\ Shape(r) /\ Dated(r)
    /\ r.status = "confirmed" =>
          /\ r.ent \in DOMAIN chain
          /\ r.platform # "all" => r.base = StoredBase(chain, r.platform, r.ent)
    /\ r.status = "pending" => Ahead(r, chain, n)

\* A child and its parent.
ParentOK(rows, k) ==
    LET parent == <<k[1], "self">>
    IN  Child(k) =>
          /\ parent \in DOMAIN rows
          /\ rows[k].status = "confirmed" /\ rows[parent].status = "confirmed"
          /\ rows[k].ent = rows[parent].ent /\ rows[k].ex = rows[parent].ex

ChainShape(chain) ==
    /\ 0 \in DOMAIN chain /\ DOMAIN chain \subseteq TradingDays \cup {0}
    /\ \A d \in DOMAIN chain : {"shares", "stale"} \subseteq DOMAIN chain[d]

RowKeys == Events \X (Platforms \cup {"self"})

\* A table of events and the chain they were computed from, built up to day n.
BookOK(rows, chain, n) ==
    /\ rows = [k \in DOMAIN rows |-> rows[k]]
    /\ DOMAIN rows \subseteq RowKeys
    /\ ChainShape(chain)
    /\ \A k \in DOMAIN rows : RowOK(rows[k], chain, n) /\ ParentOK(rows, k)

\* How far the chain is known to be passable: all of it, or during a
\* recalculation what lies behind it.
Passed == IF Idle THEN LastDay + 1 ELSE tx.day

IInv ==
    /\ BookOK(events, snap, Passed)
    /\ today \in 0..LastDay /\ TxTyped
    /\ ~Idle => /\ \A d \in SnapDays : d <= tx.end
                /\ BookOK(saved.events, saved.snap, LastDay + 1)
                /\ DOMAIN saved = {"events", "snap"}

-----------------------------------------------------------------------------
(* Rows                                                                    *)

LEMMA Keys ==
    /\ \A e, r : <<e, r>>[1] = e /\ <<e, r>>[2] = r
    /\ \A k \in RowKeys :
          /\ k = <<k[1], k[2]>> /\ k[1] \in Events
          /\ Child(k) <=> k # <<k[1], "self">>
          /\ Child(k) => k[2] \in Platforms
    /\ \A e : ~Child(<<e, "self">>)
    /\ \A e \in Events, p \in Platforms : Child(<<e, p>>) /\ <<e, p>> \in RowKeys
    /\ \A e \in Events : <<e, "self">> \in RowKeys
BY NameAssumption DEF Child, RowKeys

LEMMA Numbers ==
    /\ NoDate = 0 /\ LastDay \in Nat
    /\ TradingDays \subseteq Nat \ {0} /\ Days \subseteq Nat \ {0} /\ TradingDays \subseteq Days
    /\ \A d \in Days : d < LastDay + 1
BY CalendarAssumption DEF Days, NoDate

\* What an event is entitled to is settled later, so a row that falls back to
\* pending is not due up to its entitlement date.
LEMMA SettledLater ==
    ASSUME NEW r, Shape(r), Dated(r), NEW d \in Nat, d <= r.ent
    PROVE  NotDue(r, d)
BY Numbers DEF Shape, Dated, NotDue, ValidArrive, ValidPay, CashDay, ShareDay, SameDayPending

\* Only the dates and the kind of a row matter to when it is due.
LEMMA SameDates ==
    ASSUME NEW r, NEW s, r.kind = s.kind, r.ent = s.ent, r.ex = s.ex, r.pay = s.pay,
           r.arrive = s.arrive
    PROVE  /\ \A d : NotDue(r, d) <=> NotDue(s, d)
           /\ Dated(r) <=> Dated(s)
BY DEF NotDue, CashDay, ShareDay, SameDayPending, Dated, ValidArrive, ValidPay

\* A row whose ex date lies ahead of the chain is not due in it.
LEMMA AheadNotDue ==
    ASSUME NEW r, Shape(r), Dated(r), NEW d \in Nat, d < r.ex
    PROVE  NotDue(r, d)
BY Numbers DEF Shape, Dated, NotDue, ValidArrive, ValidPay, CashDay, ShareDay, SameDayPending

\* The fields of a row with some of them changed.
LEMMA Reset ==
    ASSUME NEW r, Shape(r), NEW base
    PROVE  /\ Shape([r EXCEPT !.status = "pending", !.base = base])
           /\ [r EXCEPT !.status = "pending", !.base = base].status = "pending"
           /\ LET s == [r EXCEPT !.status = "pending", !.base = base]
              IN  /\ s.kind = r.kind /\ s.ent = r.ent /\ s.ex = r.ex
                  /\ s.pay = r.pay /\ s.arrive = r.arrive /\ s.platform = r.platform
BY DEF Shape

\* s is r, confirmed for platform p on a base.
SettledAs(s, r, p, base) ==
    /\ DOMAIN s = DOMAIN r /\ s = [x \in DOMAIN s |-> s[x]]
    /\ s.status = "confirmed" /\ s.platform = p /\ s.base = base
    /\ s.kind = r.kind /\ s.ent = r.ent /\ s.ex = r.ex /\ s.pay = r.pay /\ s.arrive = r.arrive
    /\ s.qty = r.qty

LEMMA SettledShape ==
    ASSUME NEW r, Shape(r), Dated(r), NEW p \in Platforms \cup {"all"}, NEW base,
           NEW s, SettledAs(s, r, p, base)
    PROVE  Shape(s) /\ Dated(s)
<1>1. Shape(s)
  BY DEF SettledAs, Shape
<1>2. Dated(s)
  BY SameDates DEF SettledAs
<1> QED
  BY <1>1, <1>2

LEMMA SettledFrom ==
    ASSUME NEW r, Shape(r), NEW p, NEW t, t = [r EXCEPT !.platform = p], NEW base,
           NEW s, s = [t EXCEPT !.status = "confirmed", !.base = base]
    PROVE  SettledAs(s, r, p, base)
<1>1. /\ DOMAIN t = DOMAIN r /\ t = [x \in DOMAIN t |-> t[x]] /\ t.platform = p
      /\ t.kind = r.kind /\ t.ent = r.ent /\ t.ex = r.ex /\ t.pay = r.pay
      /\ t.arrive = r.arrive /\ t.qty = r.qty
      /\ {"kind", "platform", "ent", "ex", "pay", "arrive", "qty", "status", "base"} \subseteq DOMAIN t
  BY DEF Shape
<1> HIDE DEF Shape
<1>2. DOMAIN s = DOMAIN t /\ s = [x \in DOMAIN s |-> s[x]]
  BY <1>1
<1>3. s.status = "confirmed" /\ s.base = base
  BY <1>1
<1>4. /\ s.platform = t.platform /\ s.kind = t.kind /\ s.ent = t.ent /\ s.ex = t.ex
      /\ s.pay = t.pay /\ s.arrive = t.arrive /\ s.qty = t.qty
  BY <1>1
<1> QED
  BY <1>1, <1>2, <1>3, <1>4 DEF SettledAs

LEMMA SamePlatform ==
    ASSUME NEW r, Shape(r)
    PROVE  r = [r EXCEPT !.platform = r.platform]
BY DEF Shape

\* A row as the confirmation of r leaves it.
SettledRow(s, r, chain) ==
    /\ Shape(s) /\ Dated(s) /\ s.status = "confirmed"
    /\ s.ent = r.ent /\ s.ex = r.ex
    /\ s.platform # "all" => s.base = StoredBase(chain, s.platform, r.ent)

\* What confirming an event writes: its own row, and rows of platforms for a split.
Settled(new, e, r, chain) ==
    /\ new = [k \in DOMAIN new |-> new[k]]
    /\ <<e, "self">> \in DOMAIN new
    /\ \A k \in DOMAIN new :
          k \in RowKeys /\ k[1] = e /\ SettledRow(new[k], r, chain)

LEMMA SettledRowHolds ==
    ASSUME NEW chain, NEW r, Shape(r), Dated(r), NEW p \in Platforms \cup {"all"}, NEW base,
           p # "all" => base = StoredBase(chain, p, r.ent),
           NEW s, SettledAs(s, r, p, base)
    PROVE  SettledRow(s, r, chain)
<1>1. Shape(s) /\ Dated(s)
  BY SettledShape
<1> QED
  BY <1>1 DEF SettledAs, SettledRow

LEMMA SettledRowOK ==
    ASSUME NEW chain, NEW n, NEW r, r.ent \in DOMAIN chain, NEW s, SettledRow(s, r, chain)
    PROVE  RowOK(s, chain, n)
BY DEF SettledRow, RowOK

LEMMA RowsOfSettles ==
    ASSUME NEW chain, NEW e \in Events, NEW r, Shape(r), Dated(r), Confirmable(chain, r)
    PROVE  Settled(RowsOf(chain, e, r), e, r, chain)
<1> DEFINE f == <<e, "self">>
           new == RowsOf(chain, e, r)
<1>1. f \in RowKeys /\ f[1] = e /\ r.platform \in Platforms \cup {"all"}
  BY Keys DEF Shape
<1>2. CASE r.platform = "all"
  <2>1. /\ DOMAIN new = {f} \cup {<<e, p>> : p \in Holders(chain, r.ent)}
        /\ new = [k \in DOMAIN new |-> new[k]]
    BY <1>2 DEF RowsOf, SplitRows
  <2>2. \A p \in Holders(chain, r.ent) : p \in Platforms /\ <<e, p>>[1] = e /\ <<e, p>> \in RowKeys
    BY Keys DEF Holders
  <2>3. SettledRow(new[f], r, chain)
    <3>1. PICK sum : new[f] = [r EXCEPT !.status = "confirmed", !.base = sum]
      BY <1>2, Keys DEF RowsOf, SplitRows
    <3> HIDE DEF new
    <3>2. SettledAs(new[f], r, "all", sum)
      BY <1>2, <3>1, SamePlatform, SettledFrom
    <3> QED
      BY <3>2, SettledRowHolds
  <2>4. ASSUME NEW p \in Holders(chain, r.ent)
        PROVE  SettledRow(new[<<e, p>>], r, chain)
    <3>1. new[<<e, p>>] = ConfirmedRow(chain, [r EXCEPT !.platform = p])
      BY <1>2, <2>2, Keys DEF RowsOf, SplitRows
    <3> HIDE DEF new
    <3>2. [r EXCEPT !.platform = p].platform = p /\ [r EXCEPT !.platform = p].ent = r.ent
      BY DEF Shape
    <3>3. new[<<e, p>>] = [[r EXCEPT !.platform = p]
                             EXCEPT !.status = "confirmed", !.base = StoredBase(chain, p, r.ent)]
      BY <3>1, <3>2 DEF ConfirmedRow
    <3>4. SettledAs(new[<<e, p>>], r, p, StoredBase(chain, p, r.ent))
      BY <3>3, SettledFrom
    <3> QED
      BY <3>4, <2>2, SettledRowHolds
  <2> HIDE DEF new
  <2>5. ASSUME NEW k \in DOMAIN new
        PROVE  k \in RowKeys /\ k[1] = e /\ SettledRow(new[k], r, chain)
    <3>1. CASE k = f
      BY <3>1, <1>1, <2>3
    <3>2. CASE k # f
      <4>1. PICK p \in Holders(chain, r.ent) : k = <<e, p>>
        BY <3>2, <2>1
      <4> QED
        BY <4>1, <2>2, <2>4
    <3> QED
      BY <3>1, <3>2
  <2> QED
    BY <2>1, <2>5 DEF Settled, new
<1>3. CASE r.platform # "all"
  <2>1. /\ DOMAIN new = {f} /\ new = [k \in DOMAIN new |-> new[k]]
        /\ new[f] = ConfirmedRow(chain, r)
    BY <1>3 DEF RowsOf
  <2>2. SettledAs(ConfirmedRow(chain, r), r, r.platform, StoredBase(chain, r.platform, r.ent))
    BY DEF ConfirmedRow, Shape, SettledAs
  <2>3. SettledRow(ConfirmedRow(chain, r), r, chain)
    BY <1>1, <1>3, <2>2, SettledRowHolds
  <2> HIDE DEF new
  <2> QED
    BY <1>1, <2>1, <2>3 DEF Settled, new
<1> QED
  BY <1>2, <1>3

\* Confirming pending events keeps a table what it was: new joins the rows
\* Settled gives for each of them.
LEMMA ConfirmedKeeps ==
    ASSUME NEW rows, NEW chain, NEW n, BookOK(rows, chain, n), NEW new,
           new = [k \in DOMAIN new |-> new[k]],
           \A k \in DOMAIN new :
              /\ k \in RowKeys /\ RowOK(new[k], chain, n) /\ new[k].status = "confirmed"
              /\ LET parent == <<k[1], "self">>
                 IN  /\ parent \in DOMAIN new /\ parent \in DOMAIN rows
                     /\ rows[parent].status = "pending"
                     /\ new[k].ent = new[parent].ent /\ new[k].ex = new[parent].ex
    PROVE  BookOK(PutAll(rows, new), chain, n)
<1> DEFINE joined == PutAll(rows, new)
<1>1. /\ DOMAIN joined = DOMAIN new \cup DOMAIN rows
      /\ joined = [k \in DOMAIN joined |-> joined[k]]
      /\ \A k \in DOMAIN new : joined[k] = new[k]
      /\ \A k \in DOMAIN rows \ DOMAIN new : joined[k] = rows[k]
  BY DEF PutAll
<1> HIDE DEF joined
<1>2. DOMAIN joined \subseteq RowKeys /\ ChainShape(chain)
  BY <1>1 DEF BookOK
<1>3. ASSUME NEW k \in DOMAIN new
      PROVE  RowOK(joined[k], chain, n) /\ ParentOK(joined, k)
  <2>1. /\ joined[k] = new[k] /\ <<k[1], "self">> \in DOMAIN new
        /\ joined[<<k[1], "self">>] = new[<<k[1], "self">>]
    BY <1>1, <1>3
  <2> QED
    BY <1>1, <1>3, <2>1 DEF ParentOK
<1>4. ASSUME NEW k \in DOMAIN rows \ DOMAIN new
      PROVE  RowOK(joined[k], chain, n) /\ ParentOK(joined, k)
  <2>1. joined[k] = rows[k] /\ RowOK(rows[k], chain, n) /\ ParentOK(rows, k)
    BY <1>1, <1>4 DEF BookOK
  <2>2. CASE Child(k)
    <3>1. /\ <<k[1], "self">> \in DOMAIN rows /\ rows[k].status = "confirmed"
          /\ rows[<<k[1], "self">>].status = "confirmed"
          /\ rows[k].ent = rows[<<k[1], "self">>].ent
          /\ rows[k].ex = rows[<<k[1], "self">>].ex
      BY <2>1, <2>2 DEF ParentOK
    <3>2. \A j \in DOMAIN new : <<j[1], "self">> \in DOMAIN rows /\ rows[<<j[1], "self">>].status = "pending"
      OBVIOUS
    <3>3. <<<<k[1], "self">>[1], "self">> = <<k[1], "self">>
      BY Keys
    <3>4. <<k[1], "self">> \notin DOMAIN new
      BY <3>1, <3>2, <3>3
    <3>5. joined[<<k[1], "self">>] = rows[<<k[1], "self">>] /\ <<k[1], "self">> \in DOMAIN joined
      BY <1>1, <3>1, <3>4
    <3> QED
      BY <2>1, <3>1, <3>5 DEF ParentOK
  <2>3. CASE ~Child(k)
    BY <2>1, <2>3 DEF ParentOK
  <2> QED
    BY <2>2, <2>3
<1>5. \A k \in DOMAIN joined : RowOK(joined[k], chain, n) /\ ParentOK(joined, k)
  BY <1>1, <1>3, <1>4
<1> QED
  BY <1>1, <1>2, <1>5 DEF BookOK, joined

\* Taking events back: what is left stands as before, or fits the new chain.
LEMMA WithdrawnKeeps ==
    ASSUME NEW n, BookOK(events, snap, n), NEW es \in SUBSET Events,
           NEW chain, ChainShape(chain), NEW m,
           \A k \in DOMAIN events : k[1] \notin es => RowOK(events[k], chain, m),
           \A e \in es : <<e, "self">> \in DOMAIN events =>
              RowOK([events[<<e, "self">>] EXCEPT !.status = "pending", !.base = 0], chain, m)
    PROVE  BookOK(Withdrawn(es), chain, m)
<1> DEFINE w == Withdrawn(es)
<1>1. /\ DOMAIN w = {j \in DOMAIN events : ~Child(j) \/ j[1] \notin es}
      /\ w = [k \in DOMAIN w |-> w[k]]
      /\ \A k \in DOMAIN w : k[1] \notin es => w[k] = events[k]
      /\ \A k \in DOMAIN w : k[1] \in es => 
            w[k] = [events[k] EXCEPT !.status = "pending", !.base = 0]
  BY DEF Withdrawn
<1> HIDE DEF w
<1>2. DOMAIN events \subseteq RowKeys
  BY DEF BookOK
<1>3. ASSUME NEW k \in DOMAIN w
      PROVE  RowOK(w[k], chain, m)
  <2>1. k \in RowKeys /\ k \in DOMAIN events
    BY <1>1, <1>2, <1>3
  <2>2. CASE k[1] \in es
    <3>1. k = <<k[1], "self">>
      BY <1>1, <2>1, <2>2, Keys
    <3>2. w[k] = [events[<<k[1], "self">>] EXCEPT !.status = "pending", !.base = 0]
      BY <1>1, <1>3, <2>2, <3>1
    <3> QED
      BY <2>1, <2>2, <3>1, <3>2
  <2>3. CASE k[1] \notin es
    BY <1>1, <1>3, <2>1, <2>3
  <2> QED
    BY <2>2, <2>3
<1>4. ASSUME NEW k \in DOMAIN w, Child(k)
      PROVE  ParentOK(w, k)
  <2>1. k[1] \notin es /\ w[k] = events[k] /\ ParentOK(events, k)
    BY <1>1, <1>4 DEF BookOK
  <2>2. <<k[1], "self">>[1] = k[1] /\ ~Child(<<k[1], "self">>)
    BY Keys
  <2>3. <<k[1], "self">> \in DOMAIN events
    BY <2>1, <1>4 DEF ParentOK
  <2>4. <<k[1], "self">> \in DOMAIN w /\ w[<<k[1], "self">>] = events[<<k[1], "self">>]
    BY <1>1, <2>1, <2>2, <2>3
  <2> QED
    BY <2>1, <2>4 DEF ParentOK
<1>5. \A k \in DOMAIN w : ParentOK(w, k)
  BY <1>4 DEF ParentOK
<1>6. DOMAIN w \subseteq RowKeys
  BY <1>1, <1>2
<1> QED
  BY <1>1, <1>3, <1>5, <1>6 DEF BookOK, w

LEMMA ChainNumbers ==
    ASSUME NEW chain, ChainShape(chain)
    PROVE  \A x \in DOMAIN chain : x \in Nat
<1>1. DOMAIN chain \subseteq TradingDays \cup {0}
  BY DEF ChainShape
<1>2. TradingDays \subseteq Nat
  BY Numbers
<1>3. ASSUME NEW x \in DOMAIN chain
      PROVE  x \in Nat
  <2>1. CASE x \in TradingDays
    BY <1>2, <2>1
  <2>2. CASE x = 0
    BY <2>2
  <2> QED
    BY <1>1, <2>1, <2>2
<1> QED
  BY <1>3

\* A row that falls back to pending, by what it has to be ahead of.
LEMMA ResetOK ==
    ASSUME NEW r, Shape(r), Dated(r), NEW chain, ChainShape(chain), NEW m,
           \A x \in DOMAIN chain : x # 0 /\ x < m =>
              \/ x <= r.ent \/ x < r.ex
              \/ r.ent \in Missing(DOMAIN chain) /\ chain[x].stale
    PROVE  RowOK([r EXCEPT !.status = "pending", !.base = 0], chain, m)
<1> DEFINE s == [r EXCEPT !.status = "pending", !.base = 0]
<1>1. /\ Shape(s) /\ s.status = "pending"
      /\ s.kind = r.kind /\ s.ent = r.ent /\ s.ex = r.ex /\ s.pay = r.pay /\ s.arrive = r.arrive
  BY Reset
<1> HIDE DEF s
<1>2. Dated(s)
  BY <1>1, SameDates
<1>3. ASSUME NEW x \in DOMAIN chain, x # 0, x < m
      PROVE  NotDue(s, x) \/ (s.ent \in Missing(DOMAIN chain) /\ chain[x].stale)
  <2>1. x \in Nat
    BY <1>3, ChainNumbers
  <2>2. x <= s.ent \/ x < s.ex \/ (s.ent \in Missing(DOMAIN chain) /\ chain[x].stale)
    BY <1>1, <1>3
  <2> QED
    BY <1>1, <1>2, <2>1, <2>2, SettledLater, AheadNotDue
<1>4. Ahead(s, chain, m)
  BY <1>3 DEF Ahead
<1> QED
  BY <1>1, <1>2, <1>4 DEF RowOK, s

\* The events a rebuilt day does not concern.
LEMMA NotEntitled ==
    ASSUME NEW n, BookOK(events, snap, n), NEW d,
           NEW k \in DOMAIN events, k[1] \notin EntitledOn(d), events[k].status = "confirmed"
    PROVE  events[k].ent # d
<1>1. k \in RowKeys /\ ParentOK(events, k)
  BY DEF BookOK
<1>2. k[1] \in Events /\ (Child(k) <=> k # <<k[1], "self">>)
  BY <1>1, Keys
<1>3. <<k[1], "self">> \in DOMAIN events /\ events[<<k[1], "self">>].status = "confirmed"
      /\ events[<<k[1], "self">>].ent = events[k].ent
  BY <1>1, <1>2 DEF ParentOK
<1> QED
  BY <1>2, <1>3 DEF EntitledOn, Confirmed

\* A day is built in front of everything pending, and takes back what is
\* entitled on it: n is how far the chain was built, m how far it is then.
LEMMA BuildWithdraws ==
    ASSUME NEW n \in Nat, BookOK(events, snap, n), NEW d \in TradingDays, NoEventDue(d),
           NEW row, {"shares", "stale"} \subseteq DOMAIN row, NEW m \in Nat,
           \A x \in SnapDays : x < m => x <= d /\ (x = d \/ x < n)
    PROVE  BookOK(Withdrawn(EntitledOn(d)), Put(snap, d, row), m)
<1> DEFINE chain == Put(snap, d, row)
<1>1. /\ DOMAIN chain = SnapDays \cup {d} /\ chain[d] = row
      /\ \A x \in SnapDays : x # d => chain[x] = snap[x]
  BY DEF Put, SnapDays
<1> HIDE DEF chain
<1>2. ChainShape(chain)
  BY <1>1 DEF BookOK, ChainShape, SnapDays
<1>3. \A x \in SnapDays \cup {d} : x \in Nat
  BY Numbers DEF BookOK, ChainShape, SnapDays
<1>4. ASSUME NEW k \in DOMAIN events, k[1] \notin EntitledOn(d)
      PROVE  RowOK(events[k], chain, m)
  <2>1. RowOK(events[k], snap, n)
    BY DEF BookOK
  <2>2. ASSUME events[k].status = "confirmed"
        PROVE  /\ events[k].ent \in DOMAIN chain
               /\ events[k].platform # "all" =>
                    events[k].base = StoredBase(chain, events[k].platform, events[k].ent)
    <3>1. events[k].ent # d
      BY <1>4, <2>2, NotEntitled
    <3>2. events[k].ent \in SnapDays
      BY <2>1, <2>2 DEF RowOK, SnapDays
    <3>3. \A p : StoredBase(chain, p, events[k].ent) = StoredBase(snap, p, events[k].ent)
      BY <1>1, <3>1, <3>2 DEF StoredBase, SnapDays
    <3> QED
      BY <1>1, <2>1, <2>2, <3>2, <3>3 DEF RowOK
  <2>4. Shape(events[k]) /\ Dated(events[k])
    BY <2>1 DEF RowOK
  <2>3. ASSUME events[k].status = "pending", NEW x \in DOMAIN chain, x # 0, x < m
        PROVE  \/ NotDue(events[k], x)
               \/ events[k].ent \in Missing(DOMAIN chain) /\ chain[x].stale
    <3>1. CASE x = d
      BY <1>4, <2>3, <3>1 DEF NoEventDue, Pending
    <3>2. CASE x # d
      <4>1. x \in SnapDays /\ x < n /\ x <= d /\ x \in Nat
        BY <1>1, <1>3, <2>3, <3>2
      <4>2. NotDue(events[k], x) \/ (events[k].ent \in Missing(SnapDays) /\ chain[x].stale)
        BY <1>1, <2>1, <2>3, <3>2, <4>1 DEF RowOK, Ahead, SnapDays
      <4>3. events[k].ent = d => NotDue(events[k], x)
        BY <2>4, <4>1, SettledLater
      <4>4. Missing(SnapDays) \ {d} \subseteq Missing(DOMAIN chain)
        <5>1. SnapDays \in SUBSET Nat
          BY <1>3
        <5> QED
          BY <1>1, <5>1, MissingChanges
      <4> QED
        BY <4>2, <4>3, <4>4
    <3> QED
      BY <3>1, <3>2
  <2> QED
    BY <2>2, <2>3, <2>4 DEF RowOK, Ahead
<1>5. ASSUME NEW e \in EntitledOn(d)
      PROVE  RowOK([events[<<e, "self">>] EXCEPT !.status = "pending", !.base = 0], chain, m)
  <2>1. <<e, "self">> \in DOMAIN events /\ events[<<e, "self">>].ent = d
    BY DEF EntitledOn, Confirmed
  <2>2. Shape(events[<<e, "self">>]) /\ Dated(events[<<e, "self">>])
    BY <2>1 DEF BookOK, RowOK
  <2>3. \A x \in DOMAIN chain : x # 0 /\ x < m => x <= d
    BY <1>1, <1>3
  <2> QED
    BY <1>2, <2>1, <2>2, <2>3, ResetOK
<1>6. EntitledOn(d) \in SUBSET Events
  BY DEF EntitledOn
<1> QED
  BY <1>2, <1>4, <1>5, <1>6, WithdrawnKeeps DEF chain

\* A day that goes leaves due what was entitled on it, on the days that had counted
\* it and are out of step now.
LEMMA DeleteWithdraws ==
    ASSUME NEW n \in Nat, BookOK(events, snap, n), NEW d \in SnapDays, d # NoDate,
           NEW chain, DOMAIN chain = SnapDays \ {d},
           \A x \in DOMAIN chain :
              /\ {"shares", "stale"} \subseteq DOMAIN chain[x] /\ chain[x].shares = snap[x].shares
              /\ snap[x].stale \/ CountsOn(d, x) => chain[x].stale
    PROVE  BookOK(Withdrawn(EntitledOn(d)), chain, n)
<1>1. /\ DOMAIN chain = SnapDays \ {d}
      /\ \A x \in DOMAIN chain : /\ chain[x].shares = snap[x].shares
                                 /\ snap[x].stale \/ CountsOn(d, x) => chain[x].stale
  OBVIOUS
<1>2. ChainShape(chain)
  BY <1>1, Numbers DEF BookOK, ChainShape, SnapDays
<1>6. \A x \in SnapDays : x \in Nat
  BY ChainNumbers DEF BookOK, SnapDays
\* a day that is not missing any more, or never was, lies after the chain
<1>7. ASSUME NEW e \in TradingDays \ DOMAIN chain, e \notin Missing(DOMAIN chain),
             NEW x \in DOMAIN chain
      PROVE  x <= e
  <2>1. x \in Nat /\ e \in Nat
    BY <1>1, <1>6, Numbers
  <2>2. ~(e < x)
    BY <1>7 DEF Missing
  <2> QED
    BY <2>1, <2>2
<1>3. ASSUME NEW k \in DOMAIN events, k[1] \notin EntitledOn(d)
      PROVE  RowOK(events[k], chain, n)
  <2>1. RowOK(events[k], snap, n)
    BY DEF BookOK
  <2>2. ASSUME events[k].status = "confirmed"
        PROVE  /\ events[k].ent \in DOMAIN chain
               /\ events[k].platform # "all" =>
                    events[k].base = StoredBase(chain, events[k].platform, events[k].ent)
    <3>1. events[k].ent # d
      BY <1>3, <2>2, NotEntitled
    <3>2. events[k].ent \in SnapDays
      BY <2>1, <2>2 DEF RowOK, SnapDays
    <3>3. \A p : StoredBase(chain, p, events[k].ent) = StoredBase(snap, p, events[k].ent)
      BY <1>1, <3>1, <3>2 DEF StoredBase, SnapDays
    <3> QED
      BY <1>1, <2>1, <2>2, <3>1, <3>2, <3>3 DEF RowOK
  <2>4. Shape(events[k]) /\ Dated(events[k])
    BY <2>1 DEF RowOK
  <2>3. ASSUME events[k].status = "pending", NEW x \in DOMAIN chain, x # 0, x < n
        PROVE  \/ NotDue(events[k], x)
               \/ events[k].ent \in Missing(DOMAIN chain) /\ chain[x].stale
    <3>1. x \in SnapDays /\ x \in Nat
      BY <1>1, <1>6
    <3>2. NotDue(events[k], x) \/ (events[k].ent \in Missing(SnapDays) /\ chain[x].stale)
      BY <1>1, <2>1, <2>3, <3>1 DEF RowOK, Ahead, SnapDays
    <3>3. ASSUME events[k].ent \in Missing(SnapDays), events[k].ent \notin Missing(DOMAIN chain)
          PROVE  NotDue(events[k], x)
      <4>1. events[k].ent \in TradingDays \ DOMAIN chain
        BY <1>1, <3>3 DEF Missing
      <4>2. x <= events[k].ent
        BY <1>7, <3>3, <4>1
      <4> QED
        BY <2>4, <3>1, <4>2, SettledLater
    <3> QED
      BY <3>2, <3>3
  <2> QED
    BY <2>2, <2>3, <2>4 DEF RowOK, Ahead
<1>4. ASSUME NEW e \in EntitledOn(d)
      PROVE  RowOK([events[<<e, "self">>] EXCEPT !.status = "pending", !.base = 0], chain, n)
  <2>1. <<e, "self">> \in DOMAIN events /\ events[<<e, "self">>].ent = d
    BY DEF EntitledOn, Confirmed
  <2>2. Shape(events[<<e, "self">>]) /\ Dated(events[<<e, "self">>])
    BY <2>1 DEF BookOK, RowOK
  <2>3. d \in TradingDays \ DOMAIN chain
    BY <1>1 DEF BookOK, ChainShape, SnapDays, NoDate
  <2>4. ASSUME NEW x \in DOMAIN chain
        PROVE  \/ x <= d \/ x < events[<<e, "self">>].ex
               \/ d \in Missing(DOMAIN chain) /\ chain[x].stale
    <3>1. x \in Nat /\ d \in Nat /\ events[<<e, "self">>].ex \in Nat
      BY <1>1, <1>6, <2>2 DEF Shape
    <3>2. d \in Missing(DOMAIN chain) \/ x <= d
      BY <1>7, <2>3
    <3>3. d < x /\ events[<<e, "self">>].ex <= x => CountsOn(d, x)
      BY <2>1 DEF CountsOn, EntitledOn, Confirmed
    <3> QED
      BY <1>1, <3>1, <3>2, <3>3
  <2> QED
    BY <1>2, <2>1, <2>2, <2>4, ResetOK
<1>5. EntitledOn(d) \in SUBSET Events
  BY DEF EntitledOn
<1> QED
  BY <1>2, <1>3, <1>4, <1>5, WithdrawnKeeps

\* Building further than is known: fewer days to look at.
LEMMA Narrowed ==
    ASSUME NEW rows, NEW chain, NEW n, BookOK(rows, chain, n), NEW m,
           \A d \in DOMAIN chain : d # 0 /\ d < m => d < n
    PROVE  BookOK(rows, chain, m)
<1>1. ASSUME NEW k \in DOMAIN rows
      PROVE  RowOK(rows[k], chain, m) /\ ParentOK(rows, k)
  <2>1. RowOK(rows[k], chain, n) /\ ParentOK(rows, k)
    BY DEF BookOK
  <2> QED
    BY <2>1 DEF RowOK, Ahead
<1> QED
  BY <1>1 DEF BookOK

\* The automatic confirmation only confirms.
LEMMA AutoConfirmedKeeps ==
    ASSUME NEW rows, NEW chain, NEW n, BookOK(rows, chain, n), NEW l
    PROVE  BookOK(AutoConfirmed(rows, chain, l), chain, n)
<1> DEFINE next == {c \in TradingDays : IsTradingDaysAfter(l, 1, c) /\ c <= today}
           self(e) == rows[<<e, "self">>]
           done == {e \in UNION {Due(rows, l, c) : c \in next} : Confirmable(chain, self(e))}
           new == [k \in UNION {DOMAIN RowsOf(chain, e, self(e)) : e \in done} |->
                     RowsOf(chain, k[1], self(k[1]))[k]]
<1>1. AutoConfirmed(rows, chain, l) = PutAll(rows, new)
  BY DEF AutoConfirmed
<1>2. \A e \in done : /\ e \in Events /\ <<e, "self">> \in DOMAIN rows
                      /\ self(e).status = "pending" /\ Confirmable(chain, self(e))
  BY DEF Due
<1>3. /\ DOMAIN new = UNION {DOMAIN RowsOf(chain, e, self(e)) : e \in done}
      /\ new = [k \in DOMAIN new |-> new[k]]
      /\ \A k \in DOMAIN new : new[k] = RowsOf(chain, k[1], self(k[1]))[k]
  OBVIOUS
<1> HIDE DEF done, new
<1>4. ASSUME NEW e \in done
      PROVE  /\ Settled(RowsOf(chain, e, self(e)), e, self(e), chain)
             /\ self(e).ent \in DOMAIN chain
  <2>1. Shape(self(e)) /\ Dated(self(e))
    BY <1>2 DEF BookOK, RowOK
  <2>2. Settled(RowsOf(chain, e, self(e)), e, self(e), chain)
    BY <1>2, <2>1, RowsOfSettles
  <2> QED
    BY <1>2, <2>2 DEF Confirmable
<1>5. ASSUME NEW k \in DOMAIN new
      PROVE  /\ k \in RowKeys /\ k[1] \in done /\ SettledRow(new[k], self(k[1]), chain)
             /\ <<k[1], "self">> \in DOMAIN new
  <2>1. PICK e \in done : k \in DOMAIN RowsOf(chain, e, self(e))
    BY <1>3
  <2>2. k \in RowKeys /\ k[1] = e /\ SettledRow(RowsOf(chain, e, self(e))[k], self(e), chain)
    BY <1>4, <2>1 DEF Settled
  <2>3. new[k] = RowsOf(chain, e, self(e))[k]
    BY <1>3, <2>2
  <2>4. <<e, "self">> \in DOMAIN RowsOf(chain, e, self(e))
    BY <1>4 DEF Settled
  <2>5. <<e, "self">> \in DOMAIN new
    BY <1>3, <2>4
  <2> QED
    BY <2>2, <2>3, <2>5
<1>6. ASSUME NEW k \in DOMAIN new
      PROVE  /\ RowOK(new[k], chain, n) /\ new[k].status = "confirmed"
             /\ new[k].ent = new[<<k[1], "self">>].ent /\ new[k].ex = new[<<k[1], "self">>].ex
             /\ <<k[1], "self">> \in DOMAIN rows /\ rows[<<k[1], "self">>].status = "pending"
  <2>1. RowOK(new[k], chain, n)
    BY <1>4, <1>5, SettledRowOK
  <2>2. <<k[1], "self">>[1] = k[1]
    BY Keys
  <2>3. SettledRow(new[<<k[1], "self">>], self(k[1]), chain)
    BY <1>5, <2>2
  <2>4. SettledRow(new[k], self(k[1]), chain) /\ k[1] \in done
    BY <1>5
  <2> QED
    BY <1>2, <2>1, <2>3, <2>4 DEF SettledRow
<1>7. \A k \in DOMAIN new :
          /\ k \in RowKeys /\ RowOK(new[k], chain, n) /\ new[k].status = "confirmed"
          /\ LET parent == <<k[1], "self">>
             IN  /\ parent \in DOMAIN new /\ parent \in DOMAIN rows
                 /\ rows[parent].status = "pending"
                 /\ new[k].ent = new[parent].ent /\ new[k].ex = new[parent].ex
  BY <1>5, <1>6
<1>8. BookOK(PutAll(rows, new), chain, n)
  BY <1>3, <1>7, ConfirmedKeeps
<1> QED
  BY <1>1, <1>8

\* Confirming one event, as it is or as it was chosen to be.
LEMMA ConfirmKeeps ==
    ASSUME NEW n, BookOK(events, snap, n), NEW e \in Events, <<e, "self">> \in Pending,
           NEW r, Shape(r), Dated(r), Confirmable(snap, r)
    PROVE  BookOK(PutAll(events, RowsOf(snap, e, r)), snap, n)
<1> DEFINE new == RowsOf(snap, e, r)
           f == <<e, "self">>
<1>1. Settled(new, e, r, snap)
  BY RowsOfSettles
<1>2. r.ent \in DOMAIN snap
  BY DEF Confirmable
<1>3. f \in DOMAIN events /\ events[f].status = "pending"
  BY DEF Pending
<1> HIDE DEF new
<1>4. ASSUME NEW k \in DOMAIN new
      PROVE  /\ k \in RowKeys /\ RowOK(new[k], snap, n) /\ new[k].status = "confirmed"
             /\ <<k[1], "self">> = f /\ f \in DOMAIN new
             /\ new[k].ent = new[f].ent /\ new[k].ex = new[f].ex
  <2>1. k \in RowKeys /\ k[1] = e /\ SettledRow(new[k], r, snap)
        /\ f \in DOMAIN new /\ SettledRow(new[f], r, snap)
    BY <1>1 DEF Settled
  <2>2. RowOK(new[k], snap, n)
    BY <1>2, <2>1, SettledRowOK
  <2> QED
    BY <2>1, <2>2 DEF SettledRow
<1>5. new = [k \in DOMAIN new |-> new[k]]
  BY <1>1 DEF Settled
<1>6. \A k \in DOMAIN new :
          /\ k \in RowKeys /\ RowOK(new[k], snap, n) /\ new[k].status = "confirmed"
          /\ LET parent == <<k[1], "self">>
             IN  /\ parent \in DOMAIN new /\ parent \in DOMAIN events
                 /\ events[parent].status = "pending"
                 /\ new[k].ent = new[parent].ent /\ new[k].ex = new[parent].ex
  BY <1>3, <1>4
<1>7. BookOK(PutAll(events, new), snap, n)
  BY <1>5, <1>6, ConfirmedKeeps
<1> QED
  BY <1>7 DEF new

-----------------------------------------------------------------------------
(* Requests on events                                                      *)

\* A row of its own written over one that has no children.
LEMMA PutKeeps ==
    ASSUME NEW n, BookOK(events, snap, n), NEW e \in Events,
           <<e, "self">> \in DOMAIN events => events[<<e, "self">>].status # "confirmed",
           NEW r, RowOK(r, snap, n), NEW new,
           new = [k \in DOMAIN new |-> new[k]],
           DOMAIN new = DOMAIN events \cup {<<e, "self">>},
           new[<<e, "self">>] = r,
           \A k \in DOMAIN events : k # <<e, "self">> => new[k] = events[k]
    PROVE  BookOK(new, snap, n)
<1> DEFINE f == <<e, "self">>
<1>1. f \in RowKeys /\ ~Child(f)
  BY Keys
<1>2. DOMAIN new \subseteq RowKeys
  BY <1>1 DEF BookOK
<1>3. ASSUME NEW k \in DOMAIN new
      PROVE  RowOK(new[k], snap, n) /\ ParentOK(new, k)
  <2>1. CASE k = f
    BY <1>1, <2>1 DEF ParentOK
  <2>2. CASE k # f
    <3>1. new[k] = events[k] /\ k \in DOMAIN events /\ RowOK(events[k], snap, n) /\ ParentOK(events, k)
      BY <2>2 DEF BookOK
    <3>2. CASE Child(k)
      <4>1. <<k[1], "self">> \in DOMAIN events /\ events[<<k[1], "self">>].status = "confirmed"
        BY <3>1, <3>2 DEF ParentOK
      <4>2. <<k[1], "self">> \in DOMAIN new /\ new[<<k[1], "self">>] = events[<<k[1], "self">>]
        BY <4>1
      <4> QED
        BY <3>1, <3>2, <4>1, <4>2 DEF ParentOK
    <3>3. CASE ~Child(k)
      BY <3>1, <3>3 DEF ParentOK
    <3> QED
      BY <3>2, <3>3
  <2> QED
    BY <2>1, <2>2
<1>4. ChainShape(snap)
  BY DEF BookOK
<1> QED
  BY <1>2, <1>3, <1>4 DEF BookOK

\* A pending row whose ex date lies ahead.
LEMMA AheadOK ==
    ASSUME NEW r, Shape(r), Dated(r), r.status = "pending", ChainShape(snap), AfterLatest(r.ex),
           NEW n
    PROVE  RowOK(r, snap, n)
<1>1. ASSUME NEW d \in DOMAIN snap
      PROVE  NotDue(r, d)
  <2>1. d \in Nat /\ d < r.ex
    BY ChainNumbers DEF AfterLatest, SnapDays
  <2> QED
    BY <2>1, AheadNotDue
<1> QED
  BY <1>1 DEF RowOK, Ahead

LEMMA NewShape ==
    ASSUME NEW kind, NEW p \in Platforms \cup {"all"}, NEW ent \in Nat, NEW ex \in Nat,
           NEW pay \in Nat, NEW arrive \in Nat, NEW qty
    PROVE  LET r == New(kind, p, ent, ex, pay, arrive, qty)
           IN  /\ Shape(r) /\ r.status = "pending" /\ r.kind = kind /\ r.ent = ent /\ r.ex = ex
               /\ r.pay = pay /\ r.arrive = arrive
BY DEF New, Shape

LEMMA PutOwn ==
    ASSUME NEW n, BookOK(events, snap, n), NEW e \in Events, Unused(e), NEW r, RowOK(r, snap, n)
    PROVE  BookOK(Put(events, <<e, "self">>, r), snap, n)
<1> DEFINE new == Put(events, <<e, "self">>, r)
<1>1. /\ DOMAIN new = DOMAIN events \cup {<<e, "self">>}
      /\ new = [k \in DOMAIN new |-> new[k]] /\ new[<<e, "self">>] = r
      /\ \A k \in DOMAIN events : k # <<e, "self">> => new[k] = events[k]
  BY DEF Put
<1>2. <<e, "self">> \notin DOMAIN events
  BY DEF Unused
<1> HIDE DEF new
<1>3. BookOK(new, snap, n)
  BY <1>1, <1>2, PutKeeps
<1> QED
  BY <1>3 DEF new

LEMMA NewEventKeeps ==
    ASSUME NEW n, BookOK(events, snap, n), NEW e \in Events, NewEvent(e)
    PROVE  BookOK(events', snap, n)
<1> USE DEF OptionalDates
<1>1. ChainShape(snap)
  BY DEF BookOK
<1>2. ASSUME NEW kind \in Kinds, NEW p \in Platforms \cup {"all"},
             NEW qty \in PerShare \cup Adjustments, NEW ent \in TradingDays, NEW ex \in TradingDays,
             NEW pay \in OptionalDates, NEW arrive \in OptionalDates,
             CreateEvent(e, New(kind, p, ent, ex, pay, arrive, qty))
      PROVE  BookOK(events', snap, n)
  <2> DEFINE r == New(kind, p, ent, ex, pay, arrive, qty)
  <2>1. ent \in Nat /\ ex \in Nat /\ pay \in Nat /\ arrive \in Nat
    BY Numbers
  <2>2. /\ Shape(r) /\ r.status = "pending" /\ r.kind = kind /\ r.ent = ent /\ r.ex = ex
        /\ r.pay = pay /\ r.arrive = arrive
    BY <2>1, NewShape
  <2> HIDE DEF r
  <2>3. /\ Unused(e) /\ ValidDates(r, FALSE) /\ ValidArrive(r) /\ ValidPay(r)
        /\ events' = Put(events, <<e, "self">>, r)
    BY <1>2 DEF CreateEvent, r
  <2>4. Dated(r) /\ AfterLatest(r.ex)
    BY <2>1, <2>2, <2>3 DEF Dated, ValidDates
  <2>5. RowOK(r, snap, n)
    BY <1>1, <2>2, <2>4, AheadOK
  <2> QED
    BY <2>3, <2>5, PutOwn
<1>3. ASSUME NEW p \in Platforms, NEW ent \in Days, NEW ex \in Days, NEW qty \in PerShare,
             DetectDividend(e, p, ent, ex, qty)
      PROVE  BookOK(events', snap, n)
  <2> DEFINE r == New("dividend_pending", p, ent, ex, NoDate, NoDate, qty)
  <2>1. ent \in Nat /\ ex \in Nat /\ NoDate \in Nat
    BY Numbers
  <2>2. /\ Shape(r) /\ r.status = "pending" /\ r.kind = "dividend_pending" /\ r.ent = ent
        /\ r.ex = ex /\ r.pay = NoDate /\ r.arrive = NoDate
    BY <2>1, NewShape
  <2> HIDE DEF r
  <2>3. /\ Unused(e) /\ ent <= ex /\ AfterLatest(ex)
        /\ events' = Put(events, <<e, "self">>, r)
    BY <1>3 DEF DetectDividend, r
  <2>4. Dated(r)
    BY <2>2, <2>3 DEF Dated, ValidArrive, ValidPay
  <2>5. RowOK(r, snap, n)
    BY <1>1, <2>2, <2>3, <2>4, AheadOK
  <2> QED
    BY <2>3, <2>5, PutOwn
<1> QED
  BY <1>2, <1>3 DEF NewEvent

\* An update changes what is due only in front of the chain.
LEMMA UpdateEventKeeps ==
    ASSUME NEW n, BookOK(events, snap, n), NEW e \in Events,
           NEW ent \in Days, NEW ex \in Days, NEW pay \in OptionalDates, NEW arrive \in OptionalDates,
           NEW qty, UpdateEvent(e, ent, ex, pay, arrive, qty)
    PROVE  BookOK(events', snap, n)
<1> DEFINE f == <<e, "self">>
           old == events[f]
           new == [old EXCEPT !.ent = ent, !.ex = ex, !.pay = pay, !.arrive = arrive, !.qty = qty]
<1>1. /\ f \in DOMAIN events /\ old.status # "confirmed" /\ ReceivableFree(old)
      /\ <<ent, ex, arrive>> # <<old.ent, old.ex, old.arrive>> => ValidDates(new, FALSE)
      /\ ValidArrive(new) /\ ValidPay(new)
      /\ events' = [events EXCEPT ![f] = new]
  BY DEF UpdateEvent, Confirmed
<1>2. ChainShape(snap) /\ RowOK(old, snap, n) /\ Shape(old) /\ Dated(old)
  BY <1>1 DEF BookOK, RowOK
<1>3. ent \in Nat /\ ex \in Nat /\ pay \in Nat /\ arrive \in Nat
  BY Numbers DEF OptionalDates
<1> DEFINE same == new = [old EXCEPT !.ent = ent, !.ex = ex, !.pay = pay, !.arrive = arrive, !.qty = qty]
<1>4. same
  OBVIOUS
<1> HIDE DEF new, old
<1>5. /\ Shape(new) /\ new.status = old.status /\ new.kind = old.kind
      /\ new.ent = ent /\ new.ex = ex /\ new.pay = pay /\ new.arrive = arrive
  BY <1>4, <1>2, <1>3 DEF Shape
<1> HIDE DEF same
<1>6. old.status \in {"pending", "cancelled"} /\ old.arrive \in Nat /\ old.pay \in Nat
  BY <1>1, <1>2 DEF Shape
<1>7. ASSUME <<ent, ex, arrive>> # <<old.ent, old.ex, old.arrive>>
      PROVE  RowOK(new, snap, n)
  <2>1. Dated(new) /\ AfterLatest(new.ex)
    BY <1>1, <1>3, <1>5, <1>7 DEF Dated, ValidDates
  <2>2. CASE new.status = "pending"
    BY <1>2, <1>5, <2>1, <2>2, AheadOK
  <2>3. CASE new.status = "cancelled"
    BY <1>5, <2>1, <2>3 DEF RowOK
  <2> QED
    BY <1>5, <1>6, <2>2, <2>3
<1>8. ASSUME <<ent, ex, arrive>> = <<old.ent, old.ex, old.arrive>>
      PROVE  RowOK(new, snap, n)
  <2>1. ent = old.ent /\ ex = old.ex /\ arrive = old.arrive
    BY <1>8
  <2>2. Dated(new)
    BY <1>1, <1>2, <1>5, <2>1 DEF Dated
  <2>3. CASE new.status = "cancelled"
    BY <1>5, <2>2, <2>3 DEF RowOK
  <2>4. CASE new.status = "pending" /\ old.kind = "cash_dividend"
    <3>1. AfterLatest(new.ex)
      BY <1>1, <1>5, <2>1, <2>4 DEF ReceivableFree
    <3> QED
      BY <1>2, <1>5, <2>2, <2>4, <3>1, AheadOK
  <2>5. CASE new.status = "pending" /\ old.kind # "cash_dividend"
    <3>1. new.pay = NoDate /\ old.pay = NoDate
      BY <1>1, <1>2, <1>5, <2>5 DEF ValidPay, Dated
    <3>2. \A d : NotDue(old, d) <=> NotDue(new, d)
      BY <1>5, <2>1, <3>1, SameDates
    <3> QED
      BY <1>2, <1>5, <2>1, <2>2, <2>5, <3>2 DEF RowOK, Ahead
  <2> QED
    BY <1>5, <1>6, <2>3, <2>4, <2>5
<1>9. RowOK(new, snap, n)
  BY <1>7, <1>8
<1>10. /\ DOMAIN events' = DOMAIN events \cup {f} /\ events' = [k \in DOMAIN events' |-> events'[k]]
      /\ events'[f] = new
      /\ \A k \in DOMAIN events : k # f => events'[k] = events[k]
  BY <1>1 DEF BookOK
<1> QED
  BY <1>1, <1>9, <1>10, PutKeeps DEF old

LEMMA ConfirmWithChoiceKeeps ==
    ASSUME NEW n, BookOK(events, snap, n), NEW e \in Events,
           NEW kind, NEW pay \in OptionalDates, NEW arrive \in OptionalDates,
           ConfirmWithChoice(e, kind, pay, arrive)
    PROVE  BookOK(events', snap, n)
<1> DEFINE f == <<e, "self">>
           old == events[f]
           new == [old EXCEPT !.kind = kind, !.pay = pay, !.arrive = arrive]
<1>1. /\ f \in Pending /\ Confirmable(snap, new) /\ ValidArrive(new) /\ ValidPay(new)
      /\ events' = PutAll(events, RowsOf(snap, e, new))
  BY DEF ConfirmWithChoice
<1>2. new # old => \/ new.ent < new.ex
                   \/ /\ new.ent = new.ex
                      /\ new.arrive # NoDate \/ new.kind = "cash_dividend"
  BY DEF ConfirmWithChoice, ValidDates
<1>3. Shape(old) /\ Dated(old)
  BY <1>1 DEF BookOK, RowOK, Pending
<1>4. pay \in Nat /\ arrive \in Nat
  BY Numbers DEF OptionalDates
<1> DEFINE same == new = [old EXCEPT !.kind = kind, !.pay = pay, !.arrive = arrive]
<1>5. same
  OBVIOUS
<1> HIDE DEF new, old
<1>6. Shape(new)
  BY <1>3, <1>4, <1>5 DEF Shape
<1>7. new.ent \in Nat /\ new.ex \in Nat
  BY <1>6 DEF Shape
<1>8. Dated(new)
  <2>1. CASE new # old
    BY <1>1, <1>2, <1>7, <2>1 DEF Dated
  <2>2. CASE new = old
    BY <1>3, <2>2
  <2> QED
    BY <2>1, <2>2
<1> QED
  BY <1>1, <1>6, <1>8, ConfirmKeeps

LEMMA CancelEventKeeps ==
    ASSUME NEW n, BookOK(events, snap, n), NEW e \in Events, CancelEvent(e)
    PROVE  BookOK(events', snap, n)
<1> DEFINE f == <<e, "self">>
           old == events[f]
           new == [old EXCEPT !.status = "cancelled"]
<1>1. f \in DOMAIN events /\ old.status = "pending" /\ events' = [events EXCEPT ![f] = new]
  BY DEF CancelEvent, Pending
<1>2. Shape(old) /\ Dated(old)
  BY <1>1 DEF BookOK, RowOK
<1> DEFINE same == new = [old EXCEPT !.status = "cancelled"]
<1>3. same
  OBVIOUS
<1> HIDE DEF new, old
<1>4. /\ Shape(new) /\ new.status = "cancelled" /\ new.kind = old.kind /\ new.ent = old.ent
      /\ new.ex = old.ex /\ new.pay = old.pay /\ new.arrive = old.arrive
  BY <1>2, <1>3 DEF Shape
<1>5. Dated(new)
  BY <1>2, <1>4, SameDates
<1>6. RowOK(new, snap, n)
  BY <1>4, <1>5 DEF RowOK
<1>7. /\ DOMAIN events' = DOMAIN events \cup {f} /\ events' = [k \in DOMAIN events' |-> events'[k]]
      /\ events'[f] = new
      /\ \A k \in DOMAIN events : k # f => events'[k] = events[k]
  BY <1>1 DEF BookOK
<1> QED
  BY <1>1, <1>6, <1>7, PutKeeps DEF old

LEMMA UnconfirmEventKeeps ==
    ASSUME NEW n, BookOK(events, snap, n), NEW e \in Events, UnconfirmEvent(e)
    PROVE  BookOK(events', snap, n)
<1> DEFINE f == <<e, "self">>
<1>1. f \in DOMAIN events /\ AfterLatest(events[f].ex) /\ events' = Withdrawn({e})
  BY DEF UnconfirmEvent, Confirmed
<1>2. ChainShape(snap) /\ \A k \in DOMAIN events : RowOK(events[k], snap, n)
  BY DEF BookOK
<1>3. Shape(events[f]) /\ Dated(events[f])
  BY <1>1, <1>2 DEF RowOK
<1>4. \A x \in DOMAIN snap : x < events[f].ex
  BY <1>1 DEF AfterLatest, SnapDays
<1>5. RowOK([events[f] EXCEPT !.status = "pending", !.base = 0], snap, n)
  BY <1>2, <1>3, <1>4, ResetOK
<1>6. \A x \in {e} : <<x, "self">> \in DOMAIN events =>
         RowOK([events[<<x, "self">>] EXCEPT !.status = "pending", !.base = 0], snap, n)
  BY <1>5
<1> QED
  BY <1>1, <1>2, <1>6, WithdrawnKeeps

\* A chain with the same shares serves a table as well.
LEMMA SameShares ==
    ASSUME NEW rows, NEW chain, NEW n, BookOK(rows, chain, n), NEW other,
           DOMAIN other = DOMAIN chain,
           \A d \in DOMAIN chain : {"shares", "stale"} \subseteq DOMAIN other[d],
           \A d \in DOMAIN chain : other[d].shares = chain[d].shares,
           \A d \in DOMAIN chain : chain[d].stale => other[d].stale
    PROVE  BookOK(rows, other, n)
<1>1. ChainShape(other)
  BY DEF BookOK, ChainShape
<1>2. ASSUME NEW k \in DOMAIN rows
      PROVE  RowOK(rows[k], other, n) /\ ParentOK(rows, k)
  <2>1. RowOK(rows[k], chain, n) /\ ParentOK(rows, k)
    BY DEF BookOK
  <2>2. \A p : StoredBase(other, p, rows[k].ent) = StoredBase(chain, p, rows[k].ent)
    BY DEF StoredBase
  <2> QED
    BY <2>1, <2>2 DEF RowOK, Ahead
<1> QED
  BY <1>1, <1>2 DEF BookOK

\* An event leaves with its children, a child alone.
LEMMA DroppedKeeps ==
    ASSUME NEW n, BookOK(events, snap, n), NEW k \in DOMAIN events
    PROVE  BookOK(Drop(events, {k} \cup (IF Child(k) THEN {} ELSE ChildrenOf(k[1]))), snap, n)
<1> DEFINE gone == {k} \cup (IF Child(k) THEN {} ELSE ChildrenOf(k[1]))
           left == Drop(events, gone)
<1>1. /\ DOMAIN left = DOMAIN events \ gone /\ left = [j \in DOMAIN left |-> left[j]]
      /\ \A j \in DOMAIN left : left[j] = events[j]
  BY DEF Drop
<1>2. k \in RowKeys
  BY DEF BookOK
<1> HIDE DEF left
<1>3. ASSUME NEW j \in DOMAIN left
      PROVE  RowOK(left[j], snap, n) /\ ParentOK(left, j)
  <2>1. left[j] = events[j] /\ j \in DOMAIN events /\ RowOK(events[j], snap, n) /\ ParentOK(events, j)
    BY <1>1, <1>3 DEF BookOK
  <2>2. CASE Child(j)
    <3> DEFINE parent == <<j[1], "self">>
    <3>1. parent \in DOMAIN events /\ parent[1] = j[1] /\ ~Child(parent)
      BY <2>1, <2>2, Keys DEF ParentOK
    <3>2. CASE Child(k)
      <4>1. parent \notin gone
        BY <3>1, <3>2
      <4>2. parent \in DOMAIN left /\ left[parent] = events[parent]
        BY <1>1, <3>1, <4>1
      <4> QED
        BY <2>1, <4>2 DEF ParentOK
    <3>3. CASE ~Child(k)
      <4>1. k = <<k[1], "self">>
        BY <1>2, <3>3, Keys
      <4>2. j \notin ChildrenOf(k[1])
        BY <1>1, <1>3, <3>3
      <4>3. j[1] # k[1]
        BY <2>1, <2>2, <4>2 DEF ChildrenOf
      <4>4. parent \notin gone
        BY <3>1, <3>3, <4>1, <4>3 DEF ChildrenOf
      <4>5. parent \in DOMAIN left /\ left[parent] = events[parent]
        BY <1>1, <3>1, <4>4
      <4> QED
        BY <2>1, <4>5 DEF ParentOK
    <3> QED
      BY <3>2, <3>3
  <2>3. CASE ~Child(j)
    BY <2>1, <2>3 DEF ParentOK
  <2> QED
    BY <2>2, <2>3
<1>4. DOMAIN left \subseteq RowKeys /\ ChainShape(snap)
  BY <1>1 DEF BookOK
<1>5. BookOK(left, snap, n)
  BY <1>1, <1>3, <1>4 DEF BookOK
<1> QED
  BY <1>5 DEF left

LEMMA DeleteEventKeeps ==
    ASSUME NEW n, BookOK(events, snap, n), NEW k, DeleteEvent(k)
    PROVE  BookOK(events', snap', n) /\ SnapDays' = SnapDays
<1>1. /\ k \in DOMAIN events
      /\ events' = Drop(events, {k} \cup (IF Child(k) THEN {} ELSE ChildrenOf(k[1])))
      /\ snap' = [d \in SnapDays |->
                    IF k \in Confirmed /\ d >= events[k].ex
                    THEN [snap[d] EXCEPT !.stale = TRUE] ELSE snap[d]]
  BY DEF DeleteEvent
<1>2. BookOK(events', snap, n)
  BY <1>1, DroppedKeeps
<1>3. DOMAIN snap' = DOMAIN snap
  BY <1>1 DEF SnapDays
<1>4. ASSUME NEW d \in DOMAIN snap
      PROVE  /\ {"shares", "stale"} \subseteq DOMAIN snap'[d] /\ snap'[d].shares = snap[d].shares
             /\ snap[d].stale => snap'[d].stale
  <2>1. "shares" \in DOMAIN snap[d] /\ "stale" \in DOMAIN snap[d]
    BY DEF BookOK, ChainShape
  <2>2. snap'[d] = snap[d] \/ snap'[d] = [snap[d] EXCEPT !.stale = TRUE]
    BY <1>1 DEF SnapDays
  <2> QED
    BY <2>1, <2>2
<1>5. BookOK(events', snap', n)
  BY <1>2, <1>3, <1>4, SameShares
<1> QED
  BY <1>3, <1>5 DEF SnapDays

-----------------------------------------------------------------------------
(* Every step                                                              *)

LEMMA EventRequestKeeps ==
    ASSUME NEW n, BookOK(events, snap, n), EventRequest
    PROVE  /\ BookOK(events', snap', n) /\ SnapDays' = SnapDays
           /\ Idle /\ UNCHANGED <<today, tx, saved>>
<1>1. PICK e \in Events : Idle /\ (NewEvent(e) \/ EventChange(e))
  BY DEF EventRequest
<1>2. CASE NewEvent(e)
  <2>1. UNCHANGED <<snap, today, tx, saved>>
    <3>1. ASSUME NEW r, CreateEvent(e, r)
          PROVE  UNCHANGED <<snap, today, tx, saved>>
      BY <3>1 DEF CreateEvent, Request
    <3>2. ASSUME NEW p, NEW ent, NEW ex, NEW qty, DetectDividend(e, p, ent, ex, qty)
          PROVE  UNCHANGED <<snap, today, tx, saved>>
      BY <3>2 DEF DetectDividend, Request
    <3> QED
      BY <1>2, <3>1, <3>2 DEF NewEvent
  <2> QED
    BY <1>1, <1>2, <2>1, NewEventKeeps DEF SnapDays
<1>3. ASSUME NEW ent \in Days, NEW ex \in Days, NEW pay \in OptionalDates, NEW arrive \in OptionalDates,
             NEW qty, UpdateEvent(e, ent, ex, pay, arrive, qty)
      PROVE  BookOK(events', snap', n) /\ UNCHANGED <<snap, today, tx, saved>>
  <2>1. UNCHANGED <<snap, today, tx, saved>>
    BY <1>3 DEF UpdateEvent, Request
  <2> QED
    BY <1>3, <2>1, UpdateEventKeeps
<1>4. ASSUME NEW kind, NEW pay \in OptionalDates, NEW arrive \in OptionalDates,
             ConfirmWithChoice(e, kind, pay, arrive)
      PROVE  BookOK(events', snap', n) /\ UNCHANGED <<snap, today, tx, saved>>
  <2>1. UNCHANGED <<snap, today, tx, saved>>
    BY <1>4 DEF ConfirmWithChoice, Request
  <2> QED
    BY <1>4, <2>1, ConfirmWithChoiceKeeps
<1>5. ASSUME ConfirmEvent(e)
      PROVE  BookOK(events', snap', n) /\ UNCHANGED <<snap, today, tx, saved>>
  <2> DEFINE r == events[<<e, "self">>]
  <2>1. /\ UNCHANGED <<snap, today, tx, saved>> /\ <<e, "self">> \in Pending
        /\ Confirmable(snap, r) /\ events' = PutAll(events, RowsOf(snap, e, r))
    BY <1>5 DEF ConfirmEvent, Request
  <2>2. Shape(r) /\ Dated(r)
    BY <2>1 DEF BookOK, RowOK, Pending
  <2> HIDE DEF r
  <2> QED
    BY <2>1, <2>2, ConfirmKeeps
<1>6. ASSUME CancelEvent(e) \/ UnconfirmEvent(e)
      PROVE  BookOK(events', snap', n) /\ UNCHANGED <<snap, today, tx, saved>>
  <2>1. UNCHANGED <<snap, today, tx, saved>>
    BY <1>6 DEF CancelEvent, UnconfirmEvent, Request
  <2> QED
    BY <1>6, <2>1, CancelEventKeeps, UnconfirmEventKeeps
<1>7. ASSUME NEW r \in Platforms \cup {"self"}, DeleteEvent(<<e, r>>)
      PROVE  BookOK(events', snap', n) /\ SnapDays' = SnapDays /\ UNCHANGED <<today, tx, saved>>
  BY <1>7, DeleteEventKeeps DEF DeleteEvent
<1>8. CASE EventChange(e)
  BY <1>1, <1>3, <1>4, <1>5, <1>6, <1>7, <1>8 DEF EventChange, SnapDays
<1> QED
  BY <1>1, <1>2, <1>8

\* A day built, from what is known of the chain to what is known then.
LEMMA BuildKeeps ==
    ASSUME NEW n \in Nat, BookOK(events, snap, n), NEW d \in TradingDays, NEW m \in Nat,
           \A x \in SnapDays : x < m => x <= d /\ (x = d \/ x < n),
           NEW thenConfirm \in BOOLEAN, Build(d, thenConfirm)
    PROVE  BookOK(events', snap', m) /\ SnapDays' = SnapDays \cup {d}
<1> DEFINE rows == Withdrawn(EntitledOn(d))
           b == LastSnapUpTo(d - 1)
           row == DayRow(rows, b, d)
           chain == Put(snap, d, row)
<1>1. /\ NoEventDue(d) /\ snap' = chain
      /\ events' = IF thenConfirm THEN AutoConfirmed(rows, chain, d) ELSE rows
  BY DEF Build
<1>2. {"shares", "stale"} \subseteq DOMAIN row
  BY DEF DayRow
<1> HIDE DEF row
<1>3. BookOK(rows, chain, m)
  BY <1>1, <1>2, BuildWithdraws
<1>4. SnapDays' = SnapDays \cup {d}
  BY <1>1 DEF Put, SnapDays
<1> HIDE DEF rows, chain
<1>5. BookOK(AutoConfirmed(rows, chain, d), chain, m)
  BY <1>3, AutoConfirmedKeeps
<1> QED
  BY <1>1, <1>3, <1>4, <1>5

\* Every day of the chain lies in the calendar, so all of it is known outside
\* a transaction.
LEMMA ChainDays ==
    ASSUME IInv
    PROVE  /\ SnapDays \subseteq 0..LastDay /\ SnapDays \subseteq TradingDays \cup {0}
           /\ 0 \in SnapDays /\ LastDay + 1 \in Nat
           /\ Passed \in Nat /\ (~Idle => Passed = tx.day) /\ (Idle => Passed = LastDay + 1)
<1>1. SnapDays \subseteq TradingDays \cup {0} /\ 0 \in SnapDays
  BY DEF IInv, BookOK, ChainShape, SnapDays
<1>2. TradingDays \subseteq 0..LastDay /\ LastDay \in Nat
  BY DaysAreNumbers
<1>3. 0 \in 0..LastDay
  BY <1>2
<1>4. SnapDays \subseteq 0..LastDay
  BY <1>1, <1>2, <1>3
<1>5. tx.day \in Nat
  BY <1>2 DEF IInv, TxTyped
<1> QED
  BY <1>1, <1>2, <1>4, <1>5 DEF Passed

LEMMA SnapshotRequestKeeps ==
    ASSUME IInv, SnapshotRequest
    PROVE  IInv'
<1> DEFINE end == LastDay + 1
<1>1. /\ SnapDays \subseteq 0..LastDay /\ end \in Nat /\ Passed \in Nat /\ LastDay \in Nat
      /\ BookOK(events, snap, Passed) /\ today \in 0..LastDay /\ TxTyped
      /\ \A x \in SnapDays : x \in Nat /\ x < end
  <2>1. LastDay \in Nat
    BY DaysAreNumbers
  <2> QED
    BY <2>1, ChainDays DEF IInv
<1>2. ASSUME NEW d \in TradingDays, Generate(d) \/ Advance(d)
      PROVE  IInv'
  <2>1. /\ Idle /\ FollowsChain(d) /\ UNCHANGED <<today, tx, saved>>
        /\ Build(d, TRUE) \/ Build(d, FALSE)
    BY <1>2 DEF Generate, Advance
  <2>2. \A x \in SnapDays : x <= d
    BY <1>1, <2>1, DaysAreNumbers DEF FollowsChain, IsLatest, IsTradingDaysAfter
  <2>3. Passed = end
    BY <2>1 DEF Passed
  <2>4. BookOK(events', snap', end)
    BY <1>1, <2>1, <2>2, <2>3, BuildKeeps
  <2>5. Idle' /\ Passed' = end
    BY <2>1 DEF Idle, Passed
  <2> QED
    BY <1>1, <2>1, <2>4, <2>5 DEF IInv, TxTyped
<1>3. ASSUME NEW d \in TradingDays, DeleteDay(d)
      PROVE  IInv'
  <2>1. /\ Idle /\ d # NoDate /\ d \in SnapDays /\ UNCHANGED <<today, tx, saved>>
        /\ snap' = [e \in SnapDays \ {d} |-> [snap[e] EXCEPT !.stale = @ \/ CountsOn(d, e)]]
        /\ events' = Withdrawn(EntitledOn(d))
    BY <1>3 DEF DeleteDay
  <2>2. Passed = end /\ Idle' /\ Passed' = end
    BY <2>1 DEF Passed, Idle
  <2>3. BookOK(events', snap', end)
    <3>1. DOMAIN snap' = SnapDays \ {d} /\ end \in Nat /\ BookOK(events, snap, end)
      BY <1>1, <2>1, <2>2
    <3>2. \A x \in DOMAIN snap' :
             /\ {"shares", "stale"} \subseteq DOMAIN snap'[x] /\ snap'[x].shares = snap[x].shares
             /\ snap[x].stale \/ CountsOn(d, x) => snap'[x].stale
      BY <2>1, <3>1 DEF BookOK, ChainShape, SnapDays
    <3> QED
      BY <2>1, <3>1, <3>2, DeleteWithdraws
  <2> QED
    BY <1>1, <2>1, <2>2, <2>3 DEF IInv, TxTyped
<1>4. ASSUME ConfirmOnly
      PROVE  IInv'
  <2>1. PICK l \in SnapDays : Idle /\ events' = AutoConfirmed(events, snap, l)
                              /\ UNCHANGED <<snap, today, tx, saved>>
    BY <1>4 DEF ConfirmOnly
  <2>2. BookOK(events', snap', Passed)
    BY <1>1, <2>1, AutoConfirmedKeeps
  <2>3. Idle' /\ Passed' = Passed
    BY <2>1 DEF Passed, Idle
  <2> QED
    BY <1>1, <2>1, <2>2, <2>3 DEF IInv, TxTyped
<1>5. ASSUME NEW d \in Days, BeginRecalculate(d)
      PROVE  IInv'
  <2>1. Idle /\ Begins(d) /\ saved' = DB /\ UNCHANGED <<events, snap, today>>
    BY <1>5 DEF BeginRecalculate, Begins
  <2>2. TxTyped' /\ ~Idle' /\ tx'.day \in Days /\ \A x \in SnapDays : x <= tx'.end
    BY <1>1, <2>1, BeginsTyped
  <2>3. Passed = end /\ Passed' = tx'.day
    BY <2>1, <2>2 DEF Passed
  <2>4. BookOK(events, snap, tx'.day)
    BY <1>1, <2>3, Narrowed DEF SnapDays
  <2>5. saved'.events = events /\ saved'.snap = snap /\ DOMAIN saved' = {"events", "snap"}
    BY <2>1 DEF DB
  <2>6. SnapDays' = SnapDays
    BY <2>1 DEF SnapDays
  <2> QED
    BY <1>1, <2>1, <2>2, <2>3, <2>4, <2>5, <2>6 DEF IInv
<1>6. ASSUME ~Idle
      PROVE  /\ Passed = tx.day /\ BookOK(events, snap, tx.day) /\ tx.day \in Nat /\ tx.end \in Nat
             /\ \A x \in SnapDays : x <= tx.end
             /\ BookOK(saved.events, saved.snap, end) /\ DOMAIN saved = {"events", "snap"}
  BY <1>1, <1>6 DEF IInv, Passed, TxTyped
<1>7. ASSUME RecalcDay
      PROVE  IInv'
  <2>1. /\ ~Idle /\ tx.day <= tx.end /\ tx.day \in TradingDays /\ AtTradingDay
        /\ Build(tx.day, TRUE) /\ NextInTx /\ UNCHANGED <<today, saved>>
    BY <1>7 DEF RecalcDay, AtTradingDay
  <2>2. TxTyped' /\ ~Idle'
    BY <1>1, <2>1, NextInTxTyped
  <2>3. tx'.day = tx.day + 1 /\ tx'.end = tx.end
    BY <1>1, <2>1 DEF NextInTx, TxTyped
  <2>4. \A x \in SnapDays : x < tx.day + 1 => x <= tx.day /\ (x = tx.day \/ x < tx.day)
    BY <1>1, <1>6, <2>1
  <2>5. BookOK(events', snap', tx.day + 1) /\ SnapDays' = SnapDays \cup {tx.day}
    <3>1. tx.day \in Nat /\ tx.day + 1 \in Nat /\ BookOK(events, snap, tx.day)
      BY <1>6, <2>1
    <3> QED
      BY <2>1, <2>4, <3>1, BuildKeeps
  <2>6. Passed' = tx.day + 1 /\ \A x \in SnapDays' : x <= tx'.end
    BY <1>6, <2>1, <2>2, <2>3, <2>5 DEF Passed
  <2> QED
    BY <1>1, <1>6, <2>1, <2>2, <2>5, <2>6 DEF IInv
<1>8. ASSUME RecalcSkipDay
      PROVE  IInv'
  <2>1. /\ ~Idle /\ tx.day \notin TradingDays /\ AtHoliday /\ NextInTx
        /\ UNCHANGED <<events, snap, today, saved>>
    BY <1>8 DEF RecalcSkipDay, AtHoliday
  <2>2. TxTyped' /\ ~Idle'
    BY <1>1, <2>1, NextInTxTyped
  <2>3. tx'.day = tx.day + 1 /\ tx'.end = tx.end
    BY <1>1, <2>1 DEF NextInTx, TxTyped
  <2>4. \A x \in SnapDays : x # 0 /\ x < tx.day + 1 => x < tx.day
    BY <1>1, <1>6, <2>1, ChainDays
  <2>5. BookOK(events, snap, tx.day + 1)
    BY <1>6, <2>1, <2>4, Narrowed DEF SnapDays
  <2>6. Passed' = tx.day + 1 /\ SnapDays' = SnapDays
    BY <2>1, <2>2, <2>3 DEF Passed, SnapDays
  <2> QED
    BY <1>1, <1>6, <2>1, <2>2, <2>3, <2>5, <2>6 DEF IInv
<1>9. ASSUME Commit
      PROVE  IInv'
  <2>1. ~Idle /\ tx.day > tx.end /\ tx' = NoTx /\ UNCHANGED <<events, snap, today>>
    BY <1>9 DEF Commit, AtEnd
  <2>2. \A x \in SnapDays : x < tx.day
    BY <1>1, <1>6, <2>1
  <2>3. BookOK(events, snap, end)
    BY <1>6, <2>1, <2>2, Narrowed DEF SnapDays
  <2>4. TxTyped' /\ Idle' /\ Passed' = end
    BY <2>1, NoTxTyped DEF Passed
  <2> QED
    BY <1>1, <2>1, <2>3, <2>4 DEF IInv
<1>10. ASSUME Rollback
       PROVE  IInv'
  <2>1. ~Idle /\ events' = saved.events /\ snap' = saved.snap /\ tx' = NoTx /\ UNCHANGED today
    BY <1>10 DEF Rollback
  <2>2. TxTyped' /\ Idle' /\ Passed' = end
    BY <2>1, NoTxTyped DEF Passed
  <2> QED
    BY <1>1, <1>6, <2>1, <2>2 DEF IInv
<1> QED
  BY <1>2, <1>3, <1>4, <1>5, <1>7, <1>8, <1>9, <1>10 DEF SnapshotRequest

LEMMA InitHolds == Init => IInv
<1> SUFFICES ASSUME Init PROVE IInv
  OBVIOUS
<1>1. DOMAIN events = {} /\ events = [k \in DOMAIN events |-> events[k]]
  BY DEF Init
<1>2. ChainShape(snap)
  BY DEF Init, ChainShape, Opening
<1>3. BookOK(events, snap, Passed)
  BY <1>1, <1>2 DEF BookOK
<1>4. Idle /\ TxTyped /\ today \in 0..LastDay
  BY CalendarAssumption DEF Init, Idle, TxTyped, NoTx, NoDate
<1> QED
  BY <1>3, <1>4 DEF IInv

LEMMA NextKeeps == IInv /\ [Next]_vars => IInv'
<1> SUFFICES ASSUME IInv, [Next]_vars PROVE IInv'
  OBVIOUS
<1>1. CASE EventRequest
  <2>1. BookOK(events, snap, Passed) /\ today \in 0..LastDay /\ TxTyped
    BY DEF IInv
  <2>2. BookOK(events', snap', Passed) /\ Idle /\ UNCHANGED <<today, tx, saved>>
    BY <1>1, <2>1, EventRequestKeeps
  <2>3. Idle' /\ Passed' = Passed
    BY <2>2 DEF Idle, Passed
  <2> QED
    BY <2>1, <2>2, <2>3 DEF IInv, TxTyped
<1>2. CASE SnapshotRequest
  BY <1>2, SnapshotRequestKeeps
<1>3. CASE NewDay
  <2>1. today' \in 0..LastDay
    BY <1>3, CalendarAssumption DEF NewDay, IInv
  <2> QED
    BY <1>3, <2>1 DEF NewDay, IInv, TxTyped, Passed, Idle, SnapDays
<1>4. CASE UNCHANGED vars
  BY <1>4 DEF vars, IInv, TxTyped, Passed, Idle, SnapDays
<1> QED
  BY <1>1, <1>2, <1>3, <1>4 DEF Next

-----------------------------------------------------------------------------
(* The theorems                                                            *)

\* For every calendar, any events, platforms and amounts, the events and the
\* chain fit together, and so do those a rollback restores.
THEOREM EventBookInvariant == Spec => []IInv
<1> QED
  BY InitHolds, NextKeeps, PTL DEF Spec

\* No child of a split outlives its confirmed parent, or differs from it in its
\* dates.
THEOREM ChildrenAlwaysAgree == Spec => []ChildrenAgree
<1>1. IInv => ChildrenAgree
  <2> SUFFICES ASSUME IInv, NEW k \in DOMAIN events, Child(k)
               PROVE  LET parent == <<k[1], "self">>
                      IN  /\ parent \in Confirmed /\ k \in Confirmed
                          /\ events[k].ex = events[parent].ex /\ events[k].ent = events[parent].ent
    BY DEF ChildrenAgree
  <2>1. ParentOK(events, k)
    BY DEF IInv, BookOK
  <2> QED
    BY <2>1 DEF ParentOK, Confirmed
<1> QED
  BY <1>1, EventBookInvariant, PTL

\* The base of a confirmed event is what its stored entitlement date says,
\* whatever was deleted, rebuilt or recalculated.
THEOREM EntitlementAlwaysStored == Spec => []EntitlementFromStored
<1>1. IInv => EntitlementFromStored
  <2> SUFFICES ASSUME IInv, NEW k \in Confirmed
               PROVE  LET r == events[k]
                      IN  /\ r.ent \in SnapDays
                          /\ r.platform # "all" => r.base = StoredBase(snap, r.platform, r.ent)
    BY DEF EntitlementFromStored
  <2>1. k \in DOMAIN events /\ events[k].status = "confirmed"
    BY DEF Confirmed
  <2>2. RowOK(events[k], snap, Passed)
    BY <2>1 DEF IInv, BookOK
  <2> QED
    BY <2>1, <2>2 DEF RowOK, SnapDays
<1> QED
  BY <1>1, EventBookInvariant, PTL

\* A chain that was built can be built again: no pending event is due on a day
\* it has passed, but for those a day deleted inside the chain left due on the days
\* that had counted them.
THEOREM PendingEventsAlwaysAhead == Spec => []PendingEventsAhead
<1>1. IInv => PendingEventsAhead
  <2> SUFFICES ASSUME IInv, Idle, NEW d \in SnapDays, d # 0, NEW k \in Pending
               PROVE  \/ NotDue(events[k], d)
                      \/ events[k].ent \in Missing(SnapDays) /\ snap[d].stale
    BY DEF PendingEventsAhead
  <2>1. k \in DOMAIN events /\ events[k].status = "pending"
    BY DEF Pending
  <2>2. RowOK(events[k], snap, Passed)
    BY <2>1 DEF IInv, BookOK
  <2>3. d < Passed
    <3>1. SnapDays \subseteq 0..LastDay /\ Passed = LastDay + 1 /\ LastDay + 1 \in Nat
      BY ChainDays
    <3>2. LastDay \in Nat
      BY DaysAreNumbers
    <3> QED
      BY <3>1, <3>2
  <2> QED
    BY <2>1, <2>2, <2>3 DEF RowOK, Ahead, SnapDays
<1> QED
  BY <1>1, EventBookInvariant, PTL

-----------------------------------------------------------------------------
(* The books: what each stored day says is what its events gave            *)

\* A row of its type.  Nothing is confirmed before its method is chosen, and
\* what has a method lies on trading days.
RowTyped(r) ==
    /\ r.kind \in AllKinds /\ r.qty \in PerShare \cup Adjustments /\ r.base \in Nat
    /\ r.qty \in Amounts(r.kind)
    /\ r.ent \in Days /\ r.ex \in Days
    /\ r.pay \in Days \cup {NoDate} /\ r.arrive \in TradingDays \cup {NoDate}
    /\ r.platform = "all" => r.kind = "share_split"
    /\ r.status = "confirmed" => r.kind # "dividend_pending"
    /\ r.kind # "dividend_pending" => r.ent \in TradingDays /\ r.ex \in TradingDays

DayTyped(row) ==
    /\ row = [shares |-> row.shares, cash |-> row.cash, transit |-> row.transit,
              dropped |-> row.dropped, stale |-> row.stale]
    /\ row.shares \in [Platforms -> Nat] /\ row.cash \in [Platforms -> Int]
    /\ row.dropped \in [Platforms -> Int] /\ row.stale \in BOOLEAN

\* The shares and the cash of all rows, and what of it falls after day b, up to d.
SharesMap(rows) == [k \in DOMAIN rows |-> SharesOf(rows[k])]
CashMap(rows) == [k \in DOMAIN rows |-> CashOf(rows[k])]
Gained(rows, p, b, d) == SumFunctionOnSet(SharesMap(rows), ShareWindow(rows, p, b, d))
Received(rows, p, b, d) == SumFunctionOnSet(CashMap(rows), CashWindow(rows, p, b, d))

\* What the stored chain entitles a row to.
Entitled(chain, r) == StoredBase(chain, r.platform, r.ent)

\* InTransit, told from the stored chain alone.
OnTheWay(rows, chain, d) ==
    {j \in DOMAIN rows :
        rows[j].status # "cancelled" /\ UnderWay(rows[j], d) /\ Entitled(chain, rows[j]) > 0}
Transit(rows, chain, d) ==
    [k \in OnTheWay(rows, chain, d) |-> Entitled(chain, rows[k]) * rows[k].qty]

\* Day d replays the events from the beginning.
Replays(rows, chain, d) ==
    /\ \A p \in Platforms :
          /\ chain[d].shares[p] - chain[d].dropped[p]
               = OpeningShares[p] + FlowSum(p, 0, d) + Gained(rows, p, 0, d)
          /\ chain[d].cash[p] = Received(rows, p, 0, d)
    /\ chain[d].transit = Transit(rows, chain, d)

RowsTyped(rows) == IsFiniteSet(DOMAIN rows) /\ \A k \in DOMAIN rows : RowTyped(rows[k])
ChainTyped(chain) == \A d \in DOMAIN chain : DayTyped(chain[d])

\* The days before n that are not out of step.  A day built on one that is, is.
InStep(chain, n) == {d \in DOMAIN chain : d < n /\ ~chain[d].stale}
StepsBack(chain, n) ==
    \A d \in InStep(chain, n), b \in DOMAIN chain : b < d => ~chain[b].stale

Books(rows, chain, n) ==
    /\ RowsTyped(rows) /\ ChainTyped(chain) /\ StepsBack(chain, n)
    /\ \A d \in InStep(chain, n) : Replays(rows, chain, d)

BookInv ==
    /\ Books(events, snap, Passed)
    /\ ~Idle => Books(saved.events, saved.snap, LastDay + 1) /\ tx.day # 0
    /\ Idle => saved = NoDB

-----------------------------------------------------------------------------
(* What a row counts for on a day                                          *)

\* A row of a platform whose ex date a day has reached, what it has settled by
\* then, and whether it is under way.
Counts(r, x) == r.status # "cancelled" /\ r.platform # "all" /\ r.ex <= x
InShares(r, x) == r.status = "confirmed" /\ r.kind # "cash_dividend" /\ ShareDay(r) <= x
InCash(r, x) == r.status = "confirmed" /\ r.kind = "cash_dividend" /\ CashDay(r) <= x
Open(r, x) == r.status # "cancelled" /\ UnderWay(r, x)

RowFit(r) == Shape(r) /\ Dated(r) /\ RowTyped(r)

LEMMA Days1 ==
    /\ \A d \in Days : d \in Nat /\ d > 0
    /\ \A d \in TradingDays : d \in Nat /\ d > 0 /\ d \in Days
    /\ "all" \notin Platforms
BY CalendarAssumption, NameAssumption DEF Days

LEMMA Products ==
    /\ \A a, b \in Int : a * b \in Int
    /\ \A a, b \in Nat : a * b \in Nat
<1>1. ASSUME NEW a \in Int, NEW b \in Int PROVE a * b \in Int
  OBVIOUS
<1>2. ASSUME NEW a \in Nat, NEW b \in Nat PROVE a * b \in Nat
  OBVIOUS
<1> QED
  BY <1>1, <1>2

LEMMA Amounted ==
    ASSUME NEW r, RowTyped(r)
    PROVE  r.qty \in Int /\ r.base \in Nat /\ SharesOf(r) \in Int /\ CashOf(r) \in Int
<1>1. r.qty \in Int /\ r.base \in Nat
  <2>1. \A q \in PerShare \cup Adjustments : q \in Int
    BY PerShareAssumption, AdjustmentAssumption
  <2>2. r.qty \in PerShare \cup Adjustments /\ r.base \in Nat
    BY DEF RowTyped
  <2> QED
    BY <2>1, <2>2
<1>2. r.base * r.qty \in Int
  BY <1>1, Products
<1> QED
  BY <1>1, <1>2 DEF SharesOf, CashOf

\* Nothing is settled or under way before its ex date, and what is under way is
\* not settled.
LEMMA SettledAfterEx ==
    ASSUME NEW r, RowFit(r), NEW x \in Nat
    PROVE  /\ ShareDay(r) \in Nat /\ ShareDay(r) > 0 /\ CashDay(r) \in Nat /\ CashDay(r) > 0
           /\ InShares(r, x) => r.ex <= x
           /\ InCash(r, x) => r.ex <= x
           /\ Open(r, x) => Counts(r, x) /\ Dividend(r)
<1>1. /\ r.ex \in Nat /\ r.ex > 0 /\ r.ent \in Nat /\ r.pay \in Nat /\ r.arrive \in Nat
      /\ r.arrive # NoDate => r.arrive > r.ex
      /\ r.kind # "cash_dividend" => r.pay = NoDate
      /\ r.kind = "cash_dividend" => r.pay = NoDate \/ r.pay >= r.ex
      /\ r.platform = "all" => r.kind = "share_split"
  BY Days1 DEF RowFit, RowTyped, Dated, Shape, ValidArrive, ValidPay
<1>2. /\ ShareDay(r) \in Nat /\ ShareDay(r) > 0 /\ CashDay(r) \in Nat /\ CashDay(r) > 0
      /\ ShareDay(r) >= r.ex /\ CashDay(r) >= r.ex
  BY <1>1 DEF ShareDay, CashDay, NoDate
<1>3. InShares(r, x) => r.ex <= x
  BY <1>1, <1>2 DEF InShares
<1>4. InCash(r, x) => r.ex <= x
  BY <1>1, <1>2 DEF InCash
<1>5. Open(r, x) => Counts(r, x) /\ Dividend(r)
  BY <1>1 DEF Open, Counts, UnderWay, Dividend, SameDayPending
<1> QED
  BY <1>2, <1>3, <1>4, <1>5

\* A pending row a built day counts is under way on it and settles later.
LEMMA PendingUnderWay ==
    ASSUME NEW r, RowFit(r), r.status = "pending", NEW x \in Nat, NotDue(r, x), r.ex <= x
    PROVE  /\ Open(r, x) /\ Dividend(r) /\ r.platform # "all"
           /\ \/ r.kind = "cash_dividend" /\ r.pay # NoDate /\ x < r.pay
              \/ r.kind = "reinvest_dividend" /\ r.arrive # NoDate /\ x < r.arrive
              \/ SameDayPending(r) /\ r.ex = x
<1>1. /\ r.ex \in Nat /\ r.pay \in Nat /\ r.arrive \in Nat
      /\ r.platform = "all" => r.kind = "share_split"
  BY Days1 DEF RowFit, RowTyped, Shape
<1>2. \/ r.kind = "cash_dividend" /\ r.pay # NoDate /\ x < r.pay
      \/ r.kind = "reinvest_dividend" /\ r.arrive # NoDate /\ x < r.arrive
      \/ SameDayPending(r) /\ r.ex = x
  BY <1>1 DEF NotDue, CashDay, ShareDay, SameDayPending
<1>3. Open(r, x)
  BY <1>1, <1>2 DEF Open, UnderWay
<1> QED
  BY <1>1, <1>2, <1>3 DEF Dividend, SameDayPending

\* A row that may still be changed or withdrawn counts on no day.
LEMMA FreeAhead ==
    ASSUME NEW r, RowFit(r), r.status = "pending", ReceivableFree(r), NEW x \in SnapDays,
           x \in Nat, x # 0 => NotDue(r, x)
    PROVE  ~Counts(r, x)
<1>1. /\ r.ex \in Nat /\ r.ex > 0 /\ r.pay \in Nat /\ r.arrive \in Nat
  BY Days1 DEF RowFit, RowTyped, Shape
<1>2. CASE AfterLatest(r.ex)
  BY <1>1, <1>2 DEF AfterLatest, Counts
<1>3. CASE ~(r.arrive # NoDate \/ r.kind = "cash_dividend" \/ SameDayPending(r))
  BY <1>1, <1>3 DEF NotDue, CashDay, ShareDay, SameDayPending, Counts
<1> QED
  BY <1>2, <1>3 DEF ReceivableFree

\* s counts for on day x what r does.
Alike(r, s, x) ==
    /\ s.platform = r.platform /\ s.ent = r.ent /\ s.qty = r.qty /\ s.ex = r.ex
    /\ s.status # "cancelled"
    /\ InShares(s, x) <=> InShares(r, x)
    /\ InShares(r, x) => SharesOf(s) = SharesOf(r)
    /\ InCash(s, x) <=> InCash(r, x)
    /\ InCash(r, x) => CashOf(s) = CashOf(r)
    /\ Open(s, x) <=> Open(r, x)

LEMMA SameAlike ==
    ASSUME NEW r, NEW x, Counts(r, x)
    PROVE  Alike(r, r, x)
BY DEF Alike, InShares, InCash, Open, Counts

\* The confirmation of a pending row, as it is or, of an announcement of the same
\* day, with its method chosen.
LEMMA ConfirmedAlike ==
    ASSUME NEW r, RowFit(r), r.status = "pending", NEW s, RowFit(s), s.status = "confirmed",
           s.platform = r.platform, s.ent = r.ent, s.ex = r.ex, s.qty = r.qty,
           \/ s.kind = r.kind /\ s.pay = r.pay /\ s.arrive = r.arrive
           \/ SameDayPending(r) /\ s.kind \in {"cash_dividend", "reinvest_dividend"},
           NEW x \in Nat, NotDue(r, x), Counts(r, x)
    PROVE  Alike(r, s, x)
<1>0. /\ r.ex \in Nat /\ r.ent \in Nat /\ s.pay \in Nat /\ s.arrive \in Nat
      /\ s.arrive # NoDate => s.arrive > s.ex
      /\ s.kind = "cash_dividend" /\ s.ent = s.ex => s.pay > s.ex
      /\ s.ent = s.ex => s.arrive # NoDate \/ s.kind \in {"cash_dividend", "dividend_pending"}
      /\ s.kind # "dividend_pending"
  BY Days1 DEF RowFit, RowTyped, Dated, Shape, ValidArrive, ValidPay
<1>1. r.ex <= x
  BY DEF Counts
<1>2. /\ Open(r, x)
      /\ \/ r.kind = "cash_dividend" /\ r.pay # NoDate /\ x < r.pay
         \/ r.kind = "reinvest_dividend" /\ r.arrive # NoDate /\ x < r.arrive
         \/ SameDayPending(r) /\ r.ex = x
  BY <1>1, PendingUnderWay
<1>3. \/ s.kind = "cash_dividend" /\ s.pay # NoDate /\ x < s.pay
      \/ s.kind = "reinvest_dividend" /\ s.arrive # NoDate /\ x < s.arrive
  BY <1>0, <1>1, <1>2 DEF SameDayPending, NoDate
<1>4. ~InShares(r, x) /\ ~InCash(r, x)
  BY DEF InShares, InCash
<1>5. ~InShares(s, x) /\ ~InCash(s, x) /\ Open(s, x)
  BY <1>0, <1>1, <1>3 DEF InShares, InCash, ShareDay, CashDay, Open, UnderWay
<1> QED
  BY <1>2, <1>4, <1>5 DEF Alike

-----------------------------------------------------------------------------
(* Sums over windows                                                       *)

LEMMA MapsTyped ==
    ASSUME NEW rows, RowsTyped(rows)
    PROVE  /\ IsFiniteSet(DOMAIN rows)
           /\ \A k \in DOMAIN rows : SharesMap(rows)[k] \in Int /\ CashMap(rows)[k] \in Int
BY Amounted DEF RowsTyped, SharesMap, CashMap

LEMMA Windows ==
    ASSUME NEW rows, RowsTyped(rows), NEW p, NEW b, NEW d
    PROVE  /\ ShareWindow(rows, p, b, d) \in SUBSET (DOMAIN rows)
           /\ IsFiniteSet(ShareWindow(rows, p, b, d))
           /\ CashWindow(rows, p, b, d) \in SUBSET (DOMAIN rows)
           /\ IsFiniteSet(CashWindow(rows, p, b, d))
           /\ Gained(rows, p, b, d) \in Int /\ Received(rows, p, b, d) \in Int
<1>1. /\ ShareWindow(rows, p, b, d) \in SUBSET (DOMAIN rows)
      /\ CashWindow(rows, p, b, d) \in SUBSET (DOMAIN rows)
  BY DEF ShareWindow, CashWindow
<1>2. IsFiniteSet(ShareWindow(rows, p, b, d)) /\ IsFiniteSet(CashWindow(rows, p, b, d))
  BY <1>1, MapsTyped, FS_Subset
<1>3. /\ \A k \in ShareWindow(rows, p, b, d) : SharesMap(rows)[k] \in Int
      /\ \A k \in CashWindow(rows, p, b, d) : CashMap(rows)[k] \in Int
  BY <1>1, MapsTyped
<1>4. Gained(rows, p, b, d) \in Int /\ Received(rows, p, b, d) \in Int
  BY <1>2, <1>3, SumRemove DEF Gained, Received
<1> QED
  BY <1>1, <1>2, <1>4

\* What falls up to d falls up to b or after it.
LEMMA WindowsJoin ==
    ASSUME NEW rows, RowsTyped(rows), \A k \in DOMAIN rows : RowFit(rows[k]), NEW p,
           NEW b \in Nat, NEW d \in Nat, b <= d
    PROVE  /\ Gained(rows, p, 0, d) = Gained(rows, p, 0, b) + Gained(rows, p, b, d)
           /\ Received(rows, p, 0, d) = Received(rows, p, 0, b) + Received(rows, p, b, d)
<1> DEFINE s1 == ShareWindow(rows, p, 0, b)
           s2 == ShareWindow(rows, p, b, d)
           c1 == CashWindow(rows, p, 0, b)
           c2 == CashWindow(rows, p, b, d)
<1>1. \A k \in DOMAIN rows : ShareDay(rows[k]) \in Nat /\ CashDay(rows[k]) \in Nat
  BY SettledAfterEx
<1>2. ShareWindow(rows, p, 0, d) = s1 \cup s2 /\ s1 \cap s2 = {}
  BY <1>1 DEF ShareWindow
<1>3. CashWindow(rows, p, 0, d) = c1 \cup c2 /\ c1 \cap c2 = {}
  BY <1>1 DEF CashWindow
<1>4. /\ IsFiniteSet(s1) /\ IsFiniteSet(s2) /\ IsFiniteSet(c1) /\ IsFiniteSet(c2)
      /\ s1 \cup s2 \subseteq DOMAIN rows /\ c1 \cup c2 \subseteq DOMAIN rows
  BY Windows
<1>5. /\ \A k \in s1 \cup s2 : SharesMap(rows)[k] \in Int
      /\ \A k \in c1 \cup c2 : CashMap(rows)[k] \in Int
  BY <1>4, MapsTyped
<1> HIDE DEF s1, s2, c1, c2
<1>6. /\ SumFunctionOnSet(SharesMap(rows), s1 \cup s2)
           = SumFunctionOnSet(SharesMap(rows), s1) + SumFunctionOnSet(SharesMap(rows), s2)
      /\ SumFunctionOnSet(CashMap(rows), c1 \cup c2)
           = SumFunctionOnSet(CashMap(rows), c1) + SumFunctionOnSet(CashMap(rows), c2)
  BY <1>2, <1>3, <1>4, <1>5, SumUnion
<1> QED
  BY <1>2, <1>3, <1>6 DEF Gained, Received, s1, s2, c1, c2

LEMMA FlowsTyped ==
    ASSUME NEW p \in Platforms
    PROVE  /\ IsFiniteSet(TradingDays)
           /\ \A e \in TradingDays : Flow[e][p] \in Int
<1>1. IsFiniteSet(0..LastDay) /\ TradingDays \subseteq 0..LastDay
  BY CalendarAssumption, FS_Interval, DaysAreNumbers
<1>2. IsFiniteSet(TradingDays)
  BY <1>1, FS_Subset
<1>3. \A e \in TradingDays : Flow[e] \in [Platforms -> Int]
  BY HoldingAssumption
<1> QED
  BY <1>2, <1>3

\* The flows of a platform as one function.
FlowOf(p) == [e \in TradingDays |-> Flow[e][p]]

LEMMA FlowSums ==
    ASSUME NEW p \in Platforms, NEW b, NEW d
    PROVE  /\ FlowSum(p, b, d) = SumFunctionOnSet(FlowOf(p), Flows(p, b, d))
           /\ FlowSum(p, b, d) \in Int
<1> DEFINE S == Flows(p, b, d)
           F == [e \in S |-> Flow[e][p]]
<1>1. S \subseteq TradingDays /\ IsFiniteSet(S)
  <2>1. S \in SUBSET TradingDays
    BY DEF Flows
  <2> QED
    BY <2>1, FlowsTyped, FS_Subset
<1>2. \A e \in S : F[e] = FlowOf(p)[e] /\ F[e] \in Int
  BY <1>1, FlowsTyped DEF FlowOf
<1>3. FlowSum(p, b, d) = SumFunctionOnSet(F, S)
  BY DEF FlowSum, Sum
<1> HIDE DEF S, F
<1>4. SumFunctionOnSet(F, S) = SumFunctionOnSet(FlowOf(p), S) /\ SumFunctionOnSet(F, S) \in Int
  BY <1>1, <1>2, SumAgree, SumRemove
<1> QED
  BY <1>3, <1>4 DEF S

LEMMA FlowsJoin ==
    ASSUME NEW p \in Platforms, NEW b \in Nat, NEW c \in Nat, NEW d \in Nat, b <= c, c <= d
    PROVE  FlowSum(p, b, d) = FlowSum(p, b, c) + FlowSum(p, c, d)
<1> DEFINE S == Flows(p, b, c)
           T == Flows(p, c, d)
<1>1. S \in SUBSET TradingDays /\ T \in SUBSET TradingDays
  BY DEF Flows
<1>2. Flows(p, b, d) = S \cup T /\ S \cap T = {}
  BY Days1 DEF Flows
<1>3. IsFiniteSet(S) /\ IsFiniteSet(T) /\ \A e \in S \cup T : FlowOf(p)[e] \in Int
  BY <1>1, FlowsTyped, FS_Subset DEF FlowOf
<1> HIDE DEF S, T
<1>4. SumFunctionOnSet(FlowOf(p), S \cup T)
        = SumFunctionOnSet(FlowOf(p), S) + SumFunctionOnSet(FlowOf(p), T)
  BY <1>2, <1>3, SumUnion
<1> QED
  BY <1>2, <1>4, FlowSums DEF S, T

LEMMA NothingYet ==
    ASSUME NEW rows, RowsTyped(rows), \A k \in DOMAIN rows : RowFit(rows[k]), NEW p \in Platforms
    PROVE  Gained(rows, p, 0, 0) = 0 /\ Received(rows, p, 0, 0) = 0 /\ FlowSum(p, 0, 0) = 0
<1>1. \A k \in DOMAIN rows : ShareDay(rows[k]) > 0 /\ CashDay(rows[k]) > 0
                             /\ ShareDay(rows[k]) \in Nat /\ CashDay(rows[k]) \in Nat
  BY SettledAfterEx
<1>2. ShareWindow(rows, p, 0, 0) = {} /\ CashWindow(rows, p, 0, 0) = {}
  BY <1>1 DEF ShareWindow, CashWindow
<1>3. Flows(p, 0, 0) = {}
  BY Days1 DEF Flows
<1> QED
  BY <1>2, <1>3, SumEmpty, FlowSums DEF Gained, Received

-----------------------------------------------------------------------------
(* A day that is left alone                                                *)

\* What the rows give on day x is there in new as well, and nothing else.
CarriesOver(rows, new, x) ==
    /\ \A k \in DOMAIN rows : Counts(rows[k], x) => k \in DOMAIN new /\ Alike(rows[k], new[k], x)
    /\ \A k \in DOMAIN new : Counts(new[k], x) => k \in DOMAIN rows /\ Counts(rows[k], x)

\* Both chains entitle what counts on day x to the same, and have the same day x.
SameBase(rows, chain, other, x) ==
    \A k \in DOMAIN rows : Counts(rows[k], x) => Entitled(other, rows[k]) = Entitled(chain, rows[k])
SameDayIn(chain, other, x) ==
    /\ other[x].shares = chain[x].shares /\ other[x].cash = chain[x].cash
    /\ other[x].transit = chain[x].transit /\ other[x].dropped = chain[x].dropped

LEMMA CarriedSums ==
    ASSUME NEW rows, RowsTyped(rows), \A k \in DOMAIN rows : RowFit(rows[k]),
           NEW new, RowsTyped(new), \A k \in DOMAIN new : RowFit(new[k]),
           NEW x \in Nat, CarriesOver(rows, new, x), NEW p \in Platforms
    PROVE  /\ Gained(new, p, 0, x) = Gained(rows, p, 0, x)
           /\ Received(new, p, 0, x) = Received(rows, p, 0, x)
<1>1. \A k \in DOMAIN rows :
          /\ k \in ShareWindow(rows, p, 0, x) <=> rows[k].platform = p /\ InShares(rows[k], x)
          /\ k \in CashWindow(rows, p, 0, x) <=> rows[k].platform = p /\ InCash(rows[k], x)
          /\ rows[k].platform = p /\ (InShares(rows[k], x) \/ InCash(rows[k], x)) => Counts(rows[k], x)
  BY SettledAfterEx, Days1 DEF ShareWindow, CashWindow, InShares, InCash, Counts
<1>2. \A k \in DOMAIN new :
          /\ k \in ShareWindow(new, p, 0, x) <=> new[k].platform = p /\ InShares(new[k], x)
          /\ k \in CashWindow(new, p, 0, x) <=> new[k].platform = p /\ InCash(new[k], x)
          /\ new[k].platform = p /\ (InShares(new[k], x) \/ InCash(new[k], x)) => Counts(new[k], x)
  BY SettledAfterEx, Days1 DEF ShareWindow, CashWindow, InShares, InCash, Counts
<1>3. /\ ShareWindow(rows, p, 0, x) \subseteq DOMAIN rows /\ CashWindow(rows, p, 0, x) \subseteq DOMAIN rows
      /\ ShareWindow(new, p, 0, x) \subseteq DOMAIN new /\ CashWindow(new, p, 0, x) \subseteq DOMAIN new
      /\ IsFiniteSet(ShareWindow(rows, p, 0, x)) /\ IsFiniteSet(CashWindow(rows, p, 0, x))
  BY Windows
<1>4. ASSUME NEW k \in ShareWindow(rows, p, 0, x)
      PROVE  k \in ShareWindow(new, p, 0, x) /\ SharesMap(rows)[k] = SharesMap(new)[k]
  <2>1. k \in DOMAIN rows /\ rows[k].platform = p /\ InShares(rows[k], x) /\ Counts(rows[k], x)
    BY <1>1, <1>3
  <2>2. k \in DOMAIN new /\ Alike(rows[k], new[k], x)
    BY <2>1 DEF CarriesOver
  <2> QED
    BY <1>2, <2>1, <2>2 DEF Alike, SharesMap
<1>5. ASSUME NEW k \in CashWindow(rows, p, 0, x)
      PROVE  k \in CashWindow(new, p, 0, x) /\ CashMap(rows)[k] = CashMap(new)[k]
  <2>1. k \in DOMAIN rows /\ rows[k].platform = p /\ InCash(rows[k], x) /\ Counts(rows[k], x)
    BY <1>1, <1>3
  <2>2. k \in DOMAIN new /\ Alike(rows[k], new[k], x)
    BY <2>1 DEF CarriesOver
  <2> QED
    BY <1>2, <2>1, <2>2 DEF Alike, CashMap
<1>6. ASSUME NEW k \in ShareWindow(new, p, 0, x)
      PROVE  k \in ShareWindow(rows, p, 0, x)
  <2>1. k \in DOMAIN new /\ new[k].platform = p /\ InShares(new[k], x) /\ Counts(new[k], x)
    BY <1>2, <1>3
  <2>2. k \in DOMAIN rows /\ Alike(rows[k], new[k], x)
    BY <2>1 DEF CarriesOver
  <2> QED
    BY <1>1, <2>1, <2>2 DEF Alike
<1>7. ASSUME NEW k \in CashWindow(new, p, 0, x)
      PROVE  k \in CashWindow(rows, p, 0, x)
  <2>1. k \in DOMAIN new /\ new[k].platform = p /\ InCash(new[k], x) /\ Counts(new[k], x)
    BY <1>2, <1>3
  <2>2. k \in DOMAIN rows /\ Alike(rows[k], new[k], x)
    BY <2>1 DEF CarriesOver
  <2> QED
    BY <1>1, <2>1, <2>2 DEF Alike
<1>8. /\ ShareWindow(new, p, 0, x) = ShareWindow(rows, p, 0, x)
      /\ CashWindow(new, p, 0, x) = CashWindow(rows, p, 0, x)
  BY <1>4, <1>5, <1>6, <1>7
<1>9. SumFunctionOnSet(SharesMap(rows), ShareWindow(rows, p, 0, x))
        = SumFunctionOnSet(SharesMap(new), ShareWindow(rows, p, 0, x))
  BY <1>3, <1>4, SumAgree
<1>10. SumFunctionOnSet(CashMap(rows), CashWindow(rows, p, 0, x))
         = SumFunctionOnSet(CashMap(new), CashWindow(rows, p, 0, x))
  BY <1>3, <1>5, SumAgree
<1> QED
  BY <1>8, <1>9, <1>10 DEF Gained, Received

LEMMA CarriedTransit ==
    ASSUME NEW rows, \A k \in DOMAIN rows : RowFit(rows[k]),
           NEW new, \A k \in DOMAIN new : RowFit(new[k]),
           NEW x \in Nat, CarriesOver(rows, new, x),
           NEW chain, NEW other, SameBase(rows, chain, other, x)
    PROVE  Transit(new, other, x) = Transit(rows, chain, x)
<1>1. \A k \in DOMAIN rows : Counts(rows[k], x) => Entitled(other, rows[k]) = Entitled(chain, rows[k])
  BY DEF SameBase
<1>2. ASSUME NEW k \in OnTheWay(rows, chain, x)
      PROVE  /\ k \in OnTheWay(new, other, x)
             /\ Entitled(other, new[k]) * new[k].qty = Entitled(chain, rows[k]) * rows[k].qty
  <2>1. k \in DOMAIN rows /\ Open(rows[k], x) /\ Entitled(chain, rows[k]) > 0
    BY DEF OnTheWay, Open
  <2>2. Counts(rows[k], x) /\ RowFit(rows[k])
    BY <2>1, SettledAfterEx
  <2>3. k \in DOMAIN new /\ Alike(rows[k], new[k], x)
    BY <2>1, <2>2 DEF CarriesOver
  <2>4. Entitled(other, new[k]) = Entitled(other, rows[k]) /\ new[k].qty = rows[k].qty
        /\ Open(new[k], x)
    BY <2>1, <2>3 DEF Alike, Entitled
  <2>5. Entitled(other, rows[k]) = Entitled(chain, rows[k])
    BY <1>1, <2>1, <2>2
  <2> QED
    BY <2>1, <2>3, <2>4, <2>5 DEF OnTheWay, Open
<1>3. ASSUME NEW k \in OnTheWay(new, other, x)
      PROVE  k \in OnTheWay(rows, chain, x)
  <2>1. k \in DOMAIN new /\ Open(new[k], x) /\ Entitled(other, new[k]) > 0
    BY DEF OnTheWay, Open
  <2>2. Counts(new[k], x) /\ RowFit(new[k])
    BY <2>1, SettledAfterEx
  <2>3. k \in DOMAIN rows /\ Counts(rows[k], x) /\ Alike(rows[k], new[k], x)
    BY <2>1, <2>2 DEF CarriesOver
  <2>4. Entitled(other, new[k]) = Entitled(other, rows[k]) /\ Open(rows[k], x)
    BY <2>1, <2>3 DEF Alike, Entitled
  <2>5. Entitled(other, rows[k]) = Entitled(chain, rows[k])
    BY <1>1, <2>3
  <2> QED
    BY <2>1, <2>3, <2>4, <2>5 DEF OnTheWay, Open
<1>4. OnTheWay(new, other, x) = OnTheWay(rows, chain, x)
  BY <1>2, <1>3
<1> QED
  BY <1>2, <1>4 DEF Transit

LEMMA CarriedReplays ==
    ASSUME NEW rows, RowsTyped(rows), \A k \in DOMAIN rows : RowFit(rows[k]),
           NEW new, RowsTyped(new), \A k \in DOMAIN new : RowFit(new[k]),
           NEW x \in Nat, CarriesOver(rows, new, x),
           NEW chain, NEW other, SameBase(rows, chain, other, x), SameDayIn(chain, other, x),
           Replays(rows, chain, x)
    PROVE  Replays(new, other, x)
<1>1. Transit(new, other, x) = Transit(rows, chain, x)
  BY CarriedTransit
<1>2. \A p \in Platforms : Gained(new, p, 0, x) = Gained(rows, p, 0, x)
                           /\ Received(new, p, 0, x) = Received(rows, p, 0, x)
  BY CarriedSums
<1> QED
  BY <1>1, <1>2 DEF Replays, SameDayIn

\* What counts on a day was entitled on one up to it.
LEMMA SameUpTo ==
    ASSUME NEW rows, \A k \in DOMAIN rows : RowFit(rows[k]), NEW x \in Nat, NEW chain, NEW other,
           \A p \in Platforms, y \in Nat : y <= x => StoredBase(other, p, y) = StoredBase(chain, p, y)
    PROVE  SameBase(rows, chain, other, x)
<1> SUFFICES ASSUME NEW k \in DOMAIN rows, Counts(rows[k], x)
             PROVE  Entitled(other, rows[k]) = Entitled(chain, rows[k])
  BY DEF SameBase
<1> DEFINE r == rows[k]
<1>1. /\ r.ent \in Nat /\ r.ex \in Nat /\ r.ent <= r.ex /\ r.ex <= x
      /\ r.platform \in Platforms
  BY DEF RowFit, Shape, Dated, Counts
<1>2. r.ent <= x
  BY <1>1
<1> QED
  BY <1>1, <1>2 DEF Entitled

-----------------------------------------------------------------------------
(* A day that is built                                                     *)

LEMMA NetOfWindows ==
    ASSUME NEW rows, RowsTyped(rows), NEW p \in Platforms, NEW b \in SnapDays,
           DayTyped(snap[b]), NEW d
    PROVE  /\ NetShares(rows, p, b, d)
                = snap[b].shares[p] + FlowSum(p, b, d) + Gained(rows, p, b, d)
           /\ CashOn(rows, p, b, d) = snap[b].cash[p] + Received(rows, p, b, d)
           /\ NetShares(rows, p, b, d) \in Int /\ CashOn(rows, p, b, d) \in Int
<1> DEFINE S == ShareWindow(rows, p, b, d)
           C == CashWindow(rows, p, b, d)
           F == [k \in S |-> SharesOf(rows[k])]
           G == [k \in C |-> CashOf(rows[k])]
<1>1. S \subseteq DOMAIN rows /\ C \subseteq DOMAIN rows /\ IsFiniteSet(S) /\ IsFiniteSet(C)
  BY Windows
<1>2. NetShares(rows, p, b, d) = snap[b].shares[p] + FlowSum(p, b, d) + SumFunctionOnSet(F, S)
  BY DEF NetShares, Sum
<1>3. CashOn(rows, p, b, d) = snap[b].cash[p] + SumFunctionOnSet(G, C)
  BY DEF CashOn, Sum
<1>4. /\ \A k \in S : F[k] = SharesMap(rows)[k]
      /\ \A k \in C : G[k] = CashMap(rows)[k]
  BY <1>1 DEF SharesMap, CashMap
<1> HIDE DEF S, C, F, G
<1>5. /\ SumFunctionOnSet(F, S) = SumFunctionOnSet(SharesMap(rows), S)
      /\ SumFunctionOnSet(G, C) = SumFunctionOnSet(CashMap(rows), C)
  BY <1>1, <1>4, SumAgree
<1>6. /\ SumFunctionOnSet(F, S) = Gained(rows, p, b, d)
      /\ SumFunctionOnSet(G, C) = Received(rows, p, b, d)
  BY <1>5 DEF Gained, Received, S, C
<1>7. snap[b].shares[p] \in Int /\ snap[b].cash[p] \in Int
  BY DEF DayTyped
<1>8. /\ Gained(rows, p, b, d) \in Int /\ Received(rows, p, b, d) \in Int
      /\ FlowSum(p, b, d) \in Int
  BY Windows, FlowSums
<1> QED
  BY <1>2, <1>3, <1>6, <1>7, <1>8

LEMMA BaseEntitles ==
    ASSUME NEW rows, NEW d, NEW row, NEW chain, chain = Put(snap, d, row),
           NEW n, BookOK(rows, chain, n), NEW j \in DOMAIN rows,
           rows[j].platform \in Platforms
    PROVE  BaseOf(rows[j], d, row.shares) = Entitled(chain, rows[j])
<1> DEFINE r == rows[j]
<1>1. /\ d \in DOMAIN chain /\ chain[d] = row
      /\ \A y : y # d => (y \in DOMAIN chain <=> y \in DOMAIN snap)
      /\ \A y \in DOMAIN snap : y # d => chain[y] = snap[y]
  BY DEF Put
<1>2. RowOK(r, chain, n)
  BY DEF BookOK
<1> HIDE DEF r
<1>3. CASE r.status = "confirmed"
  <2>1. r.base = StoredBase(chain, r.platform, r.ent)
    BY <1>2, <1>3, NameAssumption DEF RowOK, r
  <2> QED
    BY <1>3, <2>1 DEF BaseOf, Entitled, r
<1>4. CASE r.status # "confirmed" /\ r.ent = d
  BY <1>1, <1>4 DEF BaseOf, Entitled, StoredBase, r
<1>5. CASE r.status # "confirmed" /\ r.ent # d
  BY <1>1, <1>5 DEF BaseOf, Entitled, StoredBase, r
<1> QED
  BY <1>3, <1>4, <1>5

LEMMA DayReplays ==
    ASSUME NEW rows, RowsTyped(rows), \A k \in DOMAIN rows : RowFit(rows[k]),
           NEW b \in SnapDays, b \in Nat, NEW d \in Nat, b <= d, DayTyped(snap[b]),
           NEW chain, chain = Put(snap, d, DayRow(rows, b, d)),
           NEW n, BookOK(rows, chain, n)
    PROVE  /\ DayTyped(chain[d]) /\ chain[d].stale = snap[b].stale
           /\ Replays(rows, snap, b) => Replays(rows, chain, d)
<1> DEFINE row == DayRow(rows, b, d)
           net(p) == NetShares(rows, p, b, d)
           held == [p \in Platforms |-> IF net(p) > 0 THEN net(p) ELSE 0]
<1>1. /\ row.shares = held
      /\ row.cash = [p \in Platforms |-> CashOn(rows, p, b, d)]
      /\ row.transit = InTransit(rows, d, held)
      /\ row.dropped = [p \in Platforms |-> snap[b].dropped[p] + held[p] - net(p)]
      /\ row.stale = snap[b].stale
      /\ row = [shares |-> row.shares, cash |-> row.cash, transit |-> row.transit,
                dropped |-> row.dropped, stale |-> row.stale]
  BY DEF DayRow
<1>2. chain[d] = row
  BY DEF Put
<1>3. ASSUME NEW p \in Platforms
      PROVE  /\ net(p) = snap[b].shares[p] + FlowSum(p, b, d) + Gained(rows, p, b, d)
             /\ CashOn(rows, p, b, d) = snap[b].cash[p] + Received(rows, p, b, d)
             /\ net(p) \in Int /\ CashOn(rows, p, b, d) \in Int
             /\ held[p] = (IF net(p) > 0 THEN net(p) ELSE 0)
  BY <1>3, NetOfWindows
<1>3a. \A p \in Platforms : snap[b].dropped[p] \in Int /\ snap[b].shares[p] \in Int
                            /\ snap[b].cash[p] \in Int
  BY DEF DayTyped
<1> HIDE DEF row, net
<1>4. \A p \in Platforms : held[p] \in Nat
  BY <1>3
<1>5. held \in [Platforms -> Nat]
  BY <1>4
<1>6. DayTyped(row)
  <2>1. row.cash \in [Platforms -> Int]
    BY <1>1, <1>3
  <2>2. row.dropped \in [Platforms -> Int]
    <3>1. \A p \in Platforms : snap[b].dropped[p] + held[p] - net(p) \in Int
      BY <1>3, <1>3a, <1>4
    <3> QED
      BY <1>1, <3>1
  <2>3. row.stale \in BOOLEAN
    BY <1>1 DEF DayTyped
  <2> QED
    BY <1>1, <1>5, <2>1, <2>2, <2>3 DEF DayTyped
<1>7. ASSUME Replays(rows, snap, b)
      PROVE  Replays(rows, chain, d)
  <2>1. ASSUME NEW p \in Platforms
        PROVE  /\ row.shares[p] - row.dropped[p]
                    = OpeningShares[p] + FlowSum(p, 0, d) + Gained(rows, p, 0, d)
               /\ row.cash[p] = Received(rows, p, 0, d)
    <3>1. /\ Gained(rows, p, 0, d) = Gained(rows, p, 0, b) + Gained(rows, p, b, d)
          /\ Received(rows, p, 0, d) = Received(rows, p, 0, b) + Received(rows, p, b, d)
      BY WindowsJoin
    <3>2. FlowSum(p, 0, d) = FlowSum(p, 0, b) + FlowSum(p, b, d)
      <4>1. 0 \in Nat /\ 0 <= b
        OBVIOUS
      <4> QED
        BY <4>1, FlowsJoin
    <3>3. /\ snap[b].shares[p] - snap[b].dropped[p]
                = OpeningShares[p] + FlowSum(p, 0, b) + Gained(rows, p, 0, b)
          /\ snap[b].cash[p] = Received(rows, p, 0, b)
      BY <1>7 DEF Replays
    <3>4. /\ OpeningShares[p] \in Int
          /\ FlowSum(p, 0, b) \in Int /\ FlowSum(p, b, d) \in Int
          /\ Gained(rows, p, 0, b) \in Int /\ Gained(rows, p, b, d) \in Int
          /\ Received(rows, p, 0, b) \in Int /\ Received(rows, p, b, d) \in Int
      BY Windows, FlowSums, HoldingAssumption
    <3>5. /\ row.shares[p] = held[p] /\ row.cash[p] = CashOn(rows, p, b, d)
          /\ row.dropped[p] = snap[b].dropped[p] + held[p] - net(p)
      BY <1>1
    <3>6. row.cash[p] = Received(rows, p, 0, d)
      BY <1>3, <3>1, <3>3, <3>5
    <3>7. row.shares[p] - row.dropped[p] = net(p) - snap[b].dropped[p]
      BY <1>3, <1>3a, <1>4, <3>5
    <3>8. row.shares[p] - row.dropped[p]
            = OpeningShares[p] + FlowSum(p, 0, d) + Gained(rows, p, 0, d)
      BY <1>3, <1>3a, <3>1, <3>2, <3>3, <3>4, <3>7
    <3> QED
      BY <3>6, <3>8
  <2>2. row.transit = Transit(rows, chain, d)
    <3>1. ASSUME NEW j \in DOMAIN rows, Open(rows[j], d)
          PROVE  BaseOf(rows[j], d, held) = Entitled(chain, rows[j])
      <4>1. rows[j].platform \in Platforms
        BY <3>1, SettledAfterEx DEF RowFit, Shape, Counts
      <4> QED
        BY <1>1, <4>1, BaseEntitles DEF row
    <3> HIDE DEF held
    <3>2. {j \in DOMAIN rows : rows[j].status # "cancelled" /\ UnderWay(rows[j], d)
                                 /\ BaseOf(rows[j], d, held) > 0} = OnTheWay(rows, chain, d)
      BY <3>1 DEF OnTheWay, Open
    <3>3. \A j \in OnTheWay(rows, chain, d) :
             BaseOf(rows[j], d, held) * rows[j].qty = Entitled(chain, rows[j]) * rows[j].qty
      BY <3>1 DEF OnTheWay, Open
    <3> QED
      BY <1>1, <3>2, <3>3 DEF InTransit, Transit
  <2> QED
    BY <1>2, <2>1, <2>2 DEF Replays
<1> QED
  BY <1>1, <1>2, <1>6, <1>7

-----------------------------------------------------------------------------
(* What the requests write                                                 *)

LEMMA AllFit ==
    ASSUME NEW rows, NEW chain, NEW n, BookOK(rows, chain, n), RowsTyped(rows)
    PROVE  \A k \in DOMAIN rows : RowFit(rows[k])
BY DEF BookOK, RowOK, RowsTyped, RowFit

LEMMA StoredTyped ==
    ASSUME NEW chain, ChainTyped(chain), NEW p \in Platforms, NEW d
    PROVE  StoredBase(chain, p, d) \in Nat
BY DEF ChainTyped, DayTyped, StoredBase

\* A row of its own written over one that did not count.
LEMMA PutTyped ==
    ASSUME RowsTyped(events), NEW f, NEW r, RowTyped(r), NEW new,
           DOMAIN new = DOMAIN events \cup {f}, new[f] = r,
           \A k \in DOMAIN events : k # f => new[k] = events[k]
    PROVE  RowsTyped(new)
<1>1. IsFiniteSet(DOMAIN events \cup {f})
  BY FS_AddElement DEF RowsTyped
<1> QED
  BY <1>1 DEF RowsTyped

LEMMA PutCarries ==
    ASSUME NEW f, NEW r, NEW new,
           DOMAIN new = DOMAIN events \cup {f}, new[f] = r,
           \A k \in DOMAIN events : k # f => new[k] = events[k],
           NEW x, ~Counts(r, x), f \in DOMAIN events => ~Counts(events[f], x)
    PROVE  CarriesOver(events, new, x)
BY SameAlike DEF CarriesOver

LEMMA NewEventTyped ==
    ASSUME RowsTyped(events), SnapDays \subseteq Nat, NEW e \in Events, NewEvent(e)
    PROVE  /\ RowsTyped(events')
           /\ \A x \in SnapDays : CarriesOver(events, events', x)
<1>1. ASSUME NEW r, RowTyped(r), AfterLatest(r.ex), Unused(e), events' = Put(events, <<e, "self">>, r)
      PROVE  RowsTyped(events') /\ \A x \in SnapDays : CarriesOver(events, events', x)
  <2>1. /\ DOMAIN events' = DOMAIN events \cup {<<e, "self">>} /\ events'[<<e, "self">>] = r
        /\ \A k \in DOMAIN events : k # <<e, "self">> => events'[k] = events[k]
        /\ <<e, "self">> \notin DOMAIN events
    BY <1>1 DEF Put, Unused
  <2>2. r.ex \in Nat
    BY <1>1, Days1 DEF RowTyped
  <2>3. \A x \in SnapDays : ~Counts(r, x)
    BY <1>1, <2>2 DEF AfterLatest, Counts
  <2>4. RowsTyped(events')
    BY <1>1, <2>1, PutTyped
  <2> QED
    BY <2>1, <2>3, <2>4, PutCarries
<1>2. ASSUME NEW kind \in Kinds, NEW p \in Platforms \cup {"all"},
             NEW qty \in PerShare \cup Adjustments, NEW ent \in TradingDays, NEW ex \in TradingDays,
             NEW pay \in OptionalDates, NEW arrive \in OptionalDates,
             CreateEvent(e, New(kind, p, ent, ex, pay, arrive, qty))
      PROVE  RowsTyped(events') /\ \A x \in SnapDays : CarriesOver(events, events', x)
  <2> DEFINE r == New(kind, p, ent, ex, pay, arrive, qty)
  <2>1. /\ r.kind = kind /\ r.platform = p /\ r.ent = ent /\ r.ex = ex /\ r.pay = pay
        /\ r.arrive = arrive /\ r.qty = qty /\ r.base = 0 /\ r.status = "pending"
    BY DEF New
  <2> HIDE DEF r
  <2>2. /\ Unused(e) /\ AfterLatest(r.ex) /\ (r.platform = "all" <=> FundLevel(r.kind))
        /\ r.qty \in Amounts(r.kind) /\ events' = Put(events, <<e, "self">>, r)
        /\ arrive \in TradingDays \cup {NoDate}
    BY <1>2, <2>1 DEF CreateEvent, ValidDates, ValidArrive, r
  <2>3. RowTyped(r)
    BY <2>1, <2>2, Days1, KindAssumption DEF RowTyped, FundLevel, OptionalDates
  <2> QED
    BY <1>1, <2>2, <2>3
<1>3. ASSUME NEW p \in Platforms, NEW ent \in Days, NEW ex \in Days, NEW qty \in PerShare,
             "dividend_pending" \in Kinds, DetectDividend(e, p, ent, ex, qty)
      PROVE  RowsTyped(events') /\ \A x \in SnapDays : CarriesOver(events, events', x)
  <2> DEFINE r == New("dividend_pending", p, ent, ex, NoDate, NoDate, qty)
  <2>1. /\ r.kind = "dividend_pending" /\ r.platform = p /\ r.ent = ent /\ r.ex = ex /\ r.pay = NoDate
        /\ r.arrive = NoDate /\ r.qty = qty /\ r.base = 0 /\ r.status = "pending"
    BY DEF New
  <2> HIDE DEF r
  <2>2. /\ Unused(e) /\ AfterLatest(r.ex) /\ events' = Put(events, <<e, "self">>, r)
    BY <1>3, <2>1 DEF DetectDividend, r
  <2>3. RowTyped(r)
    BY <2>1, Days1 DEF RowTyped, AllKinds, Amounts
  <2> QED
    BY <1>1, <2>2, <2>3
<1> QED
  BY <1>2, <1>3 DEF NewEvent

\* The row an update or a cancellation finds does not count, and the row it
\* leaves neither.
LEMMA RowReplaced ==
    ASSUME RowsTyped(events), NEW f \in DOMAIN events, NEW new, RowTyped(new),
           events = [k \in DOMAIN events |-> events[k]],
           events' = [events EXCEPT ![f] = new],
           NEW days, \A x \in days : ~Counts(events[f], x) /\ ~Counts(new, x)
    PROVE  RowsTyped(events') /\ \A x \in days : CarriesOver(events, events', x)
<1>1. /\ DOMAIN events' = DOMAIN events \cup {f} /\ events'[f] = new
      /\ \A k \in DOMAIN events : k # f => events'[k] = events[k]
  OBVIOUS
<1> QED
  BY <1>1, PutTyped, PutCarries

LEMMA UpdateEventTyped ==
    ASSUME NEW n, BookOK(events, snap, n), \A x \in SnapDays : x < n, RowsTyped(events),
           NEW e \in Events,
           NEW ent \in Days, NEW ex \in Days, NEW pay \in OptionalDates, NEW arrive \in OptionalDates,
           NEW qty \in PerShare \cup Adjustments, UpdateEvent(e, ent, ex, pay, arrive, qty)
    PROVE  RowsTyped(events') /\ \A x \in InStep(snap, n) : CarriesOver(events, events', x)
<1> DEFINE f == <<e, "self">>
           old == events[f]
           new == [old EXCEPT !.ent = ent, !.ex = ex, !.pay = pay, !.arrive = arrive, !.qty = qty]
<1>1. /\ f \in DOMAIN events /\ old.status # "confirmed" /\ ReceivableFree(old)
      /\ <<ent, ex, arrive>> # <<old.ent, old.ex, old.arrive>> => ValidDates(new, FALSE)
      /\ ValidArrive(new)
      /\ qty \in Amounts(old.kind)
      /\ events' = [events EXCEPT ![f] = new]
  BY DEF UpdateEvent, Confirmed
<1>2. RowOK(old, snap, n) /\ RowFit(old) /\ SnapDays \subseteq Nat
      /\ events = [k \in DOMAIN events |-> events[k]]
  BY <1>1, AllFit, ChainNumbers DEF BookOK, SnapDays
<1> DEFINE same == new = [old EXCEPT !.ent = ent, !.ex = ex, !.pay = pay, !.arrive = arrive, !.qty = qty]
<1>3. same
  OBVIOUS
<1> HIDE DEF new, old
<1>4. /\ new.status = old.status /\ new.kind = old.kind /\ new.platform = old.platform
      /\ new.base = old.base /\ new.qty = qty
      /\ new.ent = ent /\ new.ex = ex /\ new.pay = pay /\ new.arrive = arrive
  BY <1>2, <1>3 DEF RowFit, Shape
<1> HIDE DEF same
<1>5. RowTyped(new)
  <2>1. <<ent, ex, arrive>> # <<old.ent, old.ex, old.arrive>>
          => ent \in TradingDays /\ ex \in TradingDays
    BY <1>1, <1>4 DEF ValidDates
  <2>2. old.kind # "dividend_pending" => ent \in TradingDays /\ ex \in TradingDays
    BY <1>2, <2>1 DEF RowFit, RowTyped
  <2> QED
    BY <1>1, <1>2, <1>4, <2>2 DEF RowFit, RowTyped, OptionalDates, ValidArrive
<1>6. ASSUME NEW x \in InStep(snap, n)
      PROVE  ~Counts(old, x) /\ ~Counts(new, x)
  <2>0. x \in SnapDays /\ x \in Nat /\ x < n /\ ~snap[x].stale
    BY <1>2 DEF InStep, SnapDays
  <2>1. CASE old.status = "pending"
    <3>1. x # 0 => NotDue(old, x)
      BY <1>2, <2>0, <2>1 DEF RowOK, Ahead, SnapDays
    <3>2. ~Counts(old, x)
      BY <1>1, <1>2, <2>0, <2>1, <3>1, FreeAhead
    <3>3. CASE <<ent, ex, arrive>> # <<old.ent, old.ex, old.arrive>>
      <4>1. AfterLatest(ex) /\ ex \in Nat /\ x \in Nat
        BY <1>1, <1>2, <1>4, <2>0, <3>3, Days1 DEF ValidDates
      <4> QED
        BY <1>4, <2>0, <3>2, <4>1 DEF AfterLatest, Counts
    <3>4. CASE <<ent, ex, arrive>> = <<old.ent, old.ex, old.arrive>>
      <4>1. ex = old.ex
        BY <3>4
      <4> QED
        BY <1>4, <3>2, <4>1 DEF Counts
    <3> QED
      BY <3>3, <3>4
  <2>2. CASE old.status = "cancelled"
    BY <1>4, <2>2 DEF Counts
  <2> QED
    BY <1>1, <1>2, <2>1, <2>2 DEF RowFit, Shape
<1> QED
  BY <1>1, <1>2, <1>5, <1>6, RowReplaced DEF old

LEMMA CancelEventTyped ==
    ASSUME NEW n, BookOK(events, snap, n), \A x \in SnapDays : x < n, RowsTyped(events),
           NEW e \in Events, CancelEvent(e)
    PROVE  RowsTyped(events') /\ \A x \in InStep(snap, n) : CarriesOver(events, events', x)
<1> DEFINE f == <<e, "self">>
           old == events[f]
           new == [old EXCEPT !.status = "cancelled"]
<1>1. /\ f \in DOMAIN events /\ old.status = "pending" /\ events' = [events EXCEPT ![f] = new]
      /\ ReceivableFree(old)
  BY DEF CancelEvent, Pending
<1>2. RowOK(old, snap, n) /\ RowFit(old) /\ SnapDays \subseteq Nat
      /\ events = [k \in DOMAIN events |-> events[k]]
  BY <1>1, AllFit, ChainNumbers DEF BookOK, SnapDays
<1> DEFINE same == new = [old EXCEPT !.status = "cancelled"]
<1>3. same
  OBVIOUS
<1> HIDE DEF new, old
<1>4. /\ new.status = "cancelled" /\ new.kind = old.kind /\ new.platform = old.platform
      /\ new.base = old.base /\ new.qty = old.qty
      /\ new.ent = old.ent /\ new.ex = old.ex /\ new.pay = old.pay /\ new.arrive = old.arrive
  BY <1>2, <1>3 DEF RowFit, Shape
<1> HIDE DEF same
<1>5. RowTyped(new)
  BY <1>2, <1>4 DEF RowFit, RowTyped
<1>6. ASSUME NEW x \in InStep(snap, n)
      PROVE  ~Counts(old, x) /\ ~Counts(new, x)
  <2>0. x \in SnapDays /\ x \in Nat /\ x < n /\ ~snap[x].stale
    BY <1>2 DEF InStep, SnapDays
  <2>1. x # 0 => NotDue(old, x)
    BY <1>1, <1>2, <2>0 DEF RowOK, Ahead, SnapDays
  <2> QED
    BY <1>1, <1>2, <1>4, <2>0, <2>1, FreeAhead DEF Counts
<1> QED
  BY <1>1, <1>2, <1>5, <1>6, RowReplaced DEF old

\* The row that confirming r writes at key k of event e.
WrittenFor(s, k, e, r) ==
    /\ k \in RowKeys /\ k[1] = e
    /\ RowTyped(s) /\ s.status = "confirmed"
    /\ s.kind = r.kind /\ s.ent = r.ent /\ s.ex = r.ex /\ s.pay = r.pay /\ s.arrive = r.arrive
    /\ s.qty = r.qty
    /\ r.platform # "all" => k = <<e, "self">> /\ s.platform = r.platform

LEMMA SettledTyped ==
    ASSUME NEW r, RowTyped(r), NEW p, NEW base \in Nat, NEW s, SettledAs(s, r, p, base),
           p = "all" => r.platform = "all", r.kind # "dividend_pending"
    PROVE  RowTyped(s)
BY DEF SettledAs, RowTyped

LEMMA SplitSum ==
    ASSUME NEW chain, ChainTyped(chain), NEW d
    PROVE  Sum(LAMBDA p : StoredBase(chain, p, d), Holders(chain, d)) \in Nat
<1> DEFINE S == Holders(chain, d)
           F == [p \in S |-> StoredBase(chain, p, d)]
<1>1. S \in SUBSET Platforms
  BY DEF Holders
<1>2. IsFiniteSet(S)
  BY <1>1, PlatformAssumption, FS_Subset
<1>3. \A p \in S : F[p] \in Nat
  BY <1>1, StoredTyped
<1> HIDE DEF S, F
<1>4. SumFunctionOnSet(F, S) \in Nat
  BY <1>2, <1>3, SumNat
<1> QED
  BY <1>4 DEF Sum, F, S

LEMMA RowsOfWritten ==
    ASSUME NEW chain, ChainTyped(chain), NEW e \in Events, NEW r, RowFit(r), Confirmable(chain, r)
    PROVE  \A k \in DOMAIN RowsOf(chain, e, r) : WrittenFor(RowsOf(chain, e, r)[k], k, e, r)
<1> DEFINE f == <<e, "self">>
           new == RowsOf(chain, e, r)
<1>1. /\ f \in RowKeys /\ f[1] = e /\ r.platform \in Platforms \cup {"all"} /\ ~Child(f)
      /\ Shape(r) /\ RowTyped(r) /\ r.kind # "dividend_pending"
  BY Keys DEF RowFit, Shape, Confirmable
<1>2. CASE r.platform = "all"
  <2>1. /\ DOMAIN new = {f} \cup {<<e, p>> : p \in Holders(chain, r.ent)}
    BY <1>2 DEF RowsOf, SplitRows
  <2>2. \A p \in Holders(chain, r.ent) : /\ p \in Platforms /\ <<e, p>>[1] = e /\ <<e, p>>[2] = p
                                         /\ <<e, p>> \in RowKeys /\ Child(<<e, p>>)
    BY Keys DEF Holders
  <2>3. WrittenFor(new[f], f, e, r)
    <3> DEFINE base == Sum(LAMBDA p : StoredBase(chain, p, r.ent), Holders(chain, r.ent))
    <3>1. new[f] = [r EXCEPT !.status = "confirmed", !.base = base]
      BY <1>1, <1>2 DEF RowsOf, SplitRows
    <3>2. base \in Nat
      BY SplitSum
    <3> HIDE DEF new, base
    <3>3. SettledAs(new[f], r, "all", base)
      BY <1>1, <1>2, <3>1, SamePlatform, SettledFrom
    <3>4. RowTyped(new[f])
      BY <1>1, <1>2, <3>2, <3>3, SettledTyped
    <3> QED
      BY <1>1, <1>2, <3>3, <3>4 DEF SettledAs, WrittenFor
  <2>4. ASSUME NEW p \in Holders(chain, r.ent)
        PROVE  WrittenFor(new[<<e, p>>], <<e, p>>, e, r)
    <3> DEFINE base == StoredBase(chain, p, r.ent)
    <3>1. new[<<e, p>>] = ConfirmedRow(chain, [r EXCEPT !.platform = p])
      BY <1>2, <2>2 DEF RowsOf, SplitRows
    <3>2. base \in Nat /\ p # "all"
      BY <2>2, StoredTyped, NameAssumption
    <3> HIDE DEF new
    <3>3. [r EXCEPT !.platform = p].platform = p /\ [r EXCEPT !.platform = p].ent = r.ent
      BY <1>1 DEF Shape
    <3>4. new[<<e, p>>] = [[r EXCEPT !.platform = p]
                             EXCEPT !.status = "confirmed", !.base = base]
      BY <3>1, <3>3 DEF ConfirmedRow
    <3> HIDE DEF base
    <3>5. SettledAs(new[<<e, p>>], r, p, base)
      BY <1>1, <3>4, SettledFrom
    <3>6. RowTyped(new[<<e, p>>])
      BY <1>1, <3>2, <3>5, SettledTyped
    <3> QED
      BY <1>2, <2>2, <3>5, <3>6 DEF SettledAs, WrittenFor
  <2> HIDE DEF new
  <2>5. ASSUME NEW k \in DOMAIN new
        PROVE  WrittenFor(new[k], k, e, r)
    BY <2>1, <2>3, <2>4
  <2> QED
    BY <2>5 DEF new
<1>3. CASE r.platform # "all"
  <2>1. DOMAIN new = {f} /\ new[f] = ConfirmedRow(chain, r)
    BY <1>3 DEF RowsOf
  <2>2. SettledAs(ConfirmedRow(chain, r), r, r.platform, StoredBase(chain, r.platform, r.ent))
    BY <1>1 DEF ConfirmedRow, Shape, SettledAs
  <2>3. StoredBase(chain, r.platform, r.ent) \in Nat
    BY <1>1, <1>3, StoredTyped
  <2>4. RowTyped(ConfirmedRow(chain, r))
    BY <1>1, <2>2, <2>3, SettledTyped
  <2>5. WrittenFor(ConfirmedRow(chain, r), f, e, r)
    BY <1>1, <2>2, <2>4 DEF SettledAs, WrittenFor
  <2> QED
    BY <2>1, <2>5
<1> QED
  BY <1>2, <1>3

\* What is written for pending events joins the table.
LEMMA ConfirmedTyped ==
    ASSUME NEW rows, RowsTyped(rows), DOMAIN rows \subseteq RowKeys, NEW new,
           \A k \in DOMAIN new : /\ k \in RowKeys /\ RowTyped(new[k])
                                 /\ <<k[1], "self">> \in DOMAIN rows
    PROVE  RowsTyped(PutAll(rows, new))
<1> DEFINE joined == PutAll(rows, new)
           es == {k[1] : k \in DOMAIN rows}
           box == es \X (Platforms \cup {"self"})
<1>1. /\ DOMAIN joined = DOMAIN new \cup DOMAIN rows
      /\ \A k \in DOMAIN new : joined[k] = new[k]
      /\ \A k \in DOMAIN rows \ DOMAIN new : joined[k] = rows[k]
  BY DEF PutAll
<1>2. IsFiniteSet(es)
  <2> DEFINE f == [k \in DOMAIN rows |-> k[1]]
  <2>1. f \in Surjection(DOMAIN rows, es)
    BY DEF Surjection
  <2> HIDE DEF f, es
  <2> QED
    BY <2>1, FS_Surjection DEF RowsTyped
<1>3. IsFiniteSet(Platforms \cup {"self"})
  BY PlatformAssumption, FS_AddElement
<1>4. IsFiniteSet(box)
  <2> HIDE DEF es
  <2> QED BY <1>2, <1>3, FS_Product
<1>5. DOMAIN new \subseteq box
  <2> SUFFICES ASSUME NEW k \in DOMAIN new PROVE k \in box
    OBVIOUS
  <2>1. k \in RowKeys /\ <<k[1], "self">> \in DOMAIN rows
    OBVIOUS
  <2>2. k[1] = <<k[1], "self">>[1]
    BY Keys
  <2>3. k[1] \in es
    BY <2>1, <2>2
  <2>4. k = <<k[1], k[2]>> /\ k[2] \in Platforms \cup {"self"}
    BY <2>1 DEF RowKeys
  <2> HIDE DEF es
  <2> QED BY <2>3, <2>4
<1>6. IsFiniteSet(DOMAIN joined)
  <2> HIDE DEF box, joined
  <2>1. IsFiniteSet(DOMAIN new)
    BY <1>4, <1>5, FS_Subset
  <2> QED BY <1>1, <2>1, FS_Union DEF RowsTyped
<1> HIDE DEF joined, box, es
<1>7. \A k \in DOMAIN joined : RowTyped(joined[k])
  BY <1>1 DEF RowsTyped
<1> QED
  BY <1>6, <1>7 DEF RowsTyped, joined

LEMMA ConfirmedCarries ==
    ASSUME NEW rows, NEW chain, NEW n, BookOK(rows, chain, n), RowsTyped(rows),
           NEW x \in InStep(chain, n), x \in Nat, NEW new,
           \A k \in DOMAIN new :
              LET parent == <<k[1], "self">>
              IN  /\ k \in RowKeys
                  /\ parent \in DOMAIN rows /\ rows[parent].status = "pending"
                  /\ new[k].ex = rows[parent].ex
                  /\ rows[parent].platform # "all" => k = parent
                  /\ k = parent /\ Counts(rows[k], x) => Alike(rows[k], new[k], x)
    PROVE  CarriesOver(rows, PutAll(rows, new), x)
<1> DEFINE joined == PutAll(rows, new)
<1>1. /\ DOMAIN joined = DOMAIN new \cup DOMAIN rows
      /\ \A k \in DOMAIN new : joined[k] = new[k]
      /\ \A k \in DOMAIN rows \ DOMAIN new : joined[k] = rows[k]
  BY DEF PutAll
<1> HIDE DEF joined
<1>2. ASSUME NEW k \in DOMAIN rows, Counts(rows[k], x)
      PROVE  k \in DOMAIN joined /\ Alike(rows[k], joined[k], x)
  <2>1. CASE k \notin DOMAIN new
    BY <1>1, <1>2, <2>1, SameAlike
  <2>2. CASE k \in DOMAIN new
    <3>1. ParentOK(rows, k) /\ k \in RowKeys
      BY DEF BookOK
    <3>2. k = <<k[1], "self">>
      BY <2>2, <3>1, Keys DEF ParentOK
    <3>3. Alike(rows[k], new[k], x)
      BY <1>2, <2>2, <3>2
    <3> QED
      BY <1>1, <2>2, <3>3
  <2> QED
    BY <2>1, <2>2
<1>3. ASSUME NEW k \in DOMAIN joined, Counts(joined[k], x)
      PROVE  k \in DOMAIN rows /\ Counts(rows[k], x)
  <2>1. CASE k \notin DOMAIN new
    BY <1>1, <1>3, <2>1
  <2>2. CASE k \in DOMAIN new
    <3> DEFINE r == rows[<<k[1], "self">>]
    <3>1. /\ <<k[1], "self">> \in DOMAIN rows /\ r.status = "pending" /\ new[k].ex = r.ex
          /\ r.platform # "all" => k = <<k[1], "self">>
      BY <2>2
    <3> HIDE DEF r
    <3>2. RowFit(r) /\ RowOK(r, chain, n)
      BY <3>1, AllFit DEF BookOK, r
    <3>3. r.ex <= x /\ r.ex \in Nat /\ r.ex > 0
      BY <1>1, <1>3, <2>2, <3>1, <3>2, Days1 DEF Counts, RowFit, RowTyped
    <3>4. NotDue(r, x)
      BY <3>1, <3>2, <3>3 DEF RowOK, Ahead, InStep
    <3>5. r.platform # "all"
      BY <3>1, <3>2, <3>3, <3>4, PendingUnderWay
    <3> QED
      BY <3>1, <3>3, <3>5 DEF Counts, r
  <2> QED
    BY <2>1, <2>2
<1> QED
  BY <1>2, <1>3 DEF CarriesOver, joined

\* An event confirmed as it is keeps what it gives.
LEMMA WrittenAlike ==
    ASSUME NEW rows, NEW chain, NEW n, BookOK(rows, chain, n), RowsTyped(rows),
           NEW x \in InStep(chain, n), x \in Nat, NEW e, <<e, "self">> \in DOMAIN rows,
           rows[<<e, "self">>].status = "pending", Counts(rows[<<e, "self">>], x),
           NEW s, Shape(s), Dated(s), WrittenFor(s, <<e, "self">>, e, rows[<<e, "self">>])
    PROVE  Alike(rows[<<e, "self">>], s, x)
<1> DEFINE r == rows[<<e, "self">>]
<1>1. RowFit(r) /\ RowOK(r, chain, n)
  BY AllFit DEF BookOK
<1> HIDE DEF r
<1>2. r.status = "pending" /\ Counts(r, x) /\ WrittenFor(s, <<e, "self">>, e, r)
  BY DEF r
<1>3. r.ex <= x /\ r.ex \in Nat /\ r.ex > 0
  BY <1>1, <1>2, Days1 DEF Counts, RowFit, RowTyped
<1>4. NotDue(r, x)
  BY <1>1, <1>2, <1>3 DEF RowOK, Ahead, InStep
<1>5. /\ s.platform = r.platform /\ s.ent = r.ent /\ s.ex = r.ex /\ s.qty = r.qty
      /\ s.kind = r.kind /\ s.pay = r.pay /\ s.arrive = r.arrive /\ s.status = "confirmed"
      /\ RowFit(s)
  BY <1>2 DEF WrittenFor, Counts, RowFit
<1>6. Alike(r, s, x)
  BY <1>1, <1>2, <1>4, <1>5, ConfirmedAlike
<1> QED
  BY <1>6 DEF r

LEMMA ConfirmTyped ==
    ASSUME NEW n, BookOK(events, snap, n), RowsTyped(events), ChainTyped(snap),
           \A x \in SnapDays : x \in Nat /\ x < n,
           NEW e \in Events, <<e, "self">> \in Pending,
           NEW r, RowFit(r), Confirmable(snap, r), r.ex = events[<<e, "self">>].ex,
           r.platform = events[<<e, "self">>].platform,
           \/ r = events[<<e, "self">>]
           \/ \A x \in InStep(snap, n) : ~Counts(events[<<e, "self">>], x)
           \/ /\ SameDayPending(events[<<e, "self">>]) /\ r.ent = events[<<e, "self">>].ent
              /\ r.qty = events[<<e, "self">>].qty
              /\ r.kind \in {"cash_dividend", "reinvest_dividend"}
    PROVE  LET new == PutAll(events, RowsOf(snap, e, r))
           IN  RowsTyped(new) /\ \A x \in InStep(snap, n) : CarriesOver(events, new, x)
<1> DEFINE new == RowsOf(snap, e, r)
           f == <<e, "self">>
           old == events[f]
<1>1. \A k \in DOMAIN new : WrittenFor(new[k], k, e, r)
  BY RowsOfWritten
<1>2. Settled(new, e, r, snap)
  BY RowsOfSettles DEF RowFit
<1>3. f \in DOMAIN events /\ old.status = "pending" /\ f[1] = e /\ DOMAIN events \subseteq RowKeys
  BY Keys DEF Pending, BookOK
<1>4. RowFit(old) /\ RowOK(old, snap, n)
  BY <1>3, AllFit DEF BookOK
<1> HIDE DEF new
<1>5. \A k \in DOMAIN new : /\ k \in RowKeys /\ RowTyped(new[k]) /\ <<k[1], "self">> = f
                            /\ new[k].ex = old.ex /\ (old.platform # "all" => k = f)
                            /\ Shape(new[k]) /\ Dated(new[k])
  BY <1>1, <1>2 DEF WrittenFor, Settled, SettledRow
<1>6. RowsTyped(PutAll(events, new))
  BY <1>3, <1>5, ConfirmedTyped
<1>7. ASSUME NEW x \in InStep(snap, n), f \in DOMAIN new, Counts(old, x)
      PROVE  Alike(old, new[f], x)
  <2>1. WrittenFor(new[f], f, e, r) /\ RowFit(new[f])
    BY <1>1, <1>5, <1>7 DEF RowFit, WrittenFor
  <2>2. x \in Nat /\ x < n /\ x \in DOMAIN snap /\ ~snap[x].stale
    BY DEF InStep, SnapDays
  <2>3. CASE r = old
    BY <1>3, <1>7, <2>1, <2>2, <2>3, WrittenAlike DEF RowFit
  <2>4. CASE SameDayPending(old) /\ r.kind \in {"cash_dividend", "reinvest_dividend"}
             /\ r.ent = old.ent /\ r.qty = old.qty
    <3>1. old.ex <= x /\ old.ex > 0 /\ old.ex \in Nat /\ old.platform # "all"
      BY <1>4, <1>7, Days1 DEF Counts, RowFit, RowTyped
    <3>2. NotDue(old, x)
      BY <1>3, <1>4, <2>2, <3>1 DEF RowOK, Ahead
    <3>3. /\ new[f].kind = r.kind /\ new[f].status = "confirmed"
          /\ new[f].platform = old.platform /\ new[f].ent = old.ent /\ new[f].ex = old.ex
          /\ new[f].qty = old.qty
      BY <2>1, <2>4, <3>1 DEF WrittenFor
    <3> HIDE DEF old
    <3> QED
      BY <1>3, <1>4, <1>7, <2>1, <2>2, <2>4, <3>2, <3>3, ConfirmedAlike
  <2> QED
    BY <1>7, <2>3, <2>4
<1>8. ASSUME NEW x \in InStep(snap, n)
      PROVE  CarriesOver(events, PutAll(events, new), x)
  <2>1. x \in Nat
    BY DEF InStep, SnapDays
  <2>2. \A k \in DOMAIN new :
              LET parent == <<k[1], "self">>
              IN  /\ k \in RowKeys
                  /\ parent \in DOMAIN events /\ events[parent].status = "pending"
                  /\ new[k].ex = events[parent].ex
                  /\ events[parent].platform # "all" => k = parent
                  /\ k = parent /\ Counts(events[k], x) => Alike(events[k], new[k], x)
    BY <1>3, <1>5, <1>7
  <2> QED
    BY <2>1, <2>2, ConfirmedCarries
<1> QED
  BY <1>6, <1>8 DEF new

LEMMA ConfirmEventTyped ==
    ASSUME NEW n, BookOK(events, snap, n), RowsTyped(events), ChainTyped(snap),
           \A x \in SnapDays : x \in Nat /\ x < n, NEW e \in Events, ConfirmEvent(e)
    PROVE  RowsTyped(events') /\ \A x \in InStep(snap, n) : CarriesOver(events, events', x)
<1> DEFINE r == events[<<e, "self">>]
<1>1. /\ <<e, "self">> \in Pending /\ <<e, "self">> \in DOMAIN events
      /\ Confirmable(snap, r) /\ events' = PutAll(events, RowsOf(snap, e, r))
  BY DEF ConfirmEvent, Pending
<1>2. RowFit(r)
  BY <1>1, AllFit
<1> QED
  BY <1>1, <1>2, ConfirmTyped

LEMMA ConfirmWithChoiceTyped ==
    ASSUME NEW n, BookOK(events, snap, n), RowsTyped(events), ChainTyped(snap),
           \A x \in SnapDays : x \in Nat /\ x < n, NEW e \in Events,
           NEW kind \in {"cash_dividend", "reinvest_dividend"},
           NEW pay \in OptionalDates, NEW arrive \in OptionalDates,
           ConfirmWithChoice(e, kind, pay, arrive)
    PROVE  RowsTyped(events') /\ \A x \in InStep(snap, n) : CarriesOver(events, events', x)
<1> DEFINE f == <<e, "self">>
           old == events[f]
           new == [old EXCEPT !.kind = kind, !.pay = pay, !.arrive = arrive]
<1>1. /\ f \in Pending /\ f \in DOMAIN events /\ Dividend(old)
      /\ new # old /\ ~SameDayPending(old) => ReceivableFree(old)
      /\ new # old => ValidDates(new, SameDayPending(old))
      /\ ValidArrive(new) /\ ValidPay(new)
      /\ Confirmable(snap, new) /\ events' = PutAll(events, RowsOf(snap, e, new))
  BY DEF ConfirmWithChoice, Pending
<1>2. RowFit(old) /\ RowOK(old, snap, n) /\ old.status = "pending"
  BY <1>1, AllFit DEF BookOK, Pending
<1> DEFINE same == new = [old EXCEPT !.kind = kind, !.pay = pay, !.arrive = arrive]
<1>3. same
  OBVIOUS
<1> HIDE DEF new, old
<1>4. /\ new.status = old.status /\ new.kind = kind /\ new.platform = old.platform
      /\ new.base = old.base /\ new.qty = old.qty
      /\ new.ent = old.ent /\ new.ex = old.ex /\ new.pay = pay /\ new.arrive = arrive
  BY <1>2, <1>3 DEF RowFit, Shape
<1>5. pay \in Nat /\ arrive \in Nat
  BY Numbers DEF OptionalDates
<1>6. Shape(new)
  BY <1>2, <1>3, <1>5 DEF RowFit, Shape
<1> HIDE DEF same
<1>7. Dated(new)
  <2>1. new.ent \in Nat /\ new.ex \in Nat
    BY <1>6 DEF Shape
  <2>2. CASE new # old
    BY <1>1, <2>1, <2>2 DEF Dated, ValidDates
  <2>3. CASE new = old
    BY <1>2, <2>3 DEF RowFit
  <2> QED
    BY <2>2, <2>3
<1>8. RowTyped(new)
  <2>1. new.qty \in Amounts(new.kind) /\ new.platform # "all"
    BY <1>1, <1>2, <1>4 DEF RowFit, RowTyped, Dividend, Amounts
  <2>2. new.ent \in TradingDays /\ new.ex \in TradingDays
    <3>1. CASE new # old
      BY <1>1, <3>1 DEF ValidDates
    <3>2. CASE new = old
      BY <1>2, <1>4, <3>2 DEF RowFit, RowTyped
    <3> QED
      BY <3>1, <3>2
  <2>3. kind \in AllKinds
    BY DEF AllKinds
  <2> QED
    BY <1>1, <1>2, <1>4, <2>1, <2>2, <2>3 DEF RowFit, RowTyped, OptionalDates, ValidArrive
<1>9. RowFit(new)
  BY <1>6, <1>7, <1>8 DEF RowFit
<1>10. CASE SameDayPending(old)
  <2>1. new.kind \in {"cash_dividend", "reinvest_dividend"}
    BY <1>4
  <2> QED
    BY <1>1, <1>4, <1>9, <1>10, <2>1, ConfirmTyped DEF old
<1>11. CASE new = old
  BY <1>1, <1>9, <1>11, ConfirmTyped DEF old
<1>12. CASE new # old /\ ~SameDayPending(old)
  <2>1. \A x \in InStep(snap, n) : ~Counts(old, x)
    <3> SUFFICES ASSUME NEW x \in InStep(snap, n) PROVE ~Counts(old, x)
      OBVIOUS
    <3>1. x \in SnapDays /\ x \in Nat /\ x < n /\ ~snap[x].stale
      BY DEF InStep, SnapDays
    <3>2. x # 0 => NotDue(old, x)
      BY <1>2, <3>1 DEF RowOK, Ahead, SnapDays
    <3> QED
      BY <1>1, <1>2, <1>12, <3>1, <3>2, FreeAhead
  <2> QED
    BY <1>1, <1>4, <1>9, <2>1, ConfirmTyped DEF old
<1> QED
  BY <1>10, <1>11, <1>12

\* Taking events back whose ex date lies after day x.
LEMMA WithdrawnTyped ==
    ASSUME RowsTyped(events), NEW n, BookOK(events, snap, n), NEW es
    PROVE  RowsTyped(Withdrawn(es))
<1> DEFINE w == Withdrawn(es)
<1>1. /\ DOMAIN w = {j \in DOMAIN events : ~Child(j) \/ j[1] \notin es}
      /\ \A k \in DOMAIN w : k[1] \notin es => w[k] = events[k]
      /\ \A k \in DOMAIN w : k[1] \in es =>
            w[k] = [events[k] EXCEPT !.status = "pending", !.base = 0]
  BY DEF Withdrawn
<1> HIDE DEF w
<1>2. IsFiniteSet(DOMAIN w)
  BY <1>1, FS_Subset DEF RowsTyped
<1>3. ASSUME NEW k \in DOMAIN w
      PROVE  RowTyped(w[k])
  <2>1. RowFit(events[k])
    BY <1>1, AllFit
  <2>2. CASE k[1] \notin es
    BY <1>1, <2>1, <2>2 DEF RowFit
  <2>3. CASE k[1] \in es
    <3>1. /\ w[k].status = "pending" /\ w[k].base = 0
          /\ w[k].kind = events[k].kind /\ w[k].platform = events[k].platform
          /\ w[k].qty = events[k].qty /\ w[k].ent = events[k].ent /\ w[k].ex = events[k].ex
          /\ w[k].pay = events[k].pay /\ w[k].arrive = events[k].arrive
      <4> DEFINE r == events[k]
      <4>1. w[k] = [r EXCEPT !.status = "pending", !.base = 0] /\ Shape(r)
        BY <1>1, <2>1, <2>3 DEF RowFit
      <4> HIDE DEF r
      <4>2. /\ w[k].status = "pending" /\ w[k].base = 0
            /\ w[k].kind = r.kind /\ w[k].platform = r.platform
            /\ w[k].qty = r.qty /\ w[k].ent = r.ent /\ w[k].ex = r.ex
            /\ w[k].pay = r.pay /\ w[k].arrive = r.arrive
        BY <4>1 DEF Shape
      <4> QED
        BY <4>2 DEF r
    <3> QED
      BY <2>1, <3>1 DEF RowFit, RowTyped
  <2> QED
    BY <2>2, <2>3
<1> QED
  BY <1>2, <1>3 DEF RowsTyped, w

LEMMA WithdrawnCarries ==
    ASSUME RowsTyped(events), NEW n, BookOK(events, snap, n), NEW es, NEW x \in Nat,
           \A e \in es : <<e, "self">> \in DOMAIN events => events[<<e, "self">>].ex > x
    PROVE  CarriesOver(events, Withdrawn(es), x)
<1> DEFINE w == Withdrawn(es)
<1>1. /\ DOMAIN w = {j \in DOMAIN events : ~Child(j) \/ j[1] \notin es}
      /\ \A k \in DOMAIN w : k[1] \notin es => w[k] = events[k]
      /\ \A k \in DOMAIN w : k[1] \in es =>
            w[k] = [events[k] EXCEPT !.status = "pending", !.base = 0]
  BY DEF Withdrawn
<1> HIDE DEF w
<1>2. ASSUME NEW k \in DOMAIN events, k[1] \in es
      PROVE  events[k].ex > x /\ events[k].ex \in Nat
  <2>1. k \in RowKeys /\ ParentOK(events, k) /\ Shape(events[k])
    BY DEF BookOK, RowOK
  <2>2. <<k[1], "self">> \in DOMAIN events /\ events[k].ex = events[<<k[1], "self">>].ex
    BY <2>1, Keys DEF ParentOK
  <2> QED
    BY <1>2, <2>1, <2>2 DEF Shape
<1>3. ASSUME NEW k \in DOMAIN events, Counts(events[k], x)
      PROVE  k \in DOMAIN w /\ Alike(events[k], w[k], x)
  <2>1. k[1] \notin es
    BY <1>2, <1>3 DEF Counts
  <2> QED
    BY <1>1, <1>3, <2>1, SameAlike
<1>4. ASSUME NEW k \in DOMAIN w, Counts(w[k], x)
      PROVE  k \in DOMAIN events /\ Counts(events[k], x)
  <2>1. k[1] \notin es
    <3> SUFFICES ASSUME k[1] \in es PROVE FALSE
      OBVIOUS
    <3>1. k \in DOMAIN events /\ events[k].ex > x /\ events[k].ex \in Nat /\ Shape(events[k])
      BY <1>1, <1>2 DEF BookOK, RowOK
    <3>2. w[k].ex = events[k].ex
      BY <1>1, <3>1 DEF Shape
    <3> QED
      BY <1>4, <3>1, <3>2 DEF Counts
  <2> QED
    BY <1>1, <1>4, <2>1
<1> QED
  BY <1>3, <1>4 DEF CarriesOver, w

LEMMA AutoConfirmedTyped ==
    ASSUME NEW rows, NEW chain, NEW n, BookOK(rows, chain, n), RowsTyped(rows), ChainTyped(chain),
           NEW l
    PROVE  LET new == AutoConfirmed(rows, chain, l)
           IN  /\ RowsTyped(new)
               /\ \A x \in InStep(chain, n) : x \in Nat => CarriesOver(rows, new, x)
<1> DEFINE next == {c \in TradingDays : IsTradingDaysAfter(l, 1, c) /\ c <= today}
           self(e) == rows[<<e, "self">>]
           done == {e \in UNION {Due(rows, l, c) : c \in next} : Confirmable(chain, self(e))}
           new == [k \in UNION {DOMAIN RowsOf(chain, e, self(e)) : e \in done} |->
                     RowsOf(chain, k[1], self(k[1]))[k]]
<1>1. AutoConfirmed(rows, chain, l) = PutAll(rows, new)
  BY DEF AutoConfirmed
<1>2. \A e \in done : /\ e \in Events /\ <<e, "self">> \in DOMAIN rows
                      /\ self(e).status = "pending" /\ Confirmable(chain, self(e))
  BY DEF Due
<1>3. /\ DOMAIN new = UNION {DOMAIN RowsOf(chain, e, self(e)) : e \in done}
      /\ \A k \in DOMAIN new : new[k] = RowsOf(chain, k[1], self(k[1]))[k]
  OBVIOUS
<1> HIDE DEF done, new
<1>4. DOMAIN rows \subseteq RowKeys
  BY DEF BookOK
<1>5. ASSUME NEW k \in DOMAIN new
      PROVE  LET e == k[1]
             IN  /\ e \in done /\ WrittenFor(new[k], k, e, self(e)) /\ Shape(new[k]) /\ Dated(new[k])
  <2>1. PICK e \in done : k \in DOMAIN RowsOf(chain, e, self(e))
    BY <1>3
  <2>2. RowFit(self(e)) /\ Confirmable(chain, self(e)) /\ e \in Events
    BY <1>2, <2>1, AllFit
  <2>3. WrittenFor(RowsOf(chain, e, self(e))[k], k, e, self(e))
    BY <2>1, <2>2, RowsOfWritten
  <2>4. Settled(RowsOf(chain, e, self(e)), e, self(e), chain)
    BY <2>2, RowsOfSettles DEF RowFit
  <2>5. k[1] = e /\ SettledRow(RowsOf(chain, e, self(e))[k], self(e), chain)
    BY <2>1, <2>4 DEF Settled
  <2>6. new[k] = RowsOf(chain, e, self(e))[k]
    BY <1>3, <2>5
  <2> QED
    BY <2>1, <2>3, <2>5, <2>6 DEF SettledRow
<1>6. \A k \in DOMAIN new : k \in RowKeys /\ RowTyped(new[k]) /\ <<k[1], "self">> \in DOMAIN rows
  BY <1>2, <1>5 DEF WrittenFor
<1>7. RowsTyped(PutAll(rows, new))
  BY <1>4, <1>6, ConfirmedTyped
<1>8. ASSUME NEW x \in InStep(chain, n), x \in Nat
      PROVE  CarriesOver(rows, PutAll(rows, new), x)
  <2>1. ASSUME NEW k \in DOMAIN new
        PROVE  LET parent == <<k[1], "self">>
              IN  /\ k \in RowKeys
                  /\ parent \in DOMAIN rows /\ rows[parent].status = "pending"
                  /\ new[k].ex = rows[parent].ex
                  /\ rows[parent].platform # "all" => k = parent
                  /\ k = parent /\ Counts(rows[k], x) => Alike(rows[k], new[k], x)
    <3> DEFINE e == k[1]
               parent == <<e, "self">>
    <3>1. /\ parent \in DOMAIN rows /\ rows[parent].status = "pending"
          /\ WrittenFor(new[k], k, e, rows[parent]) /\ Shape(new[k]) /\ Dated(new[k])
      BY <1>2, <1>5
    <3>2. k = parent /\ Counts(rows[parent], x) => Alike(rows[parent], new[k], x)
      BY <1>8, <3>1, WrittenAlike
    <3> QED
      BY <3>1, <3>2 DEF WrittenFor
  <2> QED
    BY <1>8, <2>1, ConfirmedCarries
<1> QED
  BY <1>1, <1>7, <1>8

-----------------------------------------------------------------------------
(* The books after a step                                                  *)

LEMMA SameSelf ==
    ASSUME NEW rows, NEW chain, NEW x
    PROVE  SameBase(rows, chain, chain, x) /\ SameDayIn(chain, chain, x)
BY DEF SameBase, SameDayIn

LEMMA CarriesSelf ==
    ASSUME NEW rows, NEW x
    PROVE  CarriesOver(rows, rows, x)
BY SameAlike DEF CarriesOver

\* The days in step afterwards were so before, and say what they said.
LEMMA BooksCarried ==
    ASSUME NEW rows, NEW chain, NEW n, Books(rows, chain, n), NEW k, BookOK(rows, chain, k),
           NEW new, NEW other, NEW l, NEW m, BookOK(new, other, l),
           RowsTyped(new), ChainTyped(other), StepsBack(other, m),
           \A x \in InStep(other, m) : /\ x \in Nat /\ x \in InStep(chain, n)
                                       /\ CarriesOver(rows, new, x)
                                       /\ SameBase(rows, chain, other, x)
                                       /\ SameDayIn(chain, other, x)
    PROVE  Books(new, other, m)
<1>1. RowsTyped(rows) /\ \A j \in DOMAIN rows : RowFit(rows[j])
  BY AllFit DEF Books
<1>2. \A j \in DOMAIN new : RowFit(new[j])
  BY AllFit
<1>3. ASSUME NEW x \in InStep(other, m)
      PROVE  Replays(new, other, x)
  <2>1. /\ Replays(rows, chain, x) /\ x \in Nat /\ CarriesOver(rows, new, x)
        /\ SameBase(rows, chain, other, x) /\ SameDayIn(chain, other, x)
    BY DEF Books
  <2> QED
    BY <1>1, <1>2, <2>1, CarriedReplays
<1> QED
  BY <1>3 DEF Books

LEMMA BooksNarrowed ==
    ASSUME NEW rows, NEW chain, NEW n, Books(rows, chain, n), NEW m,
           \A d \in DOMAIN chain : d < m => d < n
    PROVE  Books(rows, chain, m)
BY DEF Books, StepsBack, InStep

\* A request that leaves the chain alone.
LEMMA BooksKept ==
    ASSUME NEW n, Books(events, snap, n), BookOK(events, snap, n), SnapDays \subseteq Nat,
           NEW new, BookOK(new, snap, n), RowsTyped(new),
           \A x \in InStep(snap, n) : CarriesOver(events, new, x)
    PROVE  Books(new, snap, n)
<1>1. \A x \in InStep(snap, n) : /\ x \in Nat /\ CarriesOver(events, new, x)
                                /\ SameBase(events, snap, snap, x) /\ SameDayIn(snap, snap, x)
  BY SameSelf DEF InStep, SnapDays
<1>2. ChainTyped(snap) /\ StepsBack(snap, n)
  BY DEF Books
<1> QED
  BY <1>1, <1>2, BooksCarried

\* A deletion marks the days that had counted what it takes away.
LEMMA DeleteEventBooks ==
    ASSUME NEW n, Books(events, snap, n), BookOK(events, snap, n),
           \A x \in SnapDays : x \in Nat /\ x < n, NEW k, DeleteEvent(k)
    PROVE  Books(events', snap', n)
<1> DEFINE gone == {k} \cup (IF Child(k) THEN {} ELSE ChildrenOf(k[1]))
<1>1. /\ k \in DOMAIN events /\ ReceivableFree(events[k])
      /\ events' = Drop(events, gone)
      /\ snap' = [d \in SnapDays |->
                    IF k \in Confirmed /\ d >= events[k].ex
                    THEN [snap[d] EXCEPT !.stale = TRUE] ELSE snap[d]]
  BY DEF DeleteEvent
<1>2. BookOK(events', snap', n) /\ DOMAIN snap' = SnapDays
  BY DeleteEventKeeps DEF SnapDays
<1>3. DOMAIN events' = DOMAIN events \ gone /\ \A j \in DOMAIN events' : events'[j] = events[j]
  BY <1>1 DEF Drop
<1>4. RowsTyped(events')
  <2>1. IsFiniteSet(DOMAIN events')
    BY <1>3, FS_Subset DEF Books, RowsTyped
  <2> QED
    BY <1>3, <2>1 DEF Books, RowsTyped
<1>5. ASSUME NEW d \in SnapDays
      PROVE  /\ DayTyped(snap[d]) /\ DayTyped(snap'[d])
             /\ snap'[d].shares = snap[d].shares /\ snap'[d].cash = snap[d].cash
             /\ snap'[d].transit = snap[d].transit /\ snap'[d].dropped = snap[d].dropped
             /\ ~snap'[d].stale <=> (~snap[d].stale /\ ~(k \in Confirmed /\ d >= events[k].ex))
  <2>1. DayTyped(snap[d])
    BY DEF Books, ChainTyped, SnapDays
  <2>2. CASE k \in Confirmed /\ d >= events[k].ex
    <3>1. snap'[d] = [snap[d] EXCEPT !.stale = TRUE]
      BY <1>1, <2>2
    <3> QED
      BY <2>1, <2>2, <3>1 DEF DayTyped
  <2>3. CASE ~(k \in Confirmed /\ d >= events[k].ex)
    <3>1. snap'[d] = snap[d]
      BY <1>1, <2>3
    <3> QED
      BY <2>1, <2>3, <3>1
  <2> QED
    BY <2>2, <2>3
<1>6. ChainTyped(snap')
  BY <1>2, <1>5 DEF ChainTyped
<1>7. RowFit(events[k]) /\ RowOK(events[k], snap, n) /\ k \in RowKeys /\ events[k].ex \in Nat
  <2>1. RowFit(events[k])
    BY <1>1, AllFit DEF Books
  <2>2. RowOK(events[k], snap, n) /\ k \in RowKeys
    BY <1>1 DEF BookOK
  <2> QED
    BY <2>1, <2>2 DEF RowFit, Shape
<1>8. StepsBack(snap', n)
  <2> SUFFICES ASSUME NEW d \in InStep(snap', n), NEW b \in SnapDays, b < d PROVE ~snap'[b].stale
    BY <1>2 DEF StepsBack
  <2>1. d \in SnapDays /\ ~snap'[d].stale /\ d < n /\ d \in Nat /\ b \in Nat
    BY <1>2 DEF InStep
  <2>2. ~snap[d].stale /\ ~(k \in Confirmed /\ d >= events[k].ex)
    BY <1>5, <2>1
  <2>3. ~snap[b].stale
    BY <2>1, <2>2 DEF Books, StepsBack, InStep, SnapDays
  <2>4. ~(k \in Confirmed /\ b >= events[k].ex)
    BY <1>7, <2>1, <2>2
  <2> QED
    BY <1>5, <2>3, <2>4
<1>9. ASSUME NEW x \in InStep(snap', n)
      PROVE  /\ x \in Nat /\ x \in InStep(snap, n)
             /\ SameBase(events, snap, snap', x) /\ SameDayIn(snap, snap', x)
             /\ CarriesOver(events, events', x)
  <2>1. x \in SnapDays /\ ~snap'[x].stale /\ x < n /\ x \in Nat
    BY <1>2 DEF InStep
  <2>2. ~snap[x].stale /\ ~(k \in Confirmed /\ x >= events[k].ex)
    BY <1>5, <2>1
  <2>3. x \in InStep(snap, n)
    BY <2>1, <2>2 DEF InStep, SnapDays
  <2>4. SameBase(events, snap, snap', x) /\ SameDayIn(snap, snap', x)
    BY <1>2, <1>5, <2>1 DEF SameBase, SameDayIn, Entitled, StoredBase, SnapDays
  <2>5. ~Counts(events[k], x)
    <3>1. CASE events[k].status = "confirmed"
      BY <1>1, <1>7, <2>1, <2>2, <3>1 DEF Confirmed, Counts
    <3>2. CASE events[k].status = "pending"
      <4>1. x # 0 => NotDue(events[k], x)
        BY <1>7, <2>1, <2>2, <3>2 DEF RowOK, Ahead, SnapDays
      <4> QED
        BY <1>1, <1>7, <2>1, <3>2, <4>1, FreeAhead
    <3>3. CASE events[k].status = "cancelled"
      BY <3>3 DEF Counts
    <3> QED
      BY <1>7, <3>1, <3>2, <3>3 DEF RowFit, Shape
  <2>6. ASSUME NEW j \in DOMAIN events, j \in gone
        PROVE  ~Counts(events[j], x)
    <3>1. CASE j = k
      BY <2>5, <3>1
    <3>2. CASE j # k
      <4>1. ~Child(k) /\ j \in ChildrenOf(k[1])
        BY <2>6, <3>2
      <4>2. k = <<k[1], "self">> /\ j[1] = k[1] /\ Child(j)
        BY <1>7, <4>1, Keys DEF ChildrenOf
      <4>3. ParentOK(events, j) /\ Shape(events[j])
        BY DEF BookOK, RowOK
      <4>4. <<j[1], "self">> = k
        BY <4>2
      <4>5. events[k].status = "confirmed" /\ events[j].ex = events[k].ex
        BY <4>2, <4>3, <4>4 DEF ParentOK
      <4>6. k \in Confirmed
        BY <1>1, <4>5 DEF Confirmed
      <4> QED
        BY <1>7, <2>1, <2>2, <4>5, <4>6 DEF Counts
    <3> QED
      BY <3>1, <3>2
  <2>7. CarriesOver(events, events', x)
    <3> HIDE DEF gone
    <3> QED
      BY <1>3, <2>6, SameAlike DEF CarriesOver
  <2> QED
    BY <2>1, <2>3, <2>4, <2>7
<1> QED
  BY <1>2, <1>4, <1>6, <1>8, <1>9, BooksCarried

LEMMA EventRequestBooks ==
    ASSUME NEW n, Books(events, snap, n), BookOK(events, snap, n),
           \A x \in SnapDays : x \in Nat /\ x < n, EventRequest
    PROVE  Books(events', snap', n)
<1>1. BookOK(events', snap', n) /\ SnapDays \subseteq Nat /\ RowsTyped(events) /\ ChainTyped(snap)
  BY EventRequestKeeps DEF Books
<1>2. ASSUME RowsTyped(events'), \A x \in InStep(snap, n) : CarriesOver(events, events', x), snap' = snap
      PROVE  Books(events', snap', n)
  BY <1>1, <1>2, BooksKept
<1>3. PICK e \in Events : Idle /\ (NewEvent(e) \/ EventChange(e))
  BY DEF EventRequest
<1>4. CASE NewEvent(e)
  <2>1. snap' = snap
    <3>1. ASSUME NEW r, CreateEvent(e, r)
          PROVE  snap' = snap
      BY <3>1 DEF CreateEvent, Request
    <3>2. ASSUME NEW p, NEW ent, NEW ex, NEW qty, DetectDividend(e, p, ent, ex, qty)
          PROVE  snap' = snap
      BY <3>2 DEF DetectDividend, Request
    <3> QED
      BY <1>4, <3>1, <3>2 DEF NewEvent
  <2> QED
    BY <1>1, <1>2, <1>4, <2>1, NewEventTyped DEF InStep, SnapDays
<1>5. ASSUME NEW ent \in Days, NEW ex \in Days, NEW pay \in OptionalDates, NEW arrive \in OptionalDates,
             NEW qty \in PerShare \cup Adjustments, UpdateEvent(e, ent, ex, pay, arrive, qty)
      PROVE  Books(events', snap', n)
  <2>1. snap' = snap
    BY <1>5 DEF UpdateEvent, Request
  <2> QED
    BY <1>1, <1>2, <1>5, <2>1, UpdateEventTyped
<1>6. ASSUME NEW kind \in {"cash_dividend", "reinvest_dividend"}, NEW pay \in OptionalDates,
             NEW arrive \in OptionalDates, ConfirmWithChoice(e, kind, pay, arrive)
      PROVE  Books(events', snap', n)
  <2>1. snap' = snap
    BY <1>6 DEF ConfirmWithChoice, Request
  <2> QED
    BY <1>1, <1>2, <1>6, <2>1, ConfirmWithChoiceTyped
<1>7. CASE ConfirmEvent(e)
  <2>1. snap' = snap
    BY <1>7 DEF ConfirmEvent, Request
  <2> QED
    BY <1>1, <1>2, <1>7, <2>1, ConfirmEventTyped
<1>8. CASE CancelEvent(e)
  <2>1. snap' = snap
    BY <1>8 DEF CancelEvent, Request
  <2> QED
    BY <1>1, <1>2, <1>8, <2>1, CancelEventTyped
<1>9. CASE UnconfirmEvent(e)
  <2>1. snap' = snap /\ events' = Withdrawn({e}) /\ AfterLatest(events[<<e, "self">>].ex)
        /\ <<e, "self">> \in DOMAIN events
    BY <1>9 DEF UnconfirmEvent, Request, Confirmed
  <2>2. events[<<e, "self">>].ex \in Nat
    BY <2>1, AllFit, Days1 DEF Books, RowsTyped, RowTyped
  <2>3. \A x \in SnapDays : CarriesOver(events, events', x)
    <3> SUFFICES ASSUME NEW x \in SnapDays PROVE CarriesOver(events, Withdrawn({e}), x)
      BY <2>1
    <3>1. \A c \in {e} : <<c, "self">> \in DOMAIN events => events[<<c, "self">>].ex > x
      BY <2>1, <2>2 DEF AfterLatest
    <3> QED
      BY <1>1, <3>1, WithdrawnCarries
  <2> QED
    BY <1>1, <1>2, <2>1, <2>3, WithdrawnTyped DEF InStep, SnapDays
<1>10. ASSUME NEW r \in Platforms \cup {"self"}, DeleteEvent(<<e, r>>)
       PROVE  Books(events', snap', n)
  BY <1>10, DeleteEventBooks
<1> QED
  BY <1>3, <1>4, <1>5, <1>6, <1>7, <1>8, <1>9, <1>10 DEF EventChange

\* The last day of the chain before day d.
LEMMA DayBefore ==
    ASSUME SnapDays \subseteq 0..LastDay, 0 \in SnapDays, NEW d \in Nat, d > 0
    PROVE  LET b == LastSnapUpTo(d - 1)
           IN  /\ b \in SnapDays /\ b \in Nat /\ b < d
               /\ \A x \in SnapDays : x < d => x <= b
<1> DEFINE S == {e \in SnapDays : e <= d - 1}
<1>1. \A x \in SnapDays : x \in Nat
  BY DaysAreNumbers
<1>2. S \in SUBSET (0..LastDay) /\ 0 \in S
  <2>1. 0 <= d - 1
    OBVIOUS
  <2>2. S \subseteq SnapDays
    OBVIOUS
  <2> QED
    BY <2>1, <2>2
<1>3. Max(S) \in S /\ \A x \in S : x <= Max(S)
  <2> HIDE DEF S
  <2> QED BY <1>2, MaxOfDays
<1>4. \A x \in SnapDays : x < d => x \in S
  BY <1>1
<1>5. \A x \in S : x \in SnapDays /\ x \in Nat /\ x < d
  BY <1>1
<1>6. LastSnapUpTo(d - 1) = Max(S)
  BY DEF LastSnapUpTo
<1> HIDE DEF S
<1> QED
  BY <1>3, <1>4, <1>5, <1>6

\* A day is built behind which the chain is in step up to n, and then up to m.
LEMMA BuildBooks ==
    ASSUME NEW n \in Nat, Books(events, snap, n), BookOK(events, snap, n), NEW m \in Nat,
           SnapDays \subseteq 0..LastDay, 0 \in SnapDays, NEW d \in TradingDays, d < m,
           \A x \in SnapDays : x < m => x <= d /\ (x = d \/ x < n),
           NEW thenConfirm \in BOOLEAN, Build(d, thenConfirm)
    PROVE  Books(events', snap', m)
<1> DEFINE rows == Withdrawn(EntitledOn(d))
           b == LastSnapUpTo(d - 1)
           row == DayRow(rows, b, d)
           chain == Put(snap, d, row)
<1>1. /\ NoEventDue(d) /\ snap' = chain
      /\ events' = IF thenConfirm THEN AutoConfirmed(rows, chain, d) ELSE rows
  BY DEF Build
<1>2. d \in Nat /\ d > 0 /\ \A x \in SnapDays : x \in Nat
  BY Days1, DaysAreNumbers
<1>3. b \in SnapDays /\ b \in Nat /\ b < d /\ \A x \in SnapDays : x < d => x <= b
  BY <1>2, DayBefore
<1>4. {"shares", "stale"} \subseteq DOMAIN row
  BY DEF DayRow
<1> HIDE DEF row
<1>5. BookOK(rows, chain, m)
  BY <1>1, <1>4, BuildWithdraws
<1>6. /\ DOMAIN chain = SnapDays \cup {d} /\ chain[d] = row
      /\ \A x \in SnapDays : x # d => chain[x] = snap[x]
  BY DEF Put, SnapDays
<1>7. RowsTyped(events) /\ ChainTyped(snap) /\ RowsTyped(rows)
  BY WithdrawnTyped DEF Books
<1>8. \A k \in DOMAIN rows : RowFit(rows[k])
  BY <1>5, <1>7, AllFit
<1>9. \A x \in SnapDays : x < d => x < n /\ CarriesOver(events, rows, x)
  <2> SUFFICES ASSUME NEW x \in SnapDays, x < d
               PROVE  x < n /\ CarriesOver(events, Withdrawn(EntitledOn(d)), x)
    OBVIOUS
  <2>1. x \in Nat /\ x < m /\ x # d
    BY <1>2
  <2>2. \A e \in EntitledOn(d) : <<e, "self">> \in DOMAIN events => events[<<e, "self">>].ex > x
    <3> SUFFICES ASSUME NEW e \in EntitledOn(d) PROVE events[<<e, "self">>].ex > x
      OBVIOUS
    <3>1. <<e, "self">> \in DOMAIN events /\ events[<<e, "self">>].ent = d
      BY DEF EntitledOn, Confirmed
    <3>2. RowFit(events[<<e, "self">>])
      BY <1>7, <3>1, AllFit
    <3>3. events[<<e, "self">>].ex \in Nat /\ d <= events[<<e, "self">>].ex
      BY <3>1, <3>2 DEF RowFit, Shape, Dated
    <3> QED
      BY <1>2, <2>1, <3>3
  <2>3. CarriesOver(events, Withdrawn(EntitledOn(d)), x)
    BY <1>7, <2>1, <2>2, WithdrawnCarries
  <2> QED
    BY <2>1, <2>3
<1>10. DayTyped(snap[b])
  BY <1>3, <1>7 DEF ChainTyped, SnapDays
<1>11. /\ DayTyped(row) /\ row.stale = snap[b].stale
       /\ Replays(rows, snap, b) => Replays(rows, chain, d)
  BY <1>2, <1>3, <1>5, <1>6, <1>7, <1>8, <1>10, DayReplays DEF row
<1> HIDE DEF chain, rows, b
<1>12. ChainTyped(chain)
  BY <1>6, <1>7, <1>11 DEF ChainTyped, SnapDays
<1>13. ASSUME NEW x \in InStep(chain, m)
       PROVE  /\ x \in Nat
              /\ x # d => x \in InStep(snap, n) /\ x < d
              /\ x = d => b \in InStep(snap, n)
  <2>1. x \in SnapDays \cup {d} /\ x < m /\ ~chain[x].stale
    BY <1>6 DEF InStep
  <2>2. ASSUME x # d
        PROVE  x \in SnapDays /\ x < d /\ x < n /\ ~snap[x].stale
    <3>1. x \in SnapDays /\ x \in Nat /\ x <= d
      BY <1>2, <2>1, <2>2
    <3> QED
      BY <1>2, <1>6, <1>9, <2>1, <2>2, <3>1
  <2>3. x = d => ~snap[b].stale /\ b < n
    BY <1>3, <1>6, <1>9, <1>11, <2>1
  <2> QED
    BY <1>2, <1>3, <2>1, <2>2, <2>3 DEF InStep, SnapDays
<1>14. StepsBack(chain, m)
  <2> SUFFICES ASSUME NEW x \in InStep(chain, m), NEW y \in SnapDays \cup {d}, y < x
               PROVE  ~chain[y].stale
    BY <1>6 DEF StepsBack
  <2>1. y # d /\ y \in SnapDays /\ y < d /\ y \in Nat
    BY <1>2, <1>13
  <2>2. ~snap[y].stale
    <3>1. CASE x # d
      BY <1>13, <2>1, <3>1 DEF Books, StepsBack, SnapDays
    <3>2. CASE x = d
      <4>1. b \in InStep(snap, n) /\ y <= b
        BY <1>3, <1>13, <2>1, <3>2
      <4>2. CASE y = b
        BY <4>1, <4>2 DEF InStep
      <4>3. CASE y # b
        <5>1. y < b
          BY <1>3, <2>1, <4>1, <4>3
        <5> QED
          BY <2>1, <4>1, <5>1 DEF Books, StepsBack, SnapDays
      <4> QED
        BY <4>2, <4>3
    <3> QED
      BY <3>1, <3>2
  <2> QED
    BY <1>6, <2>1, <2>2
<1>15. ASSUME NEW x \in InStep(snap, n), x < d
       PROVE  Replays(rows, snap, x)
  <2>1. x \in SnapDays /\ x \in Nat /\ Replays(events, snap, x)
    BY <1>2 DEF Books, InStep, SnapDays
  <2>2. CarriesOver(events, rows, x) /\ SameBase(events, snap, snap, x) /\ SameDayIn(snap, snap, x)
    BY <1>9, <1>15, <2>1, SameSelf
  <2>3. \A k \in DOMAIN events : RowFit(events[k])
    BY <1>7, AllFit
  <2> QED
    BY <1>7, <1>8, <2>1, <2>2, <2>3, CarriedReplays
<1>16. ASSUME NEW x \in InStep(chain, m)
       PROVE  Replays(rows, chain, x)
  <2>1. CASE x = d
    BY <1>3, <1>11, <1>13, <1>15, <2>1
  <2>2. CASE x # d
    <3>1. x \in InStep(snap, n) /\ x < d /\ x \in Nat /\ x \in SnapDays
      BY <1>13, <2>2 DEF InStep, SnapDays
    <3>2. SameBase(rows, snap, chain, x) /\ SameDayIn(snap, chain, x)
      <4>1. \A p \in Platforms, y \in Nat : y <= x => StoredBase(chain, p, y) = StoredBase(snap, p, y)
        <5> SUFFICES ASSUME NEW p \in Platforms, NEW y \in Nat, y <= x
                     PROVE  StoredBase(chain, p, y) = StoredBase(snap, p, y)
          OBVIOUS
        <5>1. y # d
          BY <1>2, <3>1
        <5> QED
          BY <1>6, <5>1 DEF StoredBase, SnapDays
      <4> QED
        BY <1>6, <1>8, <2>2, <3>1, <4>1, SameUpTo DEF SameDayIn
    <3> QED
      BY <1>7, <1>8, <1>15, <3>1, <3>2, CarriesSelf, CarriedReplays
  <2> QED
    BY <2>1, <2>2
<1>17. Books(rows, chain, m)
  BY <1>7, <1>12, <1>14, <1>16 DEF Books
<1> DEFINE auto == AutoConfirmed(rows, chain, d)
<1>18. Books(auto, chain, m)
  <2>1. /\ RowsTyped(auto)
        /\ \A x \in InStep(chain, m) : x \in Nat => CarriesOver(rows, auto, x)
    BY <1>5, <1>7, <1>12, AutoConfirmedTyped
  <2>2. BookOK(auto, chain, m)
    BY <1>5, AutoConfirmedKeeps
  <2> HIDE DEF auto
  <2>3. \A x \in InStep(chain, m) : /\ x \in Nat /\ x \in InStep(chain, m)
                                    /\ CarriesOver(rows, auto, x)
                                    /\ SameBase(rows, chain, chain, x) /\ SameDayIn(chain, chain, x)
    BY <1>13, <2>1, SameSelf
  <2> QED
    BY <1>5, <1>12, <1>14, <1>17, <2>1, <2>2, <2>3, BooksCarried
<1> QED
  BY <1>1, <1>17, <1>18

LEMMA DeleteDayBooks ==
    ASSUME NEW n \in Nat, Books(events, snap, n), BookOK(events, snap, n),
           \A x \in SnapDays : x \in Nat /\ x < n,
           NEW d \in SnapDays, d # NoDate,
           NEW chain, DOMAIN chain = SnapDays \ {d},
           \A x \in DOMAIN chain : chain[x] = [snap[x] EXCEPT !.stale = @ \/ CountsOn(d, x)]
    PROVE  Books(Withdrawn(EntitledOn(d)), chain, n)
<1> DEFINE rows == Withdrawn(EntitledOn(d))
<1>1. RowsTyped(events) /\ ChainTyped(snap) /\ RowsTyped(rows)
  BY WithdrawnTyped DEF Books
<1>2. ASSUME NEW x \in DOMAIN chain
      PROVE  /\ x \in SnapDays /\ x # d /\ x \in Nat /\ d \in Nat
             /\ DayTyped(chain[x]) /\ SameDayIn(snap, chain, x)
             /\ {"shares", "stale"} \subseteq DOMAIN chain[x]
             /\ chain[x].stale <=> (snap[x].stale \/ CountsOn(d, x))
  <2>1. x \in SnapDays /\ x # d /\ x \in Nat /\ d \in Nat
    OBVIOUS
  <2>2. DayTyped(snap[x]) /\ CountsOn(d, x) \in BOOLEAN
    BY <1>1, <2>1 DEF ChainTyped, SnapDays, CountsOn
  <2>3. chain[x] = [shares |-> snap[x].shares, cash |-> snap[x].cash,
                    transit |-> snap[x].transit, dropped |-> snap[x].dropped,
                    stale |-> snap[x].stale \/ CountsOn(d, x)]
    BY <2>2 DEF DayTyped
  <2> HIDE DEF CountsOn
  <2> QED
    BY <2>1, <2>2, <2>3 DEF DayTyped, SameDayIn
<1>3. BookOK(rows, chain, n)
  <2>1. \A x \in DOMAIN chain :
           /\ {"shares", "stale"} \subseteq DOMAIN chain[x] /\ chain[x].shares = snap[x].shares
           /\ snap[x].stale \/ CountsOn(d, x) => chain[x].stale
    BY <1>2 DEF SameDayIn
  <2> QED
    BY <2>1, DeleteWithdraws
<1>4. ChainTyped(chain)
  BY <1>2 DEF ChainTyped
\* a day in step counts nothing that was entitled on the day that goes
<1>5. ASSUME NEW x \in InStep(chain, n)
      PROVE  /\ x \in DOMAIN chain /\ x \in Nat /\ x \in InStep(snap, n)
             /\ \A k \in DOMAIN events : Counts(events[k], x) => events[k].ent # d
  <2>1. x \in DOMAIN chain /\ x < n /\ ~chain[x].stale
    BY DEF InStep
  <2>2. ~snap[x].stale /\ ~CountsOn(d, x) /\ x \in SnapDays /\ x \in Nat /\ d \in Nat /\ x # d
    BY <1>2, <2>1
  <2>3. ASSUME NEW k \in DOMAIN events, Counts(events[k], x), events[k].ent = d
        PROVE  FALSE
    <3>1. RowFit(events[k])
      BY <1>1, AllFit
    <3>2. d <= events[k].ex /\ events[k].ex <= x /\ events[k].ex \in Nat
      BY <2>3, <3>1 DEF RowFit, Shape, Dated, Counts
    <3>3. d < x
      BY <2>2, <3>2
    <3> QED
      BY <2>2, <2>3, <3>2, <3>3 DEF CountsOn, Counts
  <2> QED
    BY <2>1, <2>2, <2>3 DEF InStep, SnapDays
<1>6. StepsBack(chain, n)
  <2> SUFFICES ASSUME NEW x \in InStep(chain, n), NEW b \in DOMAIN chain, b < x
               PROVE  ~chain[b].stale
    BY DEF StepsBack
  <2>1. x \in DOMAIN chain /\ x \in Nat /\ x \in InStep(snap, n)
    BY <1>5
  <2>2. ~snap[b].stale /\ b \in Nat /\ d \in Nat
    BY <1>2, <2>1 DEF Books, StepsBack, SnapDays
  <2>3. ~CountsOn(d, b)
    <3> SUFFICES ASSUME NEW k \in DOMAIN events, events[k].status # "cancelled", events[k].ent = d,
                        d < b, events[k].ex <= b
                 PROVE  CountsOn(d, x)
      BY <1>2, <2>1 DEF CountsOn, InStep
    <3>1. events[k].ex \in Nat
      BY <1>1, AllFit DEF RowFit, Shape
    <3>2. d < x /\ events[k].ex <= x
      BY <2>1, <2>2, <3>1
    <3> QED
      BY <3>2 DEF CountsOn
  <2> QED
    BY <1>2, <2>2, <2>3
<1>7. ASSUME NEW x \in InStep(chain, n)
      PROVE  CarriesOver(events, rows, x)
  <2>1. /\ x \in DOMAIN chain /\ x \in Nat
        /\ \A k \in DOMAIN events : Counts(events[k], x) => events[k].ent # d
    BY <1>5
  <2>2. ASSUME NEW e \in EntitledOn(d)
        PROVE  events[<<e, "self">>].ex > x
    <3>1. <<e, "self">> \in DOMAIN events /\ events[<<e, "self">>].ent = d
          /\ events[<<e, "self">>].status # "cancelled"
      BY DEF EntitledOn, Confirmed
    <3>2. RowFit(events[<<e, "self">>])
      BY <1>1, <3>1, AllFit
    <3>3. events[<<e, "self">>].ex \in Nat /\ d <= events[<<e, "self">>].ex /\ d \in Nat
      BY <1>2, <2>1, <3>1, <3>2 DEF RowFit, Shape, Dated
    <3>4. ~CountsOn(d, x)
      BY <1>2, <2>1 DEF InStep
    <3>5. x # d
      BY <1>2, <2>1
    <3> QED
      BY <2>1, <3>1, <3>3, <3>4, <3>5 DEF CountsOn
  <2> QED
    BY <1>1, <2>1, <2>2, WithdrawnCarries
<1>8. ASSUME NEW x \in InStep(chain, n)
      PROVE  SameBase(events, snap, chain, x)
  <2> SUFFICES ASSUME NEW k \in DOMAIN events, Counts(events[k], x)
               PROVE  Entitled(chain, events[k]) = Entitled(snap, events[k])
    BY DEF SameBase
  <2>1. events[k].ent # d
    BY <1>5
  <2> QED
    BY <1>2, <2>1 DEF Entitled, StoredBase, SameDayIn, SnapDays
<1> QED
  BY <1>1, <1>2, <1>3, <1>4, <1>5, <1>6, <1>7, <1>8, BooksCarried

LEMMA InitBooks == Init => BookInv
<1> SUFFICES ASSUME Init PROVE BookInv
  OBVIOUS
<1>1. /\ DOMAIN events = {} /\ DOMAIN snap = {0} /\ snap[0] = Opening /\ Idle /\ saved = NoDB
  BY DEF Init, Idle
<1>2. IInv
  BY InitHolds
<1>3. RowsTyped(events)
  BY <1>1, FS_EmptySet DEF RowsTyped
<1>4. DayTyped(Opening)
  BY HoldingAssumption DEF Opening, DayTyped
<1>5. ChainTyped(snap) /\ StepsBack(snap, Passed)
  BY <1>1, <1>4 DEF ChainTyped, StepsBack, InStep
<1>6. Replays(events, snap, 0)
  <2>1. \A p \in Platforms :
           Gained(events, p, 0, 0) = 0 /\ Received(events, p, 0, 0) = 0 /\ FlowSum(p, 0, 0) = 0
    BY <1>1, <1>3, NothingYet
  <2>2. \A p \in Platforms : OpeningShares[p] \in Int
    BY HoldingAssumption
  <2>3. /\ Opening.transit = <<>> /\ Opening.shares = OpeningShares
        /\ \A p \in Platforms : Opening.dropped[p] = 0 /\ Opening.cash[p] = 0
    BY DEF Opening
  <2>4. Transit(events, snap, 0) = <<>>
    <3>1. OnTheWay(events, snap, 0) = {}
      BY <1>1 DEF OnTheWay
    <3> QED
      BY <3>1 DEF Transit
  <2> QED
    BY <1>1, <2>1, <2>2, <2>3, <2>4 DEF Replays
<1>7. Books(events, snap, Passed)
  BY <1>1, <1>3, <1>5, <1>6 DEF Books, InStep
<1> QED
  BY <1>1, <1>7 DEF BookInv

LEMMA SnapshotRequestBooks ==
    ASSUME IInv, BookInv, SnapshotRequest
    PROVE  BookInv'
<1> DEFINE end == LastDay + 1
<1>1. /\ SnapDays \subseteq 0..LastDay /\ 0 \in SnapDays /\ end \in Nat /\ Passed \in Nat
      /\ LastDay \in Nat /\ TxTyped
      /\ BookOK(events, snap, Passed) /\ Books(events, snap, Passed)
      /\ \A x \in SnapDays : x \in Nat /\ x < end
      /\ Idle => saved = NoDB
  <2>1. LastDay \in Nat
    BY DaysAreNumbers
  <2> QED
    BY <2>1, ChainDays DEF IInv, BookInv
<1>2. ASSUME NEW d \in TradingDays, Generate(d) \/ Advance(d)
      PROVE  BookInv'
  <2>1. /\ Idle /\ FollowsChain(d) /\ UNCHANGED <<today, tx, saved>>
        /\ Build(d, TRUE) \/ Build(d, FALSE)
    BY <1>2 DEF Generate, Advance
  <2>2. (\A x \in SnapDays : x <= d) /\ d < end
    <3>1. d < end
      BY Numbers
    <3>2. \A x \in SnapDays : x <= d
      BY <1>1, <2>1, DaysAreNumbers DEF FollowsChain, IsLatest, IsTradingDaysAfter
    <3> QED
      BY <3>1, <3>2
  <2>3. Passed = end
    BY <2>1 DEF Passed
  <2>4. Books(events', snap', end)
    BY <1>1, <2>1, <2>2, <2>3, BuildBooks
  <2>5. Idle' /\ Passed' = end
    BY <2>1 DEF Idle, Passed
  <2> QED
    BY <1>1, <2>1, <2>4, <2>5 DEF BookInv
<1>3. ASSUME NEW d \in TradingDays, DeleteDay(d)
      PROVE  BookInv'
  <2>1. /\ Idle /\ d # NoDate /\ d \in SnapDays /\ UNCHANGED <<today, tx, saved>>
        /\ snap' = [e \in SnapDays \ {d} |-> [snap[e] EXCEPT !.stale = @ \/ CountsOn(d, e)]]
        /\ events' = Withdrawn(EntitledOn(d))
    BY <1>3 DEF DeleteDay
  <2>2. Passed = end /\ Idle' /\ Passed' = end
    BY <2>1 DEF Passed, Idle
  <2>3. Books(events', snap', end)
    <3>1. \A x \in SnapDays : x \in Nat /\ x < end
      BY <1>1
    <3>2. /\ DOMAIN snap' = SnapDays \ {d}
          /\ \A x \in DOMAIN snap' : snap'[x] = [snap[x] EXCEPT !.stale = @ \/ CountsOn(d, x)]
      BY <2>1
    <3> QED
      BY <1>1, <2>1, <2>2, <3>1, <3>2, DeleteDayBooks
  <2> QED
    BY <1>1, <2>1, <2>2, <2>3 DEF BookInv
<1>4. ASSUME ConfirmOnly
      PROVE  BookInv'
  <2>1. PICK l \in SnapDays : Idle /\ events' = AutoConfirmed(events, snap, l)
                              /\ UNCHANGED <<snap, today, tx, saved>>
    BY <1>4 DEF ConfirmOnly
  <2>2. BookOK(events', snap, Passed)
    BY <1>1, <2>1, AutoConfirmedKeeps
  <2>3. /\ RowsTyped(events')
        /\ \A x \in InStep(snap, Passed) : CarriesOver(events, events', x)
    <3>1. RowsTyped(events) /\ ChainTyped(snap)
      BY <1>1 DEF Books
    <3> QED
      BY <1>1, <2>1, <3>1, AutoConfirmedTyped DEF InStep, SnapDays
  <2>4. Books(events', snap', Passed)
    BY <1>1, <2>1, <2>2, <2>3, BooksKept
  <2>5. Idle' /\ Passed' = Passed /\ SnapDays' = SnapDays
    BY <2>1 DEF Passed, Idle, SnapDays
  <2> QED
    BY <1>1, <2>1, <2>4, <2>5 DEF BookInv
<1>5. ASSUME NEW d \in Days, BeginRecalculate(d)
      PROVE  BookInv'
  <2>1. Idle /\ Begins(d) /\ saved' = DB /\ UNCHANGED <<events, snap, today>>
    BY <1>5 DEF BeginRecalculate, Begins
  <2>2. TxTyped' /\ ~Idle' /\ tx'.day \in Days
    BY <1>1, <2>1, BeginsTyped
  <2>3. tx'.day = d
    BY <2>1 DEF Begins
  <2>4. Passed = end /\ Passed' = d
    BY <2>1, <2>2, <2>3 DEF Passed
  <2>5. Books(events, snap, d)
    BY <1>1, <2>4, BooksNarrowed DEF SnapDays
  <2>7. saved'.events = events /\ saved'.snap = snap
    BY <2>1 DEF DB
  <2>8. tx'.day # 0
    BY <2>2, Days1
  <2> QED
    BY <1>1, <2>1, <2>2, <2>3, <2>4, <2>5, <2>7, <2>8 DEF BookInv
<1>6. ASSUME ~Idle
      PROVE  /\ Passed = tx.day /\ tx.day \in Nat /\ tx.end \in Nat
             /\ BookOK(events, snap, tx.day) /\ Books(events, snap, tx.day)
             /\ \A x \in SnapDays : x <= tx.end
             /\ Books(saved.events, saved.snap, end) /\ tx.day # 0
  BY <1>1, <1>6 DEF IInv, BookInv, Passed, TxTyped
<1>7. ASSUME RecalcDay
      PROVE  BookInv'
  <2>1. /\ ~Idle /\ tx.day <= tx.end /\ tx.day \in TradingDays /\ AtTradingDay
        /\ Build(tx.day, TRUE) /\ NextInTx /\ UNCHANGED <<today, saved>>
    BY <1>7 DEF RecalcDay, AtTradingDay
  <2>2. TxTyped' /\ ~Idle'
    BY <1>1, <2>1, NextInTxTyped
  <2>3. tx'.day = tx.day + 1
    BY <1>1, <2>1 DEF NextInTx, TxTyped
  <2>4. \A x \in SnapDays : x < tx.day + 1 => x <= tx.day /\ (x = tx.day \/ x < tx.day)
    <3> SUFFICES ASSUME NEW x \in SnapDays, x < tx.day + 1
                 PROVE  x <= tx.day /\ (x = tx.day \/ x < tx.day)
      OBVIOUS
    <3>1. x \in Nat /\ tx.day \in Nat
      BY <1>1, <1>6, <2>1
    <3> QED
      BY <3>1
  <2>5. Books(events', snap', tx.day + 1)
    <3>1. /\ tx.day \in Nat /\ tx.day + 1 \in Nat /\ tx.day < tx.day + 1
          /\ BookOK(events, snap, tx.day) /\ Books(events, snap, tx.day)
      BY <1>6, <2>1
    <3> QED
      BY <1>1, <2>1, <2>4, <3>1, BuildBooks
  <2>6. Passed' = tx.day + 1
    BY <2>2, <2>3 DEF Passed
  <2>7. tx'.day # 0
    BY <1>6, <2>1, <2>3
  <2> QED
    BY <1>6, <2>1, <2>2, <2>3, <2>5, <2>6, <2>7 DEF BookInv
<1>8. ASSUME RecalcSkipDay
      PROVE  BookInv'
  <2>1. /\ ~Idle /\ tx.day \notin TradingDays /\ AtHoliday /\ NextInTx
        /\ UNCHANGED <<events, snap, today, saved>>
    BY <1>8 DEF RecalcSkipDay, AtHoliday
  <2>2. TxTyped' /\ ~Idle'
    BY <1>1, <2>1, NextInTxTyped
  <2>3. tx'.day = tx.day + 1
    BY <1>1, <2>1 DEF NextInTx, TxTyped
  <2>4. tx.day \notin SnapDays
    BY <1>6, <2>1 DEF BookOK, ChainShape, SnapDays
  <2>5. \A x \in SnapDays : x < tx.day + 1 => x < tx.day
    <3> SUFFICES ASSUME NEW x \in SnapDays, x < tx.day + 1 PROVE x < tx.day
      OBVIOUS
    <3>1. x \in Nat /\ tx.day \in Nat /\ x # tx.day
      BY <1>1, <1>6, <2>1, <2>4
    <3> QED
      BY <3>1
  <2>6. Books(events, snap, tx.day + 1)
    BY <1>6, <2>1, <2>5, BooksNarrowed DEF SnapDays
  <2>7. Passed' = tx.day + 1 /\ SnapDays' = SnapDays
    BY <2>1, <2>2, <2>3 DEF Passed, SnapDays
  <2>8. tx'.day # 0
    BY <1>6, <2>1, <2>3
  <2> QED
    BY <1>1, <1>6, <2>1, <2>2, <2>3, <2>6, <2>7, <2>8 DEF BookInv
<1>9. ASSUME Commit
      PROVE  BookInv'
  <2>1. ~Idle /\ tx.day > tx.end /\ tx' = NoTx /\ saved' = NoDB
        /\ UNCHANGED <<events, snap, today>>
    BY <1>9 DEF Commit, AtEnd
  <2>2. \A x \in SnapDays : x < tx.day
    <3> SUFFICES ASSUME NEW x \in SnapDays PROVE x < tx.day
      OBVIOUS
    <3>1. x \in Nat /\ x <= tx.end /\ tx.day \in Nat /\ tx.end \in Nat
      BY <1>1, <1>6, <2>1
    <3> QED
      BY <2>1, <3>1
  <2>3. Books(events, snap, end)
    BY <1>6, <2>1, <2>2, BooksNarrowed DEF SnapDays
  <2>4. TxTyped' /\ Idle' /\ Passed' = end /\ SnapDays' = SnapDays
    BY <2>1, NoTxTyped DEF Passed, SnapDays
  <2> QED
    BY <1>1, <2>1, <2>3, <2>4 DEF BookInv
<1>10. ASSUME Rollback
       PROVE  BookInv'
  <2>1. ~Idle /\ events' = saved.events /\ snap' = saved.snap /\ tx' = NoTx /\ saved' = NoDB
        /\ UNCHANGED today
    BY <1>10 DEF Rollback
  <2>2. TxTyped' /\ Idle' /\ Passed' = end /\ SnapDays' = DOMAIN saved.snap
    BY <2>1, NoTxTyped DEF Passed, SnapDays
  <2> QED
    BY <1>6, <2>1, <2>2 DEF BookInv
<1> QED
  BY <1>2, <1>3, <1>4, <1>5, <1>7, <1>8, <1>9, <1>10 DEF SnapshotRequest

LEMMA NextBooks == IInv /\ BookInv /\ [Next]_vars => BookInv'
<1> SUFFICES ASSUME IInv, BookInv, [Next]_vars PROVE BookInv'
  OBVIOUS
<1>1. CASE EventRequest
  <2>1. /\ Books(events, snap, Passed) /\ BookOK(events, snap, Passed)
        /\ Idle => saved = NoDB
    BY DEF IInv, BookInv
  <2>2. Idle /\ UNCHANGED <<today, tx, saved>> /\ SnapDays' = SnapDays
    BY <1>1, <2>1, EventRequestKeeps
  <2>3. \A x \in SnapDays : x \in Nat /\ x < Passed
    <3>1. SnapDays \subseteq 0..LastDay /\ Passed = LastDay + 1 /\ LastDay \in Nat
      BY <2>2, ChainDays, DaysAreNumbers
    <3> QED
      BY <3>1
  <2>4. Books(events', snap', Passed)
    BY <1>1, <2>1, <2>3, EventRequestBooks
  <2>5. Idle' /\ Passed' = Passed
    BY <2>2 DEF Idle, Passed
  <2> QED
    BY <2>1, <2>2, <2>4, <2>5 DEF BookInv
<1>2. CASE SnapshotRequest
  BY <1>2, SnapshotRequestBooks
<1>3. CASE NewDay \/ UNCHANGED vars
  <2>1. UNCHANGED <<events, snap, tx, saved>>
    BY <1>3 DEF NewDay, vars
  <2> QED
    BY <2>1 DEF BookInv, Passed, Idle, SnapDays
<1> QED
  BY <1>1, <1>2, <1>3 DEF Next

\* Every day of the chain that is not out of step says what replaying the events
\* from the beginning gives, also of a recalculation on its way and of what a
\* rollback of it restores.
THEOREM EventBooksFit == Spec => []BookInv
<1> QED
  BY InitHolds, NextKeeps, InitBooks, NextBooks, PTL DEF Spec

-----------------------------------------------------------------------------
(* Types                                                                   *)

LEMMA RowIsEvent ==
    ASSUME NEW r, RowFit(r)
    PROVE  r \in Event
<1>1. r = [kind |-> r.kind, platform |-> r.platform, ent |-> r.ent, ex |-> r.ex,
           pay |-> r.pay, arrive |-> r.arrive, qty |-> r.qty, base |-> r.base,
           status |-> r.status]
  BY DEF RowFit, Shape
<1>2. /\ r.kind \in AllKinds /\ r.platform \in Platforms \cup {"all"}
      /\ r.ent \in Days /\ r.ex \in Days /\ r.pay \in Days \cup {NoDate}
      /\ r.arrive \in TradingDays \cup {NoDate}
      /\ r.qty \in PerShare \cup Adjustments /\ r.base \in Nat
      /\ r.status \in {"pending", "confirmed", "cancelled"}
  BY DEF RowFit, RowTyped, Shape
<1> QED
  BY <1>1, <1>2 DEF Event

LEMMA BooksTyped ==
    ASSUME NEW db, NEW n, BookOK(db.events, db.snap, n), RowsTyped(db.events)
    PROVE  IsDatabase(db)
<1>1. \A k \in DOMAIN db.events : db.events[k] \in Event
  BY AllFit, RowIsEvent
<1> QED
  BY <1>1 DEF IsDatabase, BookOK, ChainShape, RowKeys

\* The tables are typed: rows are events, days lie on trading days, and what a
\* rollback restores is such a database too, there only while one is in progress.
THEOREM EventBookTypeCorrect == Spec => []TypeOK
<1>1. IInv /\ BookInv => TypeOK
  <2> SUFFICES ASSUME IInv, BookInv PROVE TypeOK
    OBVIOUS
  <2>1. IsDatabase(DB)
    <3>1. DB.events = events /\ DB.snap = snap
      BY DEF DB
    <3>2. BookOK(DB.events, DB.snap, Passed) /\ RowsTyped(DB.events)
      BY <3>1 DEF IInv, BookInv, Books
    <3> QED
      BY <3>2, BooksTyped
  <2>2. ~Idle => IsDatabase(saved)
    BY BooksTyped DEF IInv, BookInv, Books
  <2>3. Idle => saved = NoDB
    BY DEF BookInv
  <2> QED
    BY <2>1, <2>2, <2>3 DEF TypeOK, IInv, TxTyped
<1> QED
  BY <1>1, EventBookInvariant, EventBooksFit, PTL

-----------------------------------------------------------------------------
(* What a row gives on a day, and what the views show of it                *)

\* What a row has settled by day d, and what is on its way then.
Given(r, d) == (IF InShares(r, d) THEN SharesOf(r) ELSE 0)
                   + (IF InCash(r, d) THEN CashOf(r) ELSE 0)
Awaited(r, d) == IF Open(r, d) THEN Entitled(snap, r) * r.qty ELSE 0

\* A row of the books as a day of the chain sees it.
Seen(r, d) ==
    /\ RowFit(r) /\ d \in Nat /\ r.platform \in Platforms /\ r.ex > 0
    /\ Entitled(snap, r) \in Nat
    /\ r.status = "confirmed" => r.base = Entitled(snap, r)
    /\ r.status = "pending" => d = 0 \/ NotDue(r, d)

LEMMA RowsSeen ==
    ASSUME IInv, BookInv, Idle, NEW d \in SnapDays, ~snap[d].stale, NEW k \in DOMAIN events,
           events[k].platform # "all"
    PROVE  Seen(events[k], d)
<1> DEFINE r == events[k]
<1>1. BookOK(events, snap, LastDay + 1) /\ RowsTyped(events) /\ ChainTyped(snap)
  BY ChainDays DEF IInv, BookInv, Books
<1>2. RowFit(r) /\ RowOK(r, snap, LastDay + 1)
  BY <1>1, AllFit DEF BookOK
<1>3. d \in Nat /\ d < LastDay + 1
  BY ChainDays, DaysAreNumbers
<1> HIDE DEF r
<1>4. r.platform \in Platforms /\ r.ex > 0
  BY <1>2, Days1 DEF RowFit, Shape, RowTyped, r
<1>5. Entitled(snap, r) \in Nat
  BY <1>1, <1>4, StoredTyped DEF Entitled
<1>6. r.status = "confirmed" => r.base = Entitled(snap, r)
  BY <1>2, <1>4, Days1 DEF RowOK, Entitled
<1>7. r.status = "pending" => d = 0 \/ NotDue(r, d)
  BY <1>2, <1>3 DEF RowOK, Ahead, SnapDays
<1> QED
  BY <1>2, <1>3, <1>4, <1>5, <1>6, <1>7 DEF Seen, r

\* An event that a day counts is settled or on its way, not both and not neither.
LEMMA WorthOnce ==
    ASSUME NEW r, NEW d, Seen(r, d)
    PROVE  /\ Given(r, d) \in Int /\ Awaited(r, d) \in Int /\ Worth(r) \in Int
           /\ Counts(r, d) => Given(r, d) + Awaited(r, d) = Worth(r)
           /\ ~Counts(r, d) => Given(r, d) = 0 /\ Awaited(r, d) = 0
<1>1. /\ r.ex \in Nat /\ r.pay \in Nat /\ r.arrive \in Nat /\ d \in Nat /\ r.ex > 0
      /\ r.status \in {"pending", "confirmed", "cancelled"} /\ r.platform # "all"
      /\ r.kind \in AllKinds /\ (r.status = "confirmed" => r.kind # "dividend_pending")
  BY Days1 DEF Seen, RowFit, RowTyped, Shape
<1>2. /\ r.qty \in Int /\ SharesOf(r) \in Int /\ CashOf(r) \in Int
      /\ Entitled(snap, r) \in Nat /\ Entitled(snap, r) * r.qty \in Int
  <2>1. r.qty \in Int /\ SharesOf(r) \in Int /\ CashOf(r) \in Int
    BY Amounted DEF Seen, RowFit
  <2>2. Entitled(snap, r) \in Int /\ Entitled(snap, r) \in Nat
    BY DEF Seen
  <2> QED
    BY <2>1, <2>2, Products
<1> DEFINE worth == Entitled(snap, r) * r.qty
<1>3. Worth(r) = IF Dividend(r) THEN worth ELSE SharesOf(r)
  BY DEF Worth, Entitled
<1>4. /\ r.status = "confirmed" /\ r.kind = "reinvest_dividend" => SharesOf(r) = worth
      /\ r.status = "confirmed" /\ r.kind = "cash_dividend" => CashOf(r) = worth
  BY DEF Seen, SharesOf, CashOf
<1> HIDE DEF worth
<1>5. Given(r, d) \in Int /\ Awaited(r, d) \in Int /\ Worth(r) \in Int
  BY <1>2, <1>3 DEF Given, Awaited, worth
<1>6. ASSUME ~Counts(r, d)
      PROVE  Given(r, d) = 0 /\ Awaited(r, d) = 0
  <2>1. RowFit(r) /\ d \in Nat
    BY DEF Seen
  <2>2. /\ ~InShares(r, d) /\ ~InCash(r, d) /\ ~Open(r, d)
    <3>1. /\ InShares(r, d) => r.ex <= d
          /\ InCash(r, d) => r.ex <= d
          /\ Open(r, d) => Counts(r, d)
      BY <2>1, SettledAfterEx
    <3> QED
      BY <1>1, <1>6, <3>1 DEF Counts, InShares, InCash
  <2> QED
    BY <2>2 DEF Given, Awaited
<1>7. ASSUME Counts(r, d), r.status = "pending"
      PROVE  Given(r, d) + Awaited(r, d) = Worth(r)
  <2>1. RowFit(r) /\ d \in Nat /\ NotDue(r, d) /\ r.ex <= d
    BY <1>1, <1>7 DEF Seen, Counts
  <2>2. Open(r, d) /\ Dividend(r)
    BY <1>7, <2>1, PendingUnderWay
  <2>3. ~InShares(r, d) /\ ~InCash(r, d)
    BY <1>7 DEF InShares, InCash
  <2> QED
    BY <1>2, <1>3, <2>2, <2>3 DEF Given, Awaited, worth
<1>8. ASSUME Counts(r, d), r.status = "confirmed"
      PROVE  Given(r, d) + Awaited(r, d) = Worth(r)
  <2>1. r.ex <= d
    BY <1>8 DEF Counts
  <2>2. CASE r.kind = "cash_dividend"
    <3>1. ~InShares(r, d) /\ (InCash(r, d) <=> ~Open(r, d))
      BY <1>1, <1>8, <2>1, <2>2 DEF InShares, InCash, Open, UnderWay, CashDay, SameDayPending
    <3> QED
      BY <1>2, <1>3, <1>4, <1>8, <2>2, <3>1 DEF Given, Awaited, Dividend, worth
  <2>3. CASE r.kind = "reinvest_dividend"
    <3>1. ~InCash(r, d) /\ (InShares(r, d) <=> ~Open(r, d))
      BY <1>1, <1>8, <2>1, <2>3 DEF InShares, InCash, Open, UnderWay, ShareDay, SameDayPending
    <3> QED
      BY <1>2, <1>3, <1>4, <1>8, <2>3, <3>1 DEF Given, Awaited, Dividend, worth
  <2>4. CASE r.kind \in {"share_split", "forced_adjustment"}
    <3>1. ~InCash(r, d) /\ InShares(r, d) /\ ~Open(r, d)
      BY <1>1, <1>8, <2>1, <2>4 DEF InShares, InCash, Open, UnderWay, ShareDay, SameDayPending
    <3> QED
      BY <1>2, <1>3, <2>4, <3>1 DEF Given, Awaited, Dividend
  <2> QED
    BY <1>1, <1>8, <2>2, <2>3, <2>4 DEF AllKinds
<1>9. Counts(r, d) => r.status # "cancelled"
  BY DEF Counts
<1> QED
  BY <1>1, <1>5, <1>6, <1>7, <1>8, <1>9

-----------------------------------------------------------------------------
(* What a day says and what its events are worth                           *)

GivenMap(d) == [k \in DOMAIN events |-> Given(events[k], d)]
AwaitedMap(d) == [k \in DOMAIN events |-> Awaited(events[k], d)]
WorthMap(d) == [k \in DOMAIN events |-> IF Counts(events[k], d) THEN Worth(events[k]) ELSE 0]
SharesIn(d) ==
    [k \in DOMAIN events |-> IF InShares(events[k], d) THEN SharesOf(events[k]) ELSE 0]
CashIn(d) == [k \in DOMAIN events |-> IF InCash(events[k], d) THEN CashOf(events[k]) ELSE 0]
PlatformRows == {k \in DOMAIN events : events[k].platform # "all"}

LEMMA GivenMaps ==
    ASSUME IInv, BookInv, Idle, NEW d \in SnapDays, ~snap[d].stale
    PROVE  /\ IsFiniteSet(PlatformRows) /\ Adds(WorthMap(d), GivenMap(d), AwaitedMap(d), PlatformRows)
           /\ \A p \in Platforms : /\ EventsAt(p) \in SUBSET PlatformRows
                                   /\ IsFiniteSet(EventsAt(p))
<1>1. IsFiniteSet(DOMAIN events)
  BY DEF BookInv, Books, RowsTyped
<1>2. PlatformRows \in SUBSET (DOMAIN events)
  BY DEF PlatformRows
<1>3. IsFiniteSet(PlatformRows)
  BY <1>1, <1>2, FS_Subset
<1>4. \A p \in Platforms : EventsAt(p) \in SUBSET PlatformRows
  BY Days1 DEF EventsAt, PlatformRows
<1>5. \A p \in Platforms : IsFiniteSet(EventsAt(p))
  BY <1>3, <1>4, FS_Subset
<1>6. ASSUME NEW k \in PlatformRows
      PROVE  /\ GivenMap(d)[k] \in Int /\ AwaitedMap(d)[k] \in Int
             /\ WorthMap(d)[k] = GivenMap(d)[k] + AwaitedMap(d)[k]
  <2>1. k \in DOMAIN events /\ Seen(events[k], d)
    BY <1>2, RowsSeen DEF PlatformRows
  <2>2. /\ GivenMap(d)[k] = Given(events[k], d) /\ AwaitedMap(d)[k] = Awaited(events[k], d)
        /\ WorthMap(d)[k] = (IF Counts(events[k], d) THEN Worth(events[k]) ELSE 0)
    BY <2>1 DEF GivenMap, AwaitedMap, WorthMap
  <2>3. /\ Given(events[k], d) \in Int /\ Awaited(events[k], d) \in Int
        /\ Counts(events[k], d) => Given(events[k], d) + Awaited(events[k], d) = Worth(events[k])
        /\ ~Counts(events[k], d) => Given(events[k], d) = 0 /\ Awaited(events[k], d) = 0
    BY <2>1, WorthOnce
  <2> QED
    BY <2>2, <2>3
<1>7. Adds(WorthMap(d), GivenMap(d), AwaitedMap(d), PlatformRows)
  BY <1>6 DEF Adds
<1> QED
  BY <1>3, <1>4, <1>5, <1>7

\* The windows of a platform bring what its rows have settled.
LEMMA WindowsGive ==
    ASSUME IInv, BookInv, Idle, NEW d \in SnapDays, ~snap[d].stale, NEW p \in Platforms
    PROVE  /\ SumFunctionOnSet(SharesIn(d), EventsAt(p)) = Gained(events, p, 0, d)
           /\ SumFunctionOnSet(GivenMap(d), EventsAt(p))
                = Gained(events, p, 0, d) + Received(events, p, 0, d)
<1> DEFINE S == EventsAt(p)
           T == ShareWindow(events, p, 0, d)
           U == CashWindow(events, p, 0, d)
           F == SharesIn(d)
           G == CashIn(d)
<1>1. RowsTyped(events) /\ d \in Nat /\ S \subseteq PlatformRows /\ IsFiniteSet(S)
      /\ S \subseteq DOMAIN events
  BY GivenMaps, ChainDays, DaysAreNumbers DEF BookInv, Books, EventsAt
<1>2. ASSUME NEW k \in DOMAIN events, events[k].platform = p
      PROVE  /\ k \in S
             /\ k \in T <=> InShares(events[k], d)
             /\ k \in U <=> InCash(events[k], d)
  <2>1. Seen(events[k], d)
    BY <1>2, Days1, RowsSeen
  <2>2. ShareDay(events[k]) \in Nat /\ ShareDay(events[k]) > 0
        /\ CashDay(events[k]) \in Nat /\ CashDay(events[k]) > 0
    BY <1>1, <2>1, SettledAfterEx DEF Seen
  <2> QED
    BY <1>2, <2>2 DEF EventsAt, ShareWindow, CashWindow, InShares, InCash
<1>3. T \in SUBSET S /\ U \in SUBSET S
  <2>1. T \in SUBSET (DOMAIN events) /\ U \in SUBSET (DOMAIN events)
        /\ \A k \in T \cup U : events[k].platform = p
    BY DEF ShareWindow, CashWindow
  <2> QED
    BY <1>2, <2>1
<1>4. \A k \in S : /\ k \in T <=> InShares(events[k], d)
                   /\ k \in U <=> InCash(events[k], d)
  BY <1>1, <1>2 DEF EventsAt
<1>5. /\ \A k \in T : F[k] = SharesMap(events)[k]
      /\ \A k \in S \ T : F[k] = 0
      /\ \A k \in U : G[k] = CashMap(events)[k]
      /\ \A k \in S \ U : G[k] = 0
  BY <1>1, <1>3, <1>4 DEF SharesMap, CashMap, SharesIn, CashIn
<1>6. \A k \in S : SharesMap(events)[k] \in Int /\ CashMap(events)[k] \in Int
  BY <1>1, MapsTyped
<1>7. Adds(GivenMap(d), F, G, S)
  <2>1. \A k \in S : GivenMap(d)[k] = F[k] + G[k]
    BY <1>1 DEF GivenMap, Given, SharesIn, CashIn
  <2> HIDE DEF F, G, S
  <2>2. \A k \in S : F[k] \in Int /\ G[k] \in Int
    BY <1>3, <1>5, <1>6
  <2> QED
    BY <2>1, <2>2 DEF Adds
<1> HIDE DEF S, T, U, F, G
<1>8. SumFunctionOnSet(F, S) = SumFunctionOnSet(SharesMap(events), T)
  <2>1. \A k \in T : SharesMap(events)[k] \in Int /\ F[k] = SharesMap(events)[k]
    BY <1>3, <1>5, <1>6
  <2>2. \A k \in S \ T : F[k] = 0
    BY <1>5
  <2> QED
    BY <1>1, <1>3, <2>1, <2>2, SumWithin
<1>9. SumFunctionOnSet(G, S) = SumFunctionOnSet(CashMap(events), U)
  <2>1. \A k \in U : CashMap(events)[k] \in Int /\ G[k] = CashMap(events)[k]
    BY <1>3, <1>5, <1>6
  <2>2. \A k \in S \ U : G[k] = 0
    BY <1>5
  <2> QED
    BY <1>1, <1>3, <2>1, <2>2, SumWithin
<1>10. SumFunctionOnSet(GivenMap(d), S) = SumFunctionOnSet(F, S) + SumFunctionOnSet(G, S)
  BY <1>1, <1>7, SumPlus
<1> QED
  BY <1>8, <1>9, <1>10 DEF Gained, Received, F, S, T, U

\* What the counted events of some rows are worth.
LEMMA WorthCounted ==
    ASSUME IInv, BookInv, Idle, NEW d \in SnapDays, ~snap[d].stale, NEW S \in SUBSET PlatformRows
    PROVE  /\ Sum(LAMBDA k : Worth(events[k]), Counted(d) \cap S) = SumFunctionOnSet(WorthMap(d), S)
           /\ SumFunctionOnSet(WorthMap(d), S) \in Int
<1> DEFINE T == Counted(d) \cap S
           F == [k \in T |-> Worth(events[k])]
<1>1. IsFiniteSet(S)
  BY GivenMaps, FS_Subset
<1>2. T \in SUBSET S
  OBVIOUS
<1>3. \A k \in S : /\ k \in DOMAIN events /\ WorthMap(d)[k] \in Int
                   /\ k \in T <=> Counts(events[k], d)
                   /\ WorthMap(d)[k] = (IF Counts(events[k], d) THEN Worth(events[k]) ELSE 0)
  <2> SUFFICES ASSUME NEW k \in S
               PROVE  /\ k \in DOMAIN events /\ WorthMap(d)[k] \in Int
                      /\ k \in T <=> Counts(events[k], d)
                      /\ WorthMap(d)[k] = (IF Counts(events[k], d) THEN Worth(events[k]) ELSE 0)
    OBVIOUS
  <2>1. k \in DOMAIN events /\ events[k].platform # "all"
    BY DEF PlatformRows
  <2>2. WorthMap(d)[k] \in Int
    BY GivenMaps DEF Adds
  <2>3. k \in T <=> Counts(events[k], d)
    BY <2>1 DEF Counted, Counts
  <2> QED
    BY <2>1, <2>2, <2>3 DEF WorthMap
<1>4. \A k \in T : F[k] = WorthMap(d)[k] /\ F[k] \in Int
  BY <1>2, <1>3
<1>5. \A k \in S \ T : WorthMap(d)[k] = 0
  BY <1>3
<1>6. Sum(LAMBDA k : Worth(events[k]), T) = SumFunctionOnSet(F, T)
  BY DEF Sum
<1>6a. \A k \in S : WorthMap(d)[k] \in Int
  BY <1>3
<1> HIDE DEF T, F
<1>7. SumFunctionOnSet(WorthMap(d), S) = SumFunctionOnSet(F, T)
  BY <1>1, <1>2, <1>4, <1>5, SumWithin
<1>8. SumFunctionOnSet(WorthMap(d), S) \in Int
  BY <1>1, <1>6a, SumRemove
<1> QED
  BY <1>6, <1>7, <1>8 DEF T

\* What a day carries in transit is what is awaited on it.
LEMMA TransitAwaited ==
    ASSUME IInv, BookInv, Idle, NEW d \in SnapDays, ~snap[d].stale, snap[d].transit = Transit(events, snap, d)
    PROVE  Total(snap[d].transit) = SumFunctionOnSet(AwaitedMap(d), PlatformRows)
<1> DEFINE T == OnTheWay(events, snap, d)
           F == [k \in T |-> Entitled(snap, events[k]) * events[k].qty]
<1>1. snap[d].transit = F /\ DOMAIN F = T
  BY DEF Transit
<1>2. \A k \in DOMAIN events : Open(events[k], d) => k \in PlatformRows
  <2> SUFFICES ASSUME NEW k \in DOMAIN events, Open(events[k], d) PROVE k \in PlatformRows
    OBVIOUS
  <2>1. RowFit(events[k])
    BY AllFit DEF IInv, BookInv, Books
  <2>2. d \in Nat
    BY ChainDays, DaysAreNumbers
  <2>3. Counts(events[k], d)
    BY <2>1, <2>2, SettledAfterEx
  <2> QED
    BY <2>3 DEF Counts, PlatformRows
<1>3. T \in SUBSET PlatformRows
  BY <1>2 DEF OnTheWay, Open
<1>4. \A k \in PlatformRows : AwaitedMap(d)[k] = Awaited(events[k], d) /\ AwaitedMap(d)[k] \in Int
  BY GivenMaps DEF PlatformRows, AwaitedMap, Adds
<1>5. ASSUME NEW k \in T
      PROVE  F[k] \in Int /\ AwaitedMap(d)[k] = F[k]
  <2>1. Open(events[k], d)
    BY DEF OnTheWay, Open
  <2>2. AwaitedMap(d)[k] = F[k]
    BY <1>3, <1>4, <2>1 DEF Awaited
  <2> QED
    BY <1>3, <1>4, <2>2
<1>6. ASSUME NEW k \in PlatformRows \ T
      PROVE  AwaitedMap(d)[k] = 0
  <2>1. CASE ~Open(events[k], d)
    BY <1>4, <2>1 DEF Awaited
  <2>2. CASE Open(events[k], d)
    <3>1. Entitled(snap, events[k]) \in Nat /\ ~(Entitled(snap, events[k]) > 0)
      BY <1>6, <2>2, RowsSeen DEF OnTheWay, Open, PlatformRows, Seen
    <3>2. Entitled(snap, events[k]) = 0 /\ events[k].qty \in Int
      BY <3>1, <1>6, RowsSeen, Amounted DEF PlatformRows, Seen, RowFit
    <3> QED
      BY <1>4, <2>2, <3>2 DEF Awaited
  <2> QED
    BY <2>1, <2>2
<1>7. Total(snap[d].transit) = SumFunctionOnSet(F, T)
  BY <1>1 DEF Total
<1> HIDE DEF T, F
<1>8. IsFiniteSet(PlatformRows)
  BY GivenMaps
<1> QED
  BY <1>3, <1>5, <1>6, <1>7, <1>8, SumWithin

\* An event is in the snapshots exactly once, from its ex date on: a day in step
\* has what its opening shares, the trades and the worth of its events make,
\* settled or in transit, whatever way the events went.
THEOREM CreditedExactlyOnce == Spec => []CreditedOnce
<1>1. ASSUME IInv, BookInv, Idle, NEW d \in SnapDays, ~snap[d].stale
      PROVE  Total(snap[d].shares) + Total(snap[d].cash) + Total(snap[d].transit)
                 - Total(snap[d].dropped)
               = Total(OpeningShares)
                   + Sum(LAMBDA p : FlowSum(p, 0, d), Platforms)
                   + Sum(LAMBDA k : Worth(events[k]), Counted(d))
  <2> DEFINE shares == snap[d].shares
             cash == snap[d].cash
             dropped == snap[d].dropped
             flow == [p \in Platforms |-> FlowSum(p, 0, d)]
             parts == [p \in Platforms |-> Gained(events, p, 0, d) + Received(events, p, 0, d)]
             left == [p \in Platforms |-> shares[p] + cash[p]]
             base == [p \in Platforms |-> OpeningShares[p] + flow[p]]
             right == [p \in Platforms |-> base[p] + parts[p]]
             owner == [k \in PlatformRows |-> events[k].platform]
             S == PlatformRows
             P == Platforms
             sum(f) == SumFunctionOnSet(f, P)
  <2>1. Replays(events, snap, d) /\ RowsTyped(events) /\ DayTyped(snap[d])
    <3>1. d \in InStep(snap, Passed)
      <4>1. d \in 0..LastDay /\ Passed = LastDay + 1 /\ LastDay \in Nat
        BY <1>1, ChainDays, DaysAreNumbers
      <4> QED
        BY <1>1, <4>1 DEF InStep, SnapDays
    <3> QED
      BY <1>1, <3>1 DEF BookInv, Books, ChainTyped, SnapDays
  <2>2. /\ shares \in [P -> Nat] /\ cash \in [P -> Int] /\ dropped \in [P -> Int]
        /\ OpeningShares \in [P -> Nat]
    BY <2>1, HoldingAssumption DEF DayTyped
  <2>3. \A p \in P : /\ flow[p] \in Int /\ parts[p] \in Int /\ OpeningShares[p] \in Int
                     /\ shares[p] \in Int /\ cash[p] \in Int /\ dropped[p] \in Int
    <3> SUFFICES ASSUME NEW p \in P
                 PROVE  /\ flow[p] \in Int /\ parts[p] \in Int /\ OpeningShares[p] \in Int
                        /\ shares[p] \in Int /\ cash[p] \in Int /\ dropped[p] \in Int
      OBVIOUS
    <3>1. FlowSum(p, 0, d) \in Int
      BY FlowSums
    <3>2. Gained(events, p, 0, d) \in Int /\ Received(events, p, 0, d) \in Int
      BY <2>1, Windows
    <3> QED
      BY <2>2, <3>1, <3>2
  <2>4. \A p \in P : shares[p] - dropped[p] = OpeningShares[p] + flow[p] + Gained(events, p, 0, d)
                     /\ cash[p] = Received(events, p, 0, d)
    BY <2>1 DEF Replays
  <2>5. \A p \in P : left[p] = dropped[p] + right[p]
    <3> SUFFICES ASSUME NEW p \in P PROVE left[p] = dropped[p] + right[p]
      OBVIOUS
    <3>1. Gained(events, p, 0, d) \in Int /\ Received(events, p, 0, d) \in Int
      BY <2>1, Windows
    <3>2. /\ left[p] = shares[p] + cash[p]
          /\ right[p] = OpeningShares[p] + flow[p]
                          + (Gained(events, p, 0, d) + Received(events, p, 0, d))
      OBVIOUS
    <3> HIDE DEF left, right, flow, shares, cash, dropped
    <3> QED
      BY <2>3, <2>4, <3>1, <3>2
  <2>6. /\ Adds(left, shares, cash, P) /\ Adds(base, OpeningShares, flow, P)
        /\ Adds(right, base, parts, P) /\ Adds(left, dropped, right, P)
    <3>1. /\ \A p \in P : left[p] = shares[p] + cash[p]
          /\ \A p \in P : base[p] = OpeningShares[p] + flow[p]
          /\ \A p \in P : right[p] = base[p] + parts[p]
      OBVIOUS
    <3> HIDE DEF left, base, right, flow, parts, shares, cash, dropped, P
    <3> QED
      BY <2>3, <2>5, <3>1 DEF Adds
  <2>7. /\ Total(shares) = sum(shares) /\ Total(cash) = sum(cash) /\ Total(dropped) = sum(dropped)
        /\ Total(OpeningShares) = sum(OpeningShares)
        /\ Sum(LAMBDA p : FlowSum(p, 0, d), Platforms) = sum(flow)
    <3>1. Sum(LAMBDA p : FlowSum(p, 0, d), Platforms) = sum(flow)
      BY DEF Sum
    <3> QED
      BY <2>2, <3>1 DEF Total
  <2>8. Total(snap[d].transit) = SumFunctionOnSet(AwaitedMap(d), S)
    BY <1>1, <2>1, TransitAwaited DEF Replays
  <2>9. Sum(LAMBDA k : Worth(events[k]), Counted(d)) = SumFunctionOnSet(WorthMap(d), S)
    <3>1. Counted(d) \cap PlatformRows = Counted(d)
      BY DEF Counted, PlatformRows
    <3>2. Sum(LAMBDA k : Worth(events[k]), Counted(d) \cap PlatformRows)
            = SumFunctionOnSet(WorthMap(d), PlatformRows)
      BY <1>1, WorthCounted
    <3> QED
      BY <3>1, <3>2
  <2>10. sum(parts) = SumFunctionOnSet(GivenMap(d), S)
    <3>1. IsFiniteSet(P) /\ IsFiniteSet(S)
      BY <1>1, PlatformAssumption, GivenMaps
    <3>2. \A k \in S : GivenMap(d)[k] \in Int
      BY <1>1, GivenMaps DEF Adds
    <3>3. \A k \in S : owner[k] \in P
      BY <1>1, RowsSeen DEF PlatformRows, Seen
    <3>4. \A p \in P : PartOf(S, owner, p) = EventsAt(p)
      BY Days1 DEF PartOf, EventsAt, PlatformRows
    <3>5. \A p \in P : parts[p] = SumFunctionOnSet(GivenMap(d), PartOf(S, owner, p))
      BY <1>1, <3>4, WindowsGive
    <3> HIDE DEF parts, owner, P, S
    <3> QED
      BY <3>1, <3>2, <3>3, <3>5, SumOfSums
  <2>11. /\ SumFunctionOnSet(WorthMap(d), S)
              = SumFunctionOnSet(GivenMap(d), S) + SumFunctionOnSet(AwaitedMap(d), S)
         /\ SumFunctionOnSet(GivenMap(d), S) \in Int /\ SumFunctionOnSet(AwaitedMap(d), S) \in Int
    BY <1>1, GivenMaps, SumPlus
  <2>12. IsFiniteSet(P)
    BY PlatformAssumption
  <2> HIDE DEF left, base, right, flow, parts, shares, cash, dropped, P, S
  <2>13. /\ sum(left) = sum(shares) + sum(cash) /\ sum(shares) \in Int /\ sum(cash) \in Int
    BY <2>6, <2>12, SumPlus
  <2>14. sum(base) = sum(OpeningShares) + sum(flow) /\ sum(OpeningShares) \in Int /\ sum(flow) \in Int
    BY <2>6, <2>12, SumPlus
  <2>15. sum(right) = sum(base) + sum(parts) /\ sum(parts) \in Int
    BY <2>6, <2>12, SumPlus
  <2>16. sum(left) = sum(dropped) + sum(right) /\ sum(dropped) \in Int
    BY <2>6, <2>12, SumPlus
  <2>17. Total(shares) + Total(cash) + Total(snap[d].transit) - Total(dropped)
           = Total(OpeningShares) + Sum(LAMBDA p : FlowSum(p, 0, d), Platforms)
               + Sum(LAMBDA k : Worth(events[k]), Counted(d))
    <3> HIDE DEF sum
    <3> QED
      BY <2>7, <2>8, <2>9, <2>10, <2>11, <2>13, <2>14, <2>15, <2>16
  <2> QED
    BY <2>17 DEF shares, cash, dropped
<1>2. IInv /\ BookInv => CreditedOnce
  BY <1>1 DEF CreditedOnce
<1> QED
  BY <1>2, EventBookInvariant, EventBooksFit, PTL

-----------------------------------------------------------------------------
(* The legs of the views                                                   *)

AmountOf(X) == [l \in X |-> l.amount]
LegsIn(r, days) == Added({l \in FundLegs(r) : l.day \in days})

LEMMA FiniteLegs ==
    ASSUME NEW a, NEW b
    PROVE  IsFiniteSet({a}) /\ IsFiniteSet({a, b})
<1>1. IsFiniteSet({a}) /\ {a, b} = {a} \cup {b}
  BY FS_Singleton
<1> QED
  BY <1>1, FS_AddElement

LEMMA AddedSub ==
    ASSUME NEW X, IsFiniteSet(X), \A l \in X : l.amount \in Int, NEW S \in SUBSET X
    PROVE  Added(S) = SumFunctionOnSet(AmountOf(X), S) /\ Added(S) \in Int /\ IsFiniteSet(S)
<1> DEFINE F == [l \in S |-> l.amount]
<1>1. Added(S) = SumFunctionOnSet(F, S)
  BY DEF Added, Sum
<1>2. IsFiniteSet(S)
  BY FS_Subset
<1>3. \A l \in S : F[l] = AmountOf(X)[l] /\ F[l] \in Int
  BY DEF AmountOf
<1> HIDE DEF F
<1>4. SumFunctionOnSet(F, S) = SumFunctionOnSet(AmountOf(X), S) /\ SumFunctionOnSet(F, S) \in Int
  BY <1>2, <1>3, SumAgree, SumRemove
<1> QED
  BY <1>1, <1>2, <1>4

LEMMA AddedSplit ==
    ASSUME NEW X, IsFiniteSet(X), \A l \in X : l.amount \in Int,
           NEW S \in SUBSET X, NEW T \in SUBSET X, S \cap T = {}
    PROVE  Added(S \cup T) = Added(S) + Added(T)
<1>1. S \cup T \in SUBSET X
  OBVIOUS
<1>2. \A l \in S \cup T : AmountOf(X)[l] \in Int
  BY DEF AmountOf
<1>3. /\ Added(S) = SumFunctionOnSet(AmountOf(X), S) /\ IsFiniteSet(S)
      /\ Added(T) = SumFunctionOnSet(AmountOf(X), T) /\ IsFiniteSet(T)
      /\ Added(S \cup T) = SumFunctionOnSet(AmountOf(X), S \cup T)
  BY <1>1, AddedSub
<1> QED
  BY <1>2, <1>3, SumUnion

LEMMA AddedOne ==
    ASSUME NEW a, NEW x \in Int
    PROVE  Added({On(a, x)}) = x /\ Added({}) = 0
<1> DEFINE l == On(a, x)
           X == {l}
<1>1. l.amount = x
  BY DEF On
<1>2. IsFiniteSet({}) /\ IsFiniteSet(X) /\ l \notin {}
  BY FS_EmptySet, FS_Singleton
<1>3. AmountOf(X)[l] = x
  BY <1>1 DEF AmountOf
<1> HIDE DEF l
<1>4. Added(X) = SumFunctionOnSet(AmountOf(X), X) /\ Added({}) = SumFunctionOnSet(AmountOf(X), {})
  <2>1. \A m \in X : m.amount \in Int
    BY <1>1
  <2>2. X \in SUBSET X /\ {} \in SUBSET X
    OBVIOUS
  <2> HIDE DEF X
  <2> QED
    BY <1>2, <2>1, <2>2, AddedSub
<1>5. SumFunctionOnSet(AmountOf(X), {}) = 0
  BY SumEmpty
<1>6. SumFunctionOnSet(AmountOf(X), {l}) = x
  <2>1. AmountOf(X)[l] \in Int
    BY <1>3
  <2> HIDE DEF X
  <2> QED
    BY <1>3, <2>1, SumOne
<1> QED
  BY <1>4, <1>5, <1>6 DEF l

LEMMA AddedNone == Added({}) = 0
<1>1. 0 \in Int
  OBVIOUS
<1> QED
  BY <1>1, AddedOne

\* What comes on day a and goes on day b.
LEMMA AddedPair ==
    ASSUME NEW a, NEW b, NEW x \in Int, NEW days
    PROVE  LET sum == Added({l \in {On(a, x), On(b, -x)} : l.day \in days})
           IN  /\ a \in days /\ b \notin days => sum = x
               /\ (a \in days <=> b \in days) => sum = 0
<1> DEFINE l == On(a, x)
           m == On(b, -x)
           S == {n \in {l, m} : n.day \in days}
<1>1. l.day = a /\ l.amount = x /\ m.day = b /\ m.amount = -x /\ -x \in Int
  BY DEF On
<1>2. Added({l}) = x /\ Added({m}) = -x /\ Added({}) = 0
  BY <1>1, AddedOne
<1> HIDE DEF l, m
<1>3. ASSUME a \in days, b \notin days
      PROVE  Added(S) = x
  <2>1. S = {l}
    BY <1>1, <1>3
  <2> QED
    BY <1>2, <2>1
<1>4. ASSUME a \notin days, b \notin days
      PROVE  Added(S) = 0
  <2>1. S = {}
    BY <1>1, <1>4
  <2> QED
    BY <1>2, <2>1
<1>5. ASSUME a \in days, b \in days
      PROVE  Added(S) = 0
  <2>1. S = {l} \cup {m}
    BY <1>1, <1>5
  <2>2. CASE l = m
    BY <1>1, <1>2, <2>1, <2>2
  <2>3. CASE l # m
    <3> DEFINE X == {l, m}
    <3>1. IsFiniteSet(X)
      BY FiniteLegs
    <3>2. \A n \in X : n.amount \in Int
      BY <1>1
    <3>3. {l} \in SUBSET X /\ {m} \in SUBSET X /\ {l} \cap {m} = {}
      BY <2>3
    <3> HIDE DEF X
    <3>4. Added({l} \cup {m}) = Added({l}) + Added({m})
      BY <3>1, <3>2, <3>3, AddedSplit
    <3>5. x + (-x) = 0
      OBVIOUS
    <3> HIDE DEF S
    <3> QED
      BY <1>2, <2>1, <3>4, <3>5
  <2> QED
    BY <2>2, <2>3
<1> QED
  BY <1>3, <1>4, <1>5 DEF l, m

\* The legs a row has.
LEMMA LegsShape ==
    ASSUME NEW r, NEW d, Seen(r, d)
    PROVE  /\ Receivable(r) = Entitled(snap, r) * r.qty /\ Receivable(r) \in Int /\ CashOf(r) \in Int
           /\ r.kind = "cash_dividend" /\ r.status = "confirmed" =>
                 FundLegs(r) = {On(r.ex, CashOf(r))}
           /\ ReinvestRow(r) =>
                 FundLegs(r) = {On(r.ex, Receivable(r)), On(r.arrive, -Receivable(r))}
           /\ CashRow(r) /\ r.kind = "cash_dividend" =>
                 FundLegs(r) = {On(r.ex, Receivable(r)), On(r.pay, -Receivable(r))}
           /\ CashRow(r) /\ r.kind # "cash_dividend" => FundLegs(r) = {On(r.ex, Receivable(r))}
           /\ ~(r.kind = "cash_dividend" /\ r.status = "confirmed") /\ ~ReinvestRow(r) /\ ~CashRow(r) =>
                 FundLegs(r) = {}
<1>1. RowFit(r) /\ Entitled(snap, r) \in Int /\ r.qty \in Int /\ CashOf(r) \in Int
  BY Amounted DEF Seen, RowFit
<1>2. Receivable(r) = Entitled(snap, r) * r.qty
  <2>1. Receivable(r) = r.qty * Entitled(snap, r)
    BY DEF Receivable, Seen, Entitled
  <2>2. \A x, y \in Int : x * y = y * x
    OBVIOUS
  <2> QED
    BY <1>1, <2>1, <2>2
<1>3. Receivable(r) \in Int
  BY <1>1, <1>2, Products
<1>4. r.kind # "cash_dividend" => r.pay = NoDate
  BY <1>1 DEF RowFit, Dated, ValidPay
<1> HIDE DEF Receivable
<1>5. CashRow(r) => r.status = "pending" /\ r.kind \in {"cash_dividend", "dividend_pending"}
                    /\ (r.kind = "cash_dividend" => r.pay # NoDate)
  BY DEF CashRow, SameDayPending
<1>6. ReinvestRow(r) => r.kind = "reinvest_dividend"
  BY DEF ReinvestRow
<1> QED
  BY <1>1, <1>2, <1>3, <1>4, <1>5, <1>6 DEF FundLegs

LEMMA LegsTyped ==
    ASSUME NEW r, NEW d, Seen(r, d)
    PROVE  /\ IsFiniteSet(FundLegs(r))
           /\ \A l \in FundLegs(r) : l.day \in Nat /\ l.amount \in Int
           /\ \A l \in FundLegs(r) :
                 \/ l.day = r.ex
                 \/ ReinvestRow(r) /\ l.day = r.arrive
                 \/ CashRow(r) /\ r.kind = "cash_dividend" /\ l.day = r.pay
<1> DEFINE x == Receivable(r)
<1>1. r.ex \in Nat /\ r.pay \in Nat /\ r.arrive \in Nat
  BY DEF Seen, RowFit, Shape
<1>2. x \in Int /\ -x \in Int /\ CashOf(r) \in Int
  BY LegsShape
<1>3. \/ FundLegs(r) = {} \/ FundLegs(r) = {On(r.ex, CashOf(r))} \/ FundLegs(r) = {On(r.ex, x)}
      \/ ReinvestRow(r) /\ FundLegs(r) = {On(r.ex, x), On(r.arrive, -x)}
      \/ CashRow(r) /\ r.kind = "cash_dividend" /\ FundLegs(r) = {On(r.ex, x), On(r.pay, -x)}
  BY LegsShape
<1> HIDE DEF x
<1>4. IsFiniteSet(FundLegs(r))
  <2>1. /\ IsFiniteSet({On(r.ex, CashOf(r))}) /\ IsFiniteSet({On(r.ex, x)})
        /\ IsFiniteSet({On(r.ex, x), On(r.arrive, -x)})
        /\ IsFiniteSet({On(r.ex, x), On(r.pay, -x)})
    BY FiniteLegs
  <2>2. IsFiniteSet({})
    BY FS_EmptySet
  <2> QED
    BY <1>3, <2>1, <2>2
<1>5. \A l \in FundLegs(r) : \/ l = On(r.ex, CashOf(r)) \/ l = On(r.ex, x)
                             \/ ReinvestRow(r) /\ l = On(r.arrive, -x)
                             \/ CashRow(r) /\ r.kind = "cash_dividend" /\ l = On(r.pay, -x)
  BY <1>3
<1> QED
  BY <1>1, <1>2, <1>4, <1>5 DEF On

\* What the legs of a row add up to on day d.
LEMMA LegsUpTo ==
    ASSUME NEW r, NEW d, Seen(r, d)
    PROVE  /\ LegsIn(r, 0..d) \in Int
           /\ r.ex > d => LegsIn(r, 0..d) = 0
           /\ r.ex <= d =>
                /\ r.kind = "cash_dividend" /\ r.status = "confirmed" => LegsIn(r, 0..d) = CashOf(r)
                /\ ReinvestRow(r) =>
                     LegsIn(r, 0..d) = IF d < r.arrive THEN Receivable(r) ELSE 0
                /\ CashRow(r) =>
                     LegsIn(r, 0..d) = IF r.kind # "cash_dividend" \/ d < r.pay
                                       THEN Receivable(r) ELSE 0
                /\ ~(r.kind = "cash_dividend" /\ r.status = "confirmed") /\ ~ReinvestRow(r)
                     /\ ~CashRow(r) => LegsIn(r, 0..d) = 0
<1> DEFINE days == 0..d
           x == Receivable(r)
           sum == LegsIn(r, days)
<1>1. /\ d \in Nat /\ r.ex \in Nat /\ r.pay \in Nat /\ r.arrive \in Nat
      /\ ReinvestRow(r) => r.ex < r.arrive
      /\ CashRow(r) /\ r.kind = "cash_dividend" => r.ex <= r.pay
  BY DEF Seen, RowFit, Shape, Dated, ValidArrive, ValidPay, ReinvestRow, CashRow, SameDayPending
<1>2. x \in Int /\ CashOf(r) \in Int
  BY LegsShape
<1>3. \A n \in Nat : n \in days <=> n <= d
  BY <1>1
<1> HIDE DEF days
<1>4. ASSUME NEW y \in Int, FundLegs(r) = {On(r.ex, y)}
      PROVE  sum = IF r.ex <= d THEN y ELSE 0
  <2>1. On(r.ex, y).day = r.ex
    BY DEF On
  <2>2. CASE r.ex <= d
    <3>1. {l \in FundLegs(r) : l.day \in days} = {On(r.ex, y)}
      BY <1>1, <1>3, <1>4, <2>1, <2>2
    <3> QED
      BY <2>2, <3>1, AddedOne DEF LegsIn
  <2>3. CASE ~(r.ex <= d)
    <3>1. {l \in FundLegs(r) : l.day \in days} = {}
      BY <1>1, <1>3, <1>4, <2>1, <2>3
    <3> QED
      BY <2>3, <3>1, AddedOne DEF LegsIn
  <2> QED
    BY <2>2, <2>3
<1>5. ASSUME NEW b \in Nat, r.ex <= b, FundLegs(r) = {On(r.ex, x), On(b, -x)}
      PROVE  sum = IF r.ex <= d /\ d < b THEN x ELSE 0
  <2>1. /\ r.ex \in days /\ b \notin days => sum = x
        /\ (r.ex \in days <=> b \in days) => sum = 0
    BY <1>2, <1>5, AddedPair DEF LegsIn
  <2>2. (r.ex \in days <=> r.ex <= d) /\ (b \in days <=> b <= d)
    BY <1>1, <1>3
  <2> HIDE DEF sum, x
  <2> QED
    BY <1>1, <1>5, <2>1, <2>2
<1>6. ASSUME FundLegs(r) = {}
      PROVE  sum = 0
  <2>1. {l \in FundLegs(r) : l.day \in days} = {}
    BY <1>6
  <2> QED
    BY <2>1, AddedNone DEF LegsIn
<1> HIDE DEF sum, x
<1>7. /\ r.kind = "cash_dividend" /\ r.status = "confirmed" =>
             sum = IF r.ex <= d THEN CashOf(r) ELSE 0
      /\ ReinvestRow(r) => sum = IF r.ex <= d /\ d < r.arrive THEN x ELSE 0
      /\ CashRow(r) /\ r.kind = "cash_dividend" => sum = IF r.ex <= d /\ d < r.pay THEN x ELSE 0
      /\ CashRow(r) /\ r.kind # "cash_dividend" => sum = IF r.ex <= d THEN x ELSE 0
      /\ ~(r.kind = "cash_dividend" /\ r.status = "confirmed") /\ ~ReinvestRow(r) /\ ~CashRow(r) =>
             sum = 0
  <2>1. r.kind = "cash_dividend" /\ r.status = "confirmed" => FundLegs(r) = {On(r.ex, CashOf(r))}
    BY LegsShape
  <2>2. ReinvestRow(r) => FundLegs(r) = {On(r.ex, x), On(r.arrive, -x)} /\ r.ex <= r.arrive
    BY <1>1, LegsShape DEF x
  <2>3. CashRow(r) /\ r.kind = "cash_dividend" =>
           FundLegs(r) = {On(r.ex, x), On(r.pay, -x)} /\ r.ex <= r.pay
    BY <1>1, LegsShape DEF x
  <2>4. CashRow(r) /\ r.kind # "cash_dividend" => FundLegs(r) = {On(r.ex, x)}
    BY LegsShape DEF x
  <2>5. ~(r.kind = "cash_dividend" /\ r.status = "confirmed") /\ ~ReinvestRow(r) /\ ~CashRow(r) =>
           FundLegs(r) = {}
    BY LegsShape
  <2> QED
    BY <1>1, <1>2, <1>4, <1>5, <1>6, <2>1, <2>2, <2>3, <2>4, <2>5
<1>8. sum \in Int
  BY <1>2, <1>7
<1> QED
  BY <1>1, <1>2, <1>7, <1>8 DEF sum, x, days

-----------------------------------------------------------------------------
(* The profits of the views                                                *)

LegMap(p, days) == [k \in EventsAt(p) |-> LegsIn(events[k], days)]

LEMMA LegSums ==
    ASSUME NEW p, NEW days
    PROVE  LegSum(p, days) = SumFunctionOnSet(LegMap(p, days), EventsAt(p))
BY DEF LegSum, Sum, LegMap, LegsIn

LEMMA RowsAt ==
    ASSUME IInv, BookInv, Idle, NEW d \in SnapDays, ~snap[d].stale, NEW p \in Platforms
    PROVE  /\ IsFiniteSet(EventsAt(p)) /\ d \in Nat
           /\ \A k \in EventsAt(p) : /\ k \in DOMAIN events /\ k \in PlatformRows
                                     /\ Seen(events[k], d)
<1>1. \A k \in EventsAt(p) : k \in DOMAIN events /\ events[k].platform # "all"
  BY Days1 DEF EventsAt
<1>2. \A k \in EventsAt(p) : Seen(events[k], d)
  BY <1>1, RowsSeen
<1>3. \A k \in EventsAt(p) : k \in PlatformRows
  BY <1>1 DEF PlatformRows
<1>4. IsFiniteSet(EventsAt(p)) /\ d \in Nat
  BY GivenMaps, ChainDays, DaysAreNumbers
<1> QED
  BY <1>1, <1>2, <1>3, <1>4

LEMMA PaidReceived ==
    ASSUME IInv, BookInv, Idle, NEW p \in Platforms, NEW b, NEW d
    PROVE  Paid(p, b, d) = Received(events, p, b, d)
<1> DEFINE S == {k \in EventsAt(p) \cap Confirmed :
                    b < CashDay(events[k]) /\ CashDay(events[k]) <= d}
           T == CashWindow(events, p, b, d)
           G == [k \in S |-> CashOf(events[k])]
<1>1. RowsTyped(events)
  BY DEF BookInv, Books
<1>2. S \in SUBSET (DOMAIN events)
  BY DEF EventsAt
<1>3. IsFiniteSet(S)
  BY <1>1, <1>2, FS_Subset DEF RowsTyped
<1>4. T \in SUBSET S
  BY DEF CashWindow, EventsAt, Confirmed
<1>5. \A k \in T : CashMap(events)[k] \in Int /\ G[k] = CashMap(events)[k]
  <2>1. \A k \in T : k \in S /\ k \in DOMAIN events
    BY <1>2, <1>4
  <2>2. \A k \in T : CashMap(events)[k] \in Int
    BY <1>1, <2>1, MapsTyped
  <2>3. \A k \in T : G[k] = CashMap(events)[k]
    BY <2>1 DEF CashMap
  <2> QED
    BY <2>2, <2>3
<1>6. \A k \in S \ T : G[k] = 0
  <2>1. \A k \in S \ T : events[k].kind # "cash_dividend"
    BY DEF CashWindow, EventsAt, Confirmed
  <2> QED
    BY <2>1 DEF CashOf
<1>7. Paid(p, b, d) = SumFunctionOnSet(G, S)
  BY DEF Paid, Sum
<1> HIDE DEF S, T, G
<1>8. SumFunctionOnSet(G, S) = SumFunctionOnSet(CashMap(events), T)
  BY <1>3, <1>4, <1>5, <1>6, SumWithin
<1> QED
  BY <1>7, <1>8 DEF Received, T

\* The two ways of the views to add up the legs of a platform.
LEMMA CumulativeLegs ==
    ASSUME IInv, BookInv, Idle, NEW d \in SnapDays, ~snap[d].stale, NEW p \in Platforms
    PROVE  /\ CumulativeFundProfit(p, d) = snap[d].shares[p] - FlowSum(p, 0, d) + Addback(p, d)
           /\ Addback(p, d) \in Int /\ FlowSum(p, 0, d) \in Int /\ snap[d].shares[p] \in Int
<1> DEFINE S == EventsAt(p)
           counted == {k \in S : events[k].ex <= d}
           paying == {k \in counted \cap Confirmed : events[k].kind = "cash_dividend"}
           awaited == {k \in counted : ReinvestRow(events[k]) /\ d < events[k].arrive}
           open == {k \in counted : CashRow(events[k])}
           F1 == [k \in paying |-> CashOf(events[k])]
           F2 == [k \in awaited |-> Receivable(events[k])]
           F3 == [k \in open |-> Added({l \in FundLegs(events[k]) : l.day <= d})]
           G1 == [k \in S |-> IF k \in paying THEN CashOf(events[k]) ELSE 0]
           G2 == [k \in S |-> IF k \in awaited THEN Receivable(events[k]) ELSE 0]
           G3 == [k \in S |-> IF k \in open THEN LegsIn(events[k], 0..d) ELSE 0]
           G12 == [k \in S |-> G1[k] + G2[k]]
           L == LegMap(p, 0..d)
<1>1. IsFiniteSet(S) /\ d \in Nat /\ \A k \in S : k \in DOMAIN events /\ Seen(events[k], d)
  BY RowsAt
<1>2. CumulativeFundProfit(p, d)
        = snap[d].shares[p] - FlowSum(p, 0, d)
            + SumFunctionOnSet(F1, paying) + SumFunctionOnSet(F2, awaited) + SumFunctionOnSet(F3, open)
  BY DEF CumulativeFundProfit, Sum
<1>3. paying \in SUBSET S /\ awaited \in SUBSET S /\ open \in SUBSET S
  OBVIOUS
<1>4. /\ \A k \in paying : F1[k] = G1[k]
      /\ \A k \in awaited : F2[k] = G2[k]
      /\ \A k \in S \ paying : G1[k] = 0
      /\ \A k \in S \ awaited : G2[k] = 0
      /\ \A k \in S \ open : G3[k] = 0
  BY <1>3
<1>5. \A k \in open : F3[k] = G3[k]
  <2> SUFFICES ASSUME NEW k \in open PROVE F3[k] = G3[k]
    OBVIOUS
  <2>1. k \in S /\ Seen(events[k], d)
    BY <1>1
  <2>2. \A l \in FundLegs(events[k]) : l.day \in Nat
    BY <2>1, LegsTyped
  <2>3. {l \in FundLegs(events[k]) : l.day <= d} = {l \in FundLegs(events[k]) : l.day \in 0..d}
    BY <1>1, <2>2
  <2>4. Added({l \in FundLegs(events[k]) : l.day <= d}) = LegsIn(events[k], 0..d)
    BY <2>3 DEF LegsIn
  <2>5. F3[k] = Added({l \in FundLegs(events[k]) : l.day <= d})
    OBVIOUS
  <2>6. G3[k] = LegsIn(events[k], 0..d)
    BY <2>1
  <2> QED
    BY <2>4, <2>5, <2>6
<1>6. ASSUME NEW k \in S
      PROVE  /\ G1[k] \in Int /\ G2[k] \in Int /\ G3[k] \in Int
             /\ L[k] = G12[k] + G3[k] /\ G12[k] = G1[k] + G2[k]
  <2> DEFINE r == events[k]
  <2>1. Seen(r, d) /\ r.ex \in Nat /\ r.arrive \in Nat
    BY <1>1 DEF Seen, RowFit, Shape
  <2>2. CashOf(r) \in Int /\ Receivable(r) \in Int
    BY <2>1, LegsShape
  <2>3. /\ LegsIn(r, 0..d) \in Int
        /\ r.ex > d => LegsIn(r, 0..d) = 0
        /\ r.ex <= d =>
              /\ r.kind = "cash_dividend" /\ r.status = "confirmed" => LegsIn(r, 0..d) = CashOf(r)
              /\ ReinvestRow(r) =>
                   LegsIn(r, 0..d) = IF d < r.arrive THEN Receivable(r) ELSE 0
              /\ ~(r.kind = "cash_dividend" /\ r.status = "confirmed") /\ ~ReinvestRow(r)
                   /\ ~CashRow(r) => LegsIn(r, 0..d) = 0
    BY <2>1, LegsUpTo
  <2>4. /\ L[k] = LegsIn(r, 0..d)
        /\ G1[k] = IF r.ex <= d /\ r.status = "confirmed" /\ r.kind = "cash_dividend"
                   THEN CashOf(r) ELSE 0
        /\ G2[k] = IF r.ex <= d /\ ReinvestRow(r) /\ d < r.arrive THEN Receivable(r) ELSE 0
        /\ G3[k] = IF r.ex <= d /\ CashRow(r) THEN LegsIn(r, 0..d) ELSE 0
        /\ G12[k] = G1[k] + G2[k]
    BY <1>1 DEF LegMap, Confirmed
  <2>5. /\ ~(ReinvestRow(r) /\ r.kind = "cash_dividend") /\ ~(ReinvestRow(r) /\ CashRow(r))
        /\ ~(CashRow(r) /\ r.status = "confirmed")
    BY DEF ReinvestRow, CashRow, SameDayPending
  <2> HIDE DEF r, L, G1, G2, G3, G12
  <2> QED
    BY <1>1, <2>1, <2>2, <2>3, <2>4, <2>5
<1>7. Adds(G12, G1, G2, S) /\ Adds(L, G12, G3, S)
  <2> HIDE DEF L, G1, G2, G3, G12, S
  <2>1. \A k \in S : G12[k] \in Int
    BY <1>6
  <2> QED
    BY <1>6, <2>1 DEF Adds
<1>8. Addback(p, d) = SumFunctionOnSet(L, S)
  BY LegSums DEF Addback
<1> HIDE DEF F1, F2, F3, G1, G2, G3, G12, L, paying, awaited, open, S
<1>9. SumFunctionOnSet(G1, S) = SumFunctionOnSet(F1, paying)
  <2>1. \A k \in paying : F1[k] \in Int /\ G1[k] = F1[k]
    BY <1>3, <1>4, <1>6
  <2>2. \A k \in S \ paying : G1[k] = 0
    BY <1>4
  <2> QED
    BY <1>1, <1>3, <2>1, <2>2, SumWithin
<1>10. SumFunctionOnSet(G2, S) = SumFunctionOnSet(F2, awaited)
  <2>1. \A k \in awaited : F2[k] \in Int /\ G2[k] = F2[k]
    BY <1>3, <1>4, <1>6
  <2>2. \A k \in S \ awaited : G2[k] = 0
    BY <1>4
  <2> QED
    BY <1>1, <1>3, <2>1, <2>2, SumWithin
<1>11. SumFunctionOnSet(G3, S) = SumFunctionOnSet(F3, open)
  <2>1. \A k \in open : F3[k] \in Int /\ G3[k] = F3[k]
    BY <1>3, <1>5, <1>6
  <2>2. \A k \in S \ open : G3[k] = 0
    BY <1>4
  <2> QED
    BY <1>1, <1>3, <2>1, <2>2, SumWithin
<1>12. /\ SumFunctionOnSet(G12, S) = SumFunctionOnSet(G1, S) + SumFunctionOnSet(G2, S)
       /\ SumFunctionOnSet(G1, S) \in Int /\ SumFunctionOnSet(G2, S) \in Int
  BY <1>1, <1>7, SumPlus
<1>13. /\ SumFunctionOnSet(L, S) = SumFunctionOnSet(G12, S) + SumFunctionOnSet(G3, S)
       /\ SumFunctionOnSet(G12, S) \in Int /\ SumFunctionOnSet(G3, S) \in Int
  BY <1>1, <1>7, SumPlus
<1>14. FlowSum(p, 0, d) \in Int /\ snap[d].shares[p] \in Int
  <2>1. DayTyped(snap[d])
    BY DEF BookInv, Books, ChainTyped, SnapDays
  <2> QED
    BY <2>1, FlowSums DEF DayTyped
<1> QED
  BY <1>2, <1>8, <1>9, <1>10, <1>11, <1>12, <1>13, <1>14

\* The shares a row has brought and the legs so far make what it is worth.
LEMMA LegsWorth ==
    ASSUME NEW r, NEW d, Seen(r, d), d # 0
    PROVE  (IF InShares(r, d) THEN SharesOf(r) ELSE 0) + LegsIn(r, 0..d)
             = IF Counts(r, d) THEN Worth(r) ELSE 0
<1> DEFINE x == Receivable(r)
           sum == LegsIn(r, 0..d)
<1>1. /\ r.ex \in Nat /\ r.pay \in Nat /\ r.arrive \in Nat /\ d \in Nat /\ RowFit(r)
      /\ r.status \in {"pending", "confirmed", "cancelled"} /\ r.platform # "all"
      /\ r.kind \in AllKinds /\ (r.status = "confirmed" => r.kind # "dividend_pending")
  BY Days1 DEF Seen, RowFit, RowTyped, Shape
<1>2. /\ x = Entitled(snap, r) * r.qty /\ x \in Int /\ CashOf(r) \in Int /\ SharesOf(r) \in Int
      /\ Worth(r) = IF Dividend(r) THEN x ELSE SharesOf(r)
  <2>1. x = Entitled(snap, r) * r.qty /\ x \in Int /\ CashOf(r) \in Int
    BY LegsShape
  <2>2. SharesOf(r) \in Int
    BY <1>1, Amounted DEF RowFit
  <2> QED
    BY <2>1, <2>2 DEF Worth, Entitled
<1>3. /\ r.status = "confirmed" /\ r.kind = "reinvest_dividend" => SharesOf(r) = x
      /\ r.status = "confirmed" /\ r.kind = "cash_dividend" => CashOf(r) = x
  BY <1>2 DEF Seen, SharesOf, CashOf
<1>4. /\ sum \in Int
      /\ r.ex > d => sum = 0
      /\ r.ex <= d =>
           /\ r.kind = "cash_dividend" /\ r.status = "confirmed" => sum = CashOf(r)
           /\ ReinvestRow(r) => sum = IF d < r.arrive THEN x ELSE 0
           /\ CashRow(r) => sum = IF r.kind # "cash_dividend" \/ d < r.pay THEN x ELSE 0
           /\ ~(r.kind = "cash_dividend" /\ r.status = "confirmed") /\ ~ReinvestRow(r)
                /\ ~CashRow(r) => sum = 0
  BY LegsUpTo
<1> HIDE DEF x, sum
<1>5. CASE r.ex > d
  <2>1. ~InShares(r, d) /\ ~Counts(r, d)
    BY <1>1, <1>5, SettledAfterEx DEF Counts
  <2> QED
    BY <1>4, <1>5, <2>1 DEF sum
<1>6. CASE r.ex <= d /\ r.status = "cancelled"
  <2>1. ~InShares(r, d) /\ ~Counts(r, d) /\ ~ReinvestRow(r) /\ ~CashRow(r)
    BY <1>6 DEF InShares, Counts, ReinvestRow, CashRow
  <2> QED
    BY <1>4, <1>6, <2>1 DEF sum
<1>7. CASE r.ex <= d /\ r.status = "pending"
  <2>1. NotDue(r, d)
    BY <1>7 DEF Seen
  <2>2. /\ Dividend(r)
        /\ \/ r.kind = "cash_dividend" /\ r.pay # NoDate /\ d < r.pay
           \/ r.kind = "reinvest_dividend" /\ r.arrive # NoDate /\ d < r.arrive
           \/ SameDayPending(r) /\ r.ex = d
    BY <1>1, <1>7, <2>1, PendingUnderWay
  <2>3. ~InShares(r, d) /\ Counts(r, d)
    BY <1>1, <1>7 DEF InShares, Counts
  <2>4. sum = x
    BY <1>1, <1>4, <1>7, <2>2 DEF ReinvestRow, CashRow, SameDayPending
  <2> QED
    BY <1>2, <2>2, <2>3, <2>4 DEF sum
<1>8. CASE r.ex <= d /\ r.status = "confirmed"
  <2>1. Counts(r, d) /\ ~CashRow(r)
    BY <1>1, <1>8 DEF Counts, CashRow
  <2>2. CASE r.kind = "cash_dividend"
    <3>1. ~InShares(r, d) /\ sum = x /\ Worth(r) = x
      BY <1>2, <1>3, <1>4, <1>8, <2>2 DEF InShares, Dividend
    <3> QED
      BY <1>2, <2>1, <3>1 DEF sum
  <2>3. CASE r.kind = "reinvest_dividend"
    <3>1. Worth(r) = x /\ SharesOf(r) = x
      BY <1>2, <1>3, <1>8, <2>3 DEF Dividend
    <3>2. ReinvestRow(r) <=> r.arrive # NoDate
      BY <1>8, <2>3 DEF ReinvestRow
    <3>3. InShares(r, d) <=> r.arrive = NoDate \/ ~(d < r.arrive)
      BY <1>1, <1>8, <2>3 DEF InShares, ShareDay
    <3>4. sum = IF InShares(r, d) THEN 0 ELSE x
      BY <1>4, <1>8, <2>1, <2>3, <3>2, <3>3
    <3> QED
      BY <1>2, <2>1, <3>1, <3>4 DEF sum
  <2>4. CASE r.kind \in {"share_split", "forced_adjustment"}
    <3>1. Worth(r) = SharesOf(r) /\ InShares(r, d) /\ ~ReinvestRow(r)
      BY <1>1, <1>2, <1>8, <2>4 DEF Dividend, InShares, ShareDay, ReinvestRow
    <3>2. sum = 0
      BY <1>4, <1>8, <2>1, <2>4, <3>1
    <3> QED
      BY <1>2, <2>1, <3>1, <3>2 DEF sum
  <2> QED
    BY <1>1, <1>8, <2>2, <2>3, <2>4 DEF AllKinds
<1> QED
  BY <1>1, <1>5, <1>6, <1>7, <1>8

\* Reading a day in step shows each event at its worth from its ex date on, and
\* no profit of cash, before and after the event is confirmed, paid or
\* reinvested.
THEOREM ProfitAlwaysOnce == Spec => []ProfitOnce
<1>1. ASSUME IInv, BookInv, Idle, NEW d \in SnapDays \ {0}, NEW p \in Platforms, ~snap[d].stale
      PROVE  /\ CumulativeCashProfit(p, d) = 0
             /\ CumulativeFundProfit(p, d) = OpeningShares[p] + snap[d].dropped[p]
                  + Sum(LAMBDA k : Worth(events[k]), Counted(d) \cap EventsAt(p))
  <2> DEFINE S == EventsAt(p)
  <2>1. /\ Replays(events, snap, d) /\ RowsTyped(events) /\ DayTyped(snap[d])
        /\ d \in SnapDays /\ d # 0
    <3>1. d \in InStep(snap, Passed)
      <4>1. d \in 0..LastDay /\ Passed = LastDay + 1 /\ LastDay \in Nat
        BY <1>1, ChainDays, DaysAreNumbers
      <4> QED
        BY <1>1, <4>1 DEF InStep, SnapDays
    <3> QED
      BY <1>1, <3>1 DEF BookInv, Books, ChainTyped, SnapDays
  <2>2. Gained(events, p, 0, d) \in Int /\ Received(events, p, 0, d) \in Int
    BY <2>1, Windows
  <2>3. CumulativeCashProfit(p, d) = 0
    <3>1. snap[d].cash[p] = Received(events, p, 0, d)
      BY <2>1 DEF Replays
    <3>2. Paid(p, 0, d) = Received(events, p, 0, d)
      BY <1>1, PaidReceived
    <3> QED
      BY <2>2, <3>1, <3>2 DEF CumulativeCashProfit
  <2>4. /\ CumulativeFundProfit(p, d) = snap[d].shares[p] - FlowSum(p, 0, d) + Addback(p, d)
        /\ Addback(p, d) \in Int /\ FlowSum(p, 0, d) \in Int /\ snap[d].shares[p] \in Int
    BY <1>1, <2>1, CumulativeLegs
  <2>5. snap[d].shares[p] - snap[d].dropped[p]
          = OpeningShares[p] + FlowSum(p, 0, d) + Gained(events, p, 0, d)
    BY <2>1 DEF Replays
  <2>6. OpeningShares[p] \in Int /\ snap[d].dropped[p] \in Int
    BY <2>1, HoldingAssumption DEF DayTyped
  <2>7. IsFiniteSet(S) /\ d \in Nat
        /\ \A k \in S : k \in DOMAIN events /\ k \in PlatformRows /\ Seen(events[k], d)
    BY <1>1, <2>1, RowsAt
  <2>8. Sum(LAMBDA k : Worth(events[k]), Counted(d) \cap S) = SumFunctionOnSet(WorthMap(d), S)
    <3>1. S \in SUBSET PlatformRows
      BY <2>7
    <3> QED
      BY <1>1, <2>1, <3>1, WorthCounted
  <2>9. SumFunctionOnSet(SharesIn(d), S) = Gained(events, p, 0, d)
    BY <1>1, <2>1, WindowsGive
  <2>10. Addback(p, d) = SumFunctionOnSet(LegMap(p, 0..d), S)
    BY LegSums DEF Addback
  <2>11. Adds(WorthMap(d), SharesIn(d), LegMap(p, 0..d), S)
    <3>1. ASSUME NEW k \in S
          PROVE  /\ SharesIn(d)[k] \in Int /\ LegMap(p, 0..d)[k] \in Int
                 /\ WorthMap(d)[k] = SharesIn(d)[k] + LegMap(p, 0..d)[k]
      <4> DEFINE r == events[k]
      <4>1. /\ SharesIn(d)[k] = (IF InShares(r, d) THEN SharesOf(r) ELSE 0)
            /\ LegMap(p, 0..d)[k] = LegsIn(r, 0..d)
            /\ WorthMap(d)[k] = (IF Counts(r, d) THEN Worth(r) ELSE 0)
        BY <2>7 DEF SharesIn, LegMap, WorthMap
      <4>2. Seen(r, d)
        BY <2>7
      <4> HIDE DEF r
      <4>3. SharesOf(r) \in Int
        BY <4>2, Amounted DEF Seen, RowFit
      <4>4. LegsIn(r, 0..d) \in Int
        BY <4>2, LegsUpTo
      <4>5. (IF InShares(r, d) THEN SharesOf(r) ELSE 0) + LegsIn(r, 0..d)
               = IF Counts(r, d) THEN Worth(r) ELSE 0
        BY <2>1, <4>2, LegsWorth
      <4> QED
        BY <4>1, <4>3, <4>4, <4>5
    <3> QED
      BY <3>1 DEF Adds
  <2>12. SumFunctionOnSet(WorthMap(d), S)
           = SumFunctionOnSet(SharesIn(d), S) + SumFunctionOnSet(LegMap(p, 0..d), S)
    BY <2>7, <2>11, SumPlus
  <2>13. CumulativeFundProfit(p, d) = OpeningShares[p] + snap[d].dropped[p]
           + SumFunctionOnSet(WorthMap(d), S)
    <3> DEFINE worth == SumFunctionOnSet(WorthMap(d), S)
               shares == snap[d].shares[p]
               dropped == snap[d].dropped[p]
               opening == OpeningShares[p]
               flow == FlowSum(p, 0, d)
               gained == Gained(events, p, 0, d)
               back == Addback(p, d)
               profit == CumulativeFundProfit(p, d)
    <3>1. worth = gained + back
      BY <2>9, <2>10, <2>12
    <3>2. /\ shares \in Int /\ dropped \in Int /\ opening \in Int /\ flow \in Int
          /\ gained \in Int /\ back \in Int
      BY <2>2, <2>4, <2>6
    <3>3. shares - dropped = opening + flow + gained /\ profit = shares - flow + back
      BY <2>4, <2>5
    <3> HIDE DEF worth, shares, dropped, opening, flow, gained, back, profit
    <3>4. profit = opening + dropped + worth
      BY <3>1, <3>2, <3>3
    <3> QED
      BY <3>4 DEF worth, dropped, opening, profit
  <2> QED
    BY <2>3, <2>8, <2>13
<1>2. IInv /\ BookInv => ProfitOnce
  BY <1>1 DEF ProfitOnce
<1> QED
  BY <1>2, EventBookInvariant, EventBooksFit, PTL

\* No leg of a platform falls between two days of the chain that follow each other.
LEMMA NoLegBetween ==
    ASSUME IInv, BookInv, Idle, NEW e \in SnapDays, NEW d \in SnapDays, d # 0, e < d,
           ~snap[d].stale,
           \A t \in TradingDays : ~(e < t /\ t < d), NEW p \in Platforms, NEW k \in EventsAt(p),
           NEW l \in FundLegs(events[k])
    PROVE  l.day \in Nat /\ ~(e < l.day /\ l.day < d)
<1> DEFINE r == events[k]
<1>1. Seen(r, d) /\ RowFit(r) /\ d \in Nat /\ e \in Nat
  BY RowsAt, ChainDays, DaysAreNumbers DEF Seen
<1>2. l.day \in Nat /\ (\/ l.day = r.ex
                        \/ ReinvestRow(r) /\ l.day = r.arrive
                        \/ CashRow(r) /\ r.kind = "cash_dividend" /\ l.day = r.pay)
  BY <1>1, LegsTyped
<1> HIDE DEF r
<1>3. /\ r.ex \in Nat /\ r.pay \in Nat /\ r.arrive \in Nat
      /\ r.kind # "dividend_pending" => r.ex \in TradingDays
      /\ r.arrive \in TradingDays \cup {NoDate}
      /\ r.status = "pending" => NotDue(r, d)
  BY <1>1 DEF Seen, RowFit, RowTyped, Shape
<1>4. CASE l.day = r.ex
  <2>1. CASE r.kind # "dividend_pending"
    BY <1>3, <1>4, <2>1
  <2>2. CASE r.kind = "dividend_pending"
    <3>1. CASE CashRow(r)
      <4>1. r.status = "pending"
        BY <3>1 DEF CashRow
      <4>2. ~(r.ex < d)
        BY <1>1, <1>3, <2>2, <4>1 DEF NotDue, ShareDay
      <4> QED
        BY <1>3, <1>4, <4>2
    <3>2. CASE ~CashRow(r)
      <4>1. FundLegs(r) = {}
        BY <1>1, <2>2, <3>2, LegsShape DEF ReinvestRow
      <4> QED
        BY <4>1 DEF r
    <3> QED
      BY <3>1, <3>2
  <2> QED
    BY <2>1, <2>2
<1>5. CASE ReinvestRow(r) /\ l.day = r.arrive
  BY <1>3, <1>5 DEF ReinvestRow
<1>6. CASE CashRow(r) /\ r.kind = "cash_dividend" /\ l.day = r.pay
  <2>1. r.status = "pending" /\ r.pay # NoDate
    BY <1>6 DEF CashRow, SameDayPending
  <2>2. d < r.pay
    BY <1>3, <1>6, <2>1 DEF NotDue, CashDay
  <2> QED
    BY <1>1, <1>3, <1>6, <2>2
<1> QED
  BY <1>2, <1>4, <1>5, <1>6

\* So what is added back up to a day is what was up to the day before it, and the
\* legs of the day itself.
LEMMA AddbackGrows ==
    ASSUME IInv, BookInv, Idle, NEW e \in SnapDays, NEW d \in SnapDays, d # 0, e < d,
           ~snap[d].stale,
           \A t \in TradingDays : ~(e < t /\ t < d), NEW p \in Platforms
    PROVE  /\ Addback(p, d) = Addback(p, e) + LegSum(p, {d})
           /\ LegSum(p, {d}) \in Int
<1> DEFINE S == EventsAt(p)
<1>1. d \in Nat /\ e \in Nat /\ IsFiniteSet(S) /\ \A k \in S : Seen(events[k], d)
  BY RowsAt, ChainDays, DaysAreNumbers
<1>2. ASSUME NEW k \in S
      PROVE  /\ LegMap(p, 0..e)[k] \in Int /\ LegMap(p, {d})[k] \in Int
             /\ LegMap(p, 0..d)[k] = LegMap(p, 0..e)[k] + LegMap(p, {d})[k]
  <2> DEFINE X == FundLegs(events[k])
             A == {l \in X : l.day \in 0..e}
             B == {l \in X : l.day \in {d}}
  <2>1. IsFiniteSet(X) /\ \A l \in X : l.day \in Nat /\ l.amount \in Int
    BY <1>1, LegsTyped
  <2>2. \A l \in X : ~(e < l.day /\ l.day < d)
    BY NoLegBetween
  <2>3. {l \in X : l.day \in 0..d} = A \cup B /\ A \cap B = {}
    <3> HIDE DEF X
    <3> QED
      BY <1>1, <2>1, <2>2
  <2>4. A \in SUBSET X /\ B \in SUBSET X
    OBVIOUS
  <2>5. /\ LegMap(p, 0..e)[k] = Added(A) /\ LegMap(p, {d})[k] = Added(B)
        /\ LegMap(p, 0..d)[k] = Added({l \in X : l.day \in 0..d})
    BY DEF LegMap, LegsIn
  <2> HIDE DEF A, B, X
  <2>6. Added(A \cup B) = Added(A) + Added(B) /\ Added(A) \in Int /\ Added(B) \in Int
    <3>1. IsFiniteSet(X) /\ \A l \in X : l.amount \in Int
      BY <2>1
    <3>2. Added(A) \in Int /\ Added(B) \in Int
      BY <2>4, <3>1, AddedSub
    <3>3. Added(A \cup B) = Added(A) + Added(B)
      BY <2>3, <2>4, <3>1, AddedSplit
    <3> QED
      BY <3>2, <3>3
  <2> QED
    BY <2>3, <2>5, <2>6
<1>3. Adds(LegMap(p, 0..d), LegMap(p, 0..e), LegMap(p, {d}), S)
  BY <1>2 DEF Adds
<1>4. /\ SumFunctionOnSet(LegMap(p, 0..d), S)
           = SumFunctionOnSet(LegMap(p, 0..e), S) + SumFunctionOnSet(LegMap(p, {d}), S)
      /\ SumFunctionOnSet(LegMap(p, {d}), S) \in Int
  BY <1>1, <1>3, SumPlus
<1> QED
  BY <1>4, LegSums DEF Addback

\* The profits of the days add up to the profit since the beginning: nothing falls
\* between two days of the chain, or it is taken with the later one.
THEOREM DailiesAlwaysAddUp == Spec => []DailiesAddUp
<1>1. ASSUME IInv, BookInv, Idle, NEW d \in SnapDays \ {0}, NEW p \in Platforms, ~snap[d].stale,
             NEW e, e = PrevSnapDay(d)
      PROVE  /\ DailyCashProfit(p, d) = 0
             /\ CumulativeFundProfit(p, d) = snap[d].shares[p] - FlowSum(p, 0, d) + Addback(p, d)
             /\ DayBeforeStored(d) =>
                  CumulativeFundProfit(p, e) + DailyFundProfit(p, d) = CumulativeFundProfit(p, d)
  <2>1. /\ d \in SnapDays /\ d # 0 /\ d \in Nat /\ d > 0 /\ d < Passed
        /\ SnapDays \subseteq 0..LastDay /\ 0 \in SnapDays /\ LastDay \in Nat
    BY <1>1, ChainDays, DaysAreNumbers
  <2>2. e \in SnapDays /\ e \in Nat /\ e < d /\ \A x \in SnapDays : x < d => x <= e
    BY <1>1, <2>1, DayBefore DEF PrevSnapDay
  <2>3. ~snap[e].stale
    BY <1>1, <2>1, <2>2 DEF BookInv, Books, StepsBack, InStep, SnapDays
  <2>4. RowsTyped(events) /\ Replays(events, snap, d) /\ Replays(events, snap, e)
        /\ \A k \in DOMAIN events : RowFit(events[k])
    <3>1. d \in InStep(snap, Passed) /\ e \in InStep(snap, Passed)
      <4>1. Passed \in Nat /\ e < Passed
        BY <1>1, <2>1, <2>2, ChainDays
      <4> QED
        BY <1>1, <2>1, <2>2, <2>3, <4>1 DEF InStep, SnapDays
    <3>2. Books(events, snap, Passed) /\ BookOK(events, snap, Passed)
      BY <1>1 DEF IInv, BookInv
    <3>3. RowsTyped(events) /\ Replays(events, snap, d) /\ Replays(events, snap, e)
      BY <3>1, <3>2 DEF Books
    <3> QED
      BY <3>2, <3>3, AllFit
  <2>5. ASSUME DayBeforeStored(d)
        PROVE  \A t \in TradingDays : ~(e < t /\ t < d)
    BY <1>1, <2>1, <2>5, Days1 DEF DayBeforeStored
  <2>6. DailyCashProfit(p, d) = 0
    <3>1. DailyCashProfit(p, d) = snap[d].cash[p] - snap[e].cash[p] - Paid(p, e, d)
      BY <1>1 DEF DailyCashProfit
    <3>2. Paid(p, e, d) = Received(events, p, e, d)
      BY <1>1, PaidReceived
    <3>3. snap[d].cash[p] = Received(events, p, 0, d) /\ snap[e].cash[p] = Received(events, p, 0, e)
      BY <2>4 DEF Replays
    <3>4. Received(events, p, 0, d) = Received(events, p, 0, e) + Received(events, p, e, d)
      BY <2>1, <2>2, <2>4, WindowsJoin
    <3>5. Received(events, p, 0, e) \in Int /\ Received(events, p, e, d) \in Int
      BY <2>4, Windows
    <3> QED
      BY <3>1, <3>2, <3>3, <3>4, <3>5
  <2>7. /\ CumulativeFundProfit(p, d) = snap[d].shares[p] - FlowSum(p, 0, d) + Addback(p, d)
        /\ Addback(p, d) \in Int /\ FlowSum(p, 0, d) \in Int /\ snap[d].shares[p] \in Int
    BY <1>1, <2>1, CumulativeLegs
  <2>8. /\ CumulativeFundProfit(p, e) = snap[e].shares[p] - FlowSum(p, 0, e) + Addback(p, e)
        /\ Addback(p, e) \in Int /\ FlowSum(p, 0, e) \in Int /\ snap[e].shares[p] \in Int
    BY <1>1, <2>2, <2>3, CumulativeLegs
  <2>9. ASSUME DayBeforeStored(d)
        PROVE  Addback(p, d) = Addback(p, e) + LegSum(p, {d}) /\ LegSum(p, {d}) \in Int
    BY <1>1, <2>1, <2>2, <2>5, <2>9, AddbackGrows
  <2>10. ASSUME DayBeforeStored(d)
         PROVE  /\ FlowSum(p, 0, d) = FlowSum(p, 0, e) + FlowSum(p, d - 1, d)
                /\ FlowSum(p, d - 1, d) \in Int
    <3>1. d - 1 \in Nat /\ e <= d - 1 /\ d - 1 <= d /\ 0 <= e /\ 0 \in Nat
      BY <2>1, <2>2
    <3>2. FlowSum(p, 0, d) = FlowSum(p, 0, e) + FlowSum(p, e, d)
      BY <1>1, <2>1, <2>2, <3>1, FlowsJoin
    <3>3. FlowSum(p, e, d) = FlowSum(p, e, d - 1) + FlowSum(p, d - 1, d)
      BY <1>1, <2>1, <2>2, <3>1, FlowsJoin
    <3>4. FlowSum(p, e, d - 1) = 0
      <4>1. Flows(p, e, d - 1) = {}
        <5> SUFFICES ASSUME NEW t \in TradingDays, e < t, t <= d - 1 PROVE FALSE
          BY DEF Flows
        <5>1. t \in Nat /\ ~(e < t /\ t < d)
          BY <2>5, <2>10, Days1
        <5> QED
          BY <2>1, <5>1
      <4> QED
        BY <1>1, <4>1, FlowSums, SumEmpty
    <3>5. FlowSum(p, 0, e) \in Int /\ FlowSum(p, d - 1, d) \in Int
      BY <1>1, FlowSums
    <3> QED
      BY <3>2, <3>3, <3>4, <3>5
  <2>11. DailyFundProfit(p, d)
           = snap[d].shares[p] - snap[e].shares[p] - FlowSum(p, d - 1, d) + LegSum(p, {d})
    BY <1>1 DEF DailyFundProfit
  <2>12. ASSUME DayBeforeStored(d)
         PROVE  CumulativeFundProfit(p, e) + DailyFundProfit(p, d) = CumulativeFundProfit(p, d)
    <3> DEFINE shares == snap[d].shares[p]
               before == snap[e].shares[p]
               flow == FlowSum(p, 0, d)
               early == FlowSum(p, 0, e)
               late == FlowSum(p, d - 1, d)
               back == Addback(p, d)
               earlier == Addback(p, e)
               legs == LegSum(p, {d})
               profit == CumulativeFundProfit(p, d)
               until == CumulativeFundProfit(p, e)
               daily == DailyFundProfit(p, d)
    <3>1. /\ shares \in Int /\ before \in Int /\ flow \in Int /\ early \in Int /\ late \in Int
          /\ back \in Int /\ earlier \in Int /\ legs \in Int
      BY <2>7, <2>8, <2>9, <2>10, <2>12
    <3>2. /\ profit = shares - flow + back /\ until = before - early + earlier
          /\ daily = shares - before - late + legs
          /\ back = earlier + legs /\ flow = early + late
      BY <2>7, <2>8, <2>9, <2>10, <2>11, <2>12
    <3> HIDE DEF shares, before, flow, early, late, back, earlier, legs, profit, until, daily
    <3>3. until + daily = profit
      BY <3>1, <3>2
    <3> QED
      BY <3>3 DEF until, daily, profit
  <2> QED
    BY <2>6, <2>7, <2>12
<1>2. IInv /\ BookInv => DailiesAddUp
  BY <1>1 DEF DailiesAddUp
<1> QED
  BY <1>2, EventBookInvariant, EventBooksFit, PTL

-----------------------------------------------------------------------------
(* A recalculation repeats the chain                                       *)

\* What the holders on a day hold together.
HeldSum(chain, d) == Sum(LAMBDA p : StoredBase(chain, p, d), Holders(chain, d))

\* A child has the terms of its split, on the shares of its own platform; a
\* confirmed split stands for what the holders hold.
SplitRow(rows, k, chain) ==
    LET parent == <<k[1], "self">>
    IN  /\ Child(k) =>
              /\ rows[k].kind = "share_split" /\ rows[k].platform = k[2] /\ rows[k].base > 0
              /\ parent \in DOMAIN rows
              /\ rows[parent].platform = "all" /\ rows[k].qty = rows[parent].qty
        /\ rows[k].status = "confirmed" /\ rows[k].platform = "all" =>
              rows[k].base = HeldSum(chain, rows[k].ent)
SplitOK(rows, chain) == \A k \in DOMAIN rows : SplitRow(rows, k, chain)

\* Every holder has a child of a confirmed split.
Full(rows, chain) ==
    \A k \in DOMAIN rows : rows[k].status = "confirmed" /\ rows[k].platform = "all" =>
        \A p \in Holders(chain, rows[k].ent) : <<k[1], p>> \in DOMAIN rows

\* What a day after the day before drops it drops for good, and a platform that
\* drops shares has none.
Clipped(chain, n) ==
    \A b, d \in DOMAIN chain :
        b < d /\ d < n /\ (\A e \in TradingDays : ~(b < e /\ e < d)) =>
            \A p \in Platforms :
                /\ chain[b].dropped[p] <= chain[d].dropped[p]
                /\ chain[d].shares[p] = 0 \/ chain[b].dropped[p] = chain[d].dropped[p]

\* The same event, settled or not.
SameTerms(r, s) ==
    /\ s.kind = r.kind /\ s.platform = r.platform /\ s.qty = r.qty
    /\ s.ent = r.ent /\ s.ex = r.ex /\ s.pay = r.pay /\ s.arrive = r.arrive
    /\ s.status = "cancelled" <=> r.status = "cancelled"
Recovers(rows, new) ==
    \A e \in Events :
        LET f == <<e, "self">>
        IN  /\ f \in DOMAIN new <=> f \in DOMAIN rows
            /\ f \in DOMAIN rows => SameTerms(rows[f], new[f])

\* What RecalculationRepeats asks of the chain a recalculation starts from.
Repeatable ==
    /\ Whole(saved.events) /\ Missing(DOMAIN saved.snap) = {}
    /\ \A d \in DOMAIN saved.snap : ~saved.snap[d].stale

\* During a recalculation the events are those it started with, settled or to be
\* settled again, and the days, rebuilt or not, are what they were.
Again ==
    /\ Full(events, snap) /\ Recovers(saved.events, events)
    /\ DOMAIN saved.snap \subseteq SnapDays
    /\ \A d \in DOMAIN saved.snap : snap[d] = saved.snap[d]

RepeatInv ==
    /\ SplitOK(events, snap) /\ Clipped(snap, Passed)
    /\ ~Idle =>
          /\ SplitOK(saved.events, saved.snap) /\ Clipped(saved.snap, LastDay + 1)
          /\ Repeatable => Again

\* Two chains that hold the same on a day.
LEMMA SameHolders ==
    ASSUME NEW chain, NEW other, NEW d,
           \A p \in Platforms : StoredBase(other, p, d) = StoredBase(chain, p, d)
    PROVE  Holders(other, d) = Holders(chain, d) /\ HeldSum(other, d) = HeldSum(chain, d)
<1>1. Holders(other, d) = Holders(chain, d)
  BY DEF Holders
<1>2. [p \in Holders(other, d) |-> StoredBase(other, p, d)]
        = [p \in Holders(chain, d) |-> StoredBase(chain, p, d)]
  BY <1>1 DEF Holders
<1> QED
  BY <1>1, <1>2 DEF HeldSum, Sum

\* Only the holdings of the entitlement date matter to a confirmed split.
LEMMA SplitRowMoved ==
    ASSUME NEW rows, NEW k, NEW chain, NEW other, SplitRow(rows, k, chain),
           rows[k].status = "confirmed" =>
              \A p \in Platforms :
                 StoredBase(other, p, rows[k].ent) = StoredBase(chain, p, rows[k].ent)
    PROVE  SplitRow(rows, k, other)
BY SameHolders DEF SplitRow

\* What the confirmation of an event writes is a split with all its children, or
\* no split.
LEMMA RowsOfSplit ==
    ASSUME NEW chain, ChainTyped(chain), NEW e \in Events, NEW r, RowFit(r), Confirmable(chain, r)
    PROVE  LET new == RowsOf(chain, e, r)
           IN  /\ <<e, "self">> \in DOMAIN new
               /\ SplitOK(new, chain) /\ Full(new, chain)
<1> DEFINE f == <<e, "self">>
           new == RowsOf(chain, e, r)
<1>1. /\ f[1] = e /\ ~Child(f) /\ Shape(r) /\ RowTyped(r)
      /\ "all" \notin Platforms
      /\ \A p \in Platforms : Child(<<e, p>>) /\ <<e, p>>[1] = e /\ <<e, p>>[2] = p
  BY Keys, NameAssumption DEF RowFit
<1>2. CASE r.platform = "all"
  <2> DEFINE base == HeldSum(chain, r.ent)
  <2>1. /\ DOMAIN new = {f} \cup {<<e, p>> : p \in Holders(chain, r.ent)}
        /\ new[f] = [r EXCEPT !.status = "confirmed", !.base = base]
    BY <1>1, <1>2 DEF RowsOf, SplitRows, HeldSum
  <2>2. \A p \in Holders(chain, r.ent) :
           /\ p \in Platforms
           /\ new[<<e, p>>] = ConfirmedRow(chain, [r EXCEPT !.platform = p])
    BY <1>1, <1>2 DEF RowsOf, SplitRows, Holders
  <2> HIDE DEF new, base
  <2>3. SettledAs(new[f], r, "all", base)
    <3>1. new[f] = [r EXCEPT !.status = "confirmed", !.base = base]
      BY <2>1
    <3>2. r = [r EXCEPT !.platform = "all"]
      BY <1>1, <1>2, SamePlatform
    <3> QED
      BY <1>1, <3>1, <3>2, SettledFrom
  <2>4. r.kind = "share_split"
    BY <1>1, <1>2 DEF RowTyped
  <2>5. ASSUME NEW p \in Holders(chain, r.ent)
        PROVE  /\ SettledAs(new[<<e, p>>], r, p, StoredBase(chain, p, r.ent))
               /\ StoredBase(chain, p, r.ent) > 0
    <3>1. [r EXCEPT !.platform = p].platform = p /\ [r EXCEPT !.platform = p].ent = r.ent
      BY <1>1 DEF Shape
    <3>2. new[<<e, p>>] = [[r EXCEPT !.platform = p]
                             EXCEPT !.status = "confirmed", !.base = StoredBase(chain, p, r.ent)]
      BY <2>2, <3>1 DEF ConfirmedRow
    <3>3. SettledAs(new[<<e, p>>], r, p, StoredBase(chain, p, r.ent))
      BY <1>1, <3>2, SettledFrom
    <3> QED
      BY <3>3 DEF Holders
  <2>6. SplitRow(new, f, chain)
    BY <1>1, <2>3 DEF SplitRow, SettledAs, base
  <2>7. ASSUME NEW p \in Holders(chain, r.ent)
        PROVE  SplitRow(new, <<e, p>>, chain) /\ new[<<e, p>>].platform # "all"
    <3> DEFINE k == <<e, p>>
    <3>1. p # "all" /\ k[1] = e /\ k[2] = p
      BY <1>1, <2>2
    <3>2. /\ new[k].kind = "share_split" /\ new[k].platform = p /\ new[k].base > 0
          /\ new[k].qty = r.qty /\ new[f].platform = "all" /\ new[f].qty = r.qty
      BY <2>3, <2>4, <2>5 DEF SettledAs
    <3> HIDE DEF k
    <3> QED
      BY <2>1, <3>1, <3>2 DEF SplitRow, k
  <2>8. SplitOK(new, chain)
    BY <2>1, <2>6, <2>7 DEF SplitOK
  <2>9. Full(new, chain)
    <3> SUFFICES ASSUME NEW k \in DOMAIN new, new[k].platform = "all",
                        NEW p \in Holders(chain, new[k].ent)
                 PROVE  <<k[1], p>> \in DOMAIN new
      BY DEF Full
    <3>1. k = f
      BY <2>1, <2>7
    <3>2. new[f].ent = r.ent
      BY <2>3 DEF SettledAs
    <3> QED
      BY <1>1, <2>1, <3>1, <3>2
  <2> QED
    BY <2>1, <2>8, <2>9 DEF new
<1>3. CASE r.platform # "all"
  <2>1. DOMAIN new = {f} /\ new[f] = ConfirmedRow(chain, r)
    BY <1>3 DEF RowsOf
  <2>2. new[f].platform = r.platform
    BY <1>1, <2>1 DEF ConfirmedRow, Shape
  <2> HIDE DEF new
  <2> QED
    BY <1>1, <1>3, <2>1, <2>2 DEF SplitOK, SplitRow, Full, new
<1> QED
  BY <1>2, <1>3

\* A child's parent is confirmed, so it is not among the rows of pending events.
LEMMA SplitJoined ==
    ASSUME NEW rows, NEW chain, NEW n, BookOK(rows, chain, n), SplitOK(rows, chain),
           NEW new, SplitOK(new, chain), Full(new, chain),
           \A k \in DOMAIN new : <<k[1], "self">> \in DOMAIN rows
                                 /\ rows[<<k[1], "self">>].status = "pending"
    PROVE  /\ SplitOK(PutAll(rows, new), chain)
           /\ Full(rows, chain) => Full(PutAll(rows, new), chain)
<1> DEFINE joined == PutAll(rows, new)
<1>1. /\ DOMAIN joined = DOMAIN rows \cup DOMAIN new
      /\ \A k \in DOMAIN new : joined[k] = new[k]
      /\ \A k \in DOMAIN rows \ DOMAIN new : joined[k] = rows[k]
  BY DEF PutAll
<1> HIDE DEF joined
<1>2. ASSUME NEW k \in DOMAIN joined
      PROVE  SplitRow(joined, k, chain)
  <2>1. CASE k \in DOMAIN new
    <3>1. SplitRow(new, k, chain)
      BY <2>1 DEF SplitOK
    <3> QED
      BY <1>1, <2>1, <3>1 DEF SplitRow
  <2>2. CASE k \in DOMAIN rows \ DOMAIN new
    <3> DEFINE parent == <<k[1], "self">>
    <3>1. SplitRow(rows, k, chain) /\ ParentOK(rows, k)
      BY <2>2 DEF SplitOK, BookOK
    <3>2. parent[1] = k[1]
      BY Keys
    <3>3. Child(k) => parent \in DOMAIN rows \ DOMAIN new
      BY <3>1, <3>2 DEF ParentOK
    <3> QED
      BY <1>1, <2>2, <3>1, <3>3 DEF SplitRow
  <2> QED
    BY <1>1, <2>1, <2>2
<1>3. ASSUME Full(rows, chain), NEW k \in DOMAIN joined, joined[k].status = "confirmed",
             joined[k].platform = "all", NEW p \in Holders(chain, joined[k].ent)
      PROVE  <<k[1], p>> \in DOMAIN joined
  <2>1. CASE k \in DOMAIN new
    BY <1>1, <1>3, <2>1 DEF Full
  <2>2. CASE k \in DOMAIN rows \ DOMAIN new
    BY <1>1, <1>3, <2>2 DEF Full
  <2> QED
    BY <1>1, <2>1, <2>2
<1> QED
  BY <1>2, <1>3 DEF SplitOK, Full, joined

\* Nor are there children of an event of one row that is written over.
LEMMA SplitReplaced ==
    ASSUME NEW rows, NEW chain, NEW n, BookOK(rows, chain, n), SplitOK(rows, chain),
           NEW f, ~Child(f), NEW new, DOMAIN new = DOMAIN rows \cup {f},
           \A k \in DOMAIN rows : k # f => new[k] = rows[k],
           f \in DOMAIN rows => rows[f].status # "confirmed",
           new[f].status # "confirmed"
    PROVE  SplitOK(new, chain)
<1> SUFFICES ASSUME NEW k \in DOMAIN new PROVE SplitRow(new, k, chain)
  BY DEF SplitOK
<1>1. CASE k = f
  BY <1>1 DEF SplitRow
<1>2. CASE k # f
  <2>1. k \in DOMAIN rows /\ SplitRow(rows, k, chain) /\ ParentOK(rows, k)
    BY <1>2 DEF SplitOK, BookOK
  <2> QED
    BY <1>2, <2>1 DEF SplitRow, ParentOK
<1> QED
  BY <1>1, <1>2

\* The confirmed events of a table that is taken back are there as they were.
LEMMA SplitWithdrawn ==
    ASSUME NEW chain, NEW n, BookOK(events, chain, n), SplitOK(events, chain), NEW es,
           NEW other,
           \A k \in DOMAIN events : k[1] \notin es /\ events[k].status = "confirmed" =>
              \A p \in Platforms :
                 StoredBase(other, p, events[k].ent) = StoredBase(chain, p, events[k].ent)
    PROVE  /\ SplitOK(Withdrawn(es), other)
           /\ Full(events, chain) => Full(Withdrawn(es), other)
<1> DEFINE w == Withdrawn(es)
<1>1. /\ DOMAIN w = {j \in DOMAIN events : ~Child(j) \/ j[1] \notin es}
      /\ \A k \in DOMAIN w : k[1] \notin es => w[k] = events[k]
      /\ \A k \in DOMAIN w : k[1] \in es =>
            w[k] = [events[k] EXCEPT !.status = "pending", !.base = 0]
  BY DEF Withdrawn
<1> HIDE DEF w
<1>2. ASSUME NEW k \in DOMAIN w, k[1] \in es
      PROVE  ~Child(k) /\ w[k].status = "pending"
  <2>1. Shape(events[k])
    BY <1>1 DEF BookOK, RowOK
  <2> QED
    BY <1>1, <1>2, <2>1 DEF Shape
<1>3. ASSUME NEW k \in DOMAIN w
      PROVE  SplitRow(w, k, other)
  <2>1. CASE k[1] \in es
    BY <1>2, <2>1 DEF SplitRow
  <2>2. CASE k[1] \notin es
    <3> DEFINE parent == <<k[1], "self">>
    <3>1. /\ k \in DOMAIN events /\ w[k] = events[k]
      BY <1>1, <2>2
    <3>2. SplitRow(events, k, other)
      BY <2>2, <3>1, SplitRowMoved DEF SplitOK
    <3>3. parent[1] = k[1] /\ ~Child(parent)
      BY Keys
    <3>4. parent \in DOMAIN events => parent \in DOMAIN w /\ w[parent] = events[parent]
      BY <1>1, <2>2, <3>3
    <3> QED
      BY <3>1, <3>2, <3>4 DEF SplitRow
  <2> QED
    BY <2>1, <2>2
<1>4. ASSUME Full(events, chain), NEW k \in DOMAIN w, w[k].status = "confirmed",
             w[k].platform = "all", NEW p \in Holders(other, w[k].ent)
      PROVE  <<k[1], p>> \in DOMAIN w
  <2>1. k[1] \notin es /\ k \in DOMAIN events /\ w[k] = events[k]
    BY <1>1, <1>2, <1>4
  <2>2. Holders(other, w[k].ent) = Holders(chain, w[k].ent)
    BY <1>4, <2>1, SameHolders
  <2>3. <<k[1], p>> \in DOMAIN events /\ <<k[1], p>>[1] = k[1]
    BY <1>4, <2>1, <2>2 DEF Full
  <2> QED
    BY <1>1, <2>1, <2>3
<1> QED
  BY <1>3, <1>4 DEF SplitOK, Full, w

\* What the automatic confirmation writes is, event by event, what confirming it
\* writes.
WrittenByEvent(new, rows, chain) ==
    \A k \in DOMAIN new :
        LET e == k[1]
            r == rows[<<e, "self">>]
        IN  /\ e \in Events /\ <<e, "self">> \in DOMAIN rows /\ r.status = "pending"
            /\ RowFit(r) /\ Confirmable(chain, r)
            /\ k \in DOMAIN RowsOf(chain, e, r) /\ new[k] = RowsOf(chain, e, r)[k]
            /\ DOMAIN RowsOf(chain, e, r) \subseteq DOMAIN new

LEMMA AutoWrites ==
    ASSUME NEW rows, NEW chain, NEW n, BookOK(rows, chain, n), RowsTyped(rows), NEW l
    PROVE  \E new : /\ AutoConfirmed(rows, chain, l) = PutAll(rows, new)
                    /\ WrittenByEvent(new, rows, chain)
<1> DEFINE next == {c \in TradingDays : IsTradingDaysAfter(l, 1, c) /\ c <= today}
           self(e) == rows[<<e, "self">>]
           done == {e \in UNION {Due(rows, l, c) : c \in next} : Confirmable(chain, self(e))}
           new == [k \in UNION {DOMAIN RowsOf(chain, e, self(e)) : e \in done} |->
                     RowsOf(chain, k[1], self(k[1]))[k]]
<1>1. AutoConfirmed(rows, chain, l) = PutAll(rows, new)
  BY DEF AutoConfirmed
<1>2. \A e \in done : /\ e \in Events /\ <<e, "self">> \in DOMAIN rows
                      /\ self(e).status = "pending" /\ Confirmable(chain, self(e))
  BY DEF Due
<1>3. /\ DOMAIN new = UNION {DOMAIN RowsOf(chain, e, self(e)) : e \in done}
      /\ \A k \in DOMAIN new : new[k] = RowsOf(chain, k[1], self(k[1]))[k]
  OBVIOUS
<1> HIDE DEF done, new
<1>4. ASSUME NEW k \in DOMAIN new
      PROVE  LET e == k[1]
             IN  /\ e \in done /\ RowFit(self(e)) /\ k \in DOMAIN RowsOf(chain, e, self(e))
  <2>1. PICK e \in done : k \in DOMAIN RowsOf(chain, e, self(e))
    BY <1>3
  <2>2. RowFit(self(e)) /\ Confirmable(chain, self(e)) /\ e \in Events
    BY <1>2, <2>1, AllFit
  <2>3. Settled(RowsOf(chain, e, self(e)), e, self(e), chain)
    BY <2>2, RowsOfSettles DEF RowFit
  <2>4. k[1] = e
    BY <2>1, <2>3 DEF Settled
  <2> QED
    BY <2>1, <2>2, <2>4
<1>5. WrittenByEvent(new, rows, chain)
  <2> SUFFICES ASSUME NEW k \in DOMAIN new
               PROVE  LET e == k[1]
                          r == rows[<<e, "self">>]
                      IN  /\ e \in Events /\ <<e, "self">> \in DOMAIN rows /\ r.status = "pending"
                          /\ RowFit(r) /\ Confirmable(chain, r)
                          /\ k \in DOMAIN RowsOf(chain, e, r) /\ new[k] = RowsOf(chain, e, r)[k]
                          /\ DOMAIN RowsOf(chain, e, r) \subseteq DOMAIN new
    BY DEF WrittenByEvent
  <2>1. k[1] \in done /\ RowFit(self(k[1])) /\ k \in DOMAIN RowsOf(chain, k[1], self(k[1]))
    BY <1>4
  <2>2. DOMAIN RowsOf(chain, k[1], self(k[1])) \subseteq DOMAIN new
    BY <1>3, <2>1
  <2> QED
    BY <1>2, <1>3, <2>1, <2>2
<1> QED
  BY <1>1, <1>5

LEMMA SplitsTogether ==
    ASSUME NEW rows, NEW chain, ChainTyped(chain), NEW new, WrittenByEvent(new, rows, chain)
    PROVE  SplitOK(new, chain) /\ Full(new, chain)
<1> DEFINE of(k) == RowsOf(chain, k[1], rows[<<k[1], "self">>])
           parent(k) == <<k[1], "self">>
<1>1. ASSUME NEW k \in DOMAIN new
      PROVE  /\ k \in DOMAIN of(k) /\ new[k] = of(k)[k] /\ DOMAIN of(k) \subseteq DOMAIN new
             /\ parent(k) \in DOMAIN new /\ new[parent(k)] = of(k)[parent(k)]
             /\ SplitOK(of(k), chain) /\ Full(of(k), chain)
  <2>1. /\ k[1] \in Events /\ RowFit(rows[parent(k)]) /\ Confirmable(chain, rows[parent(k)])
        /\ k \in DOMAIN of(k) /\ new[k] = of(k)[k] /\ DOMAIN of(k) \subseteq DOMAIN new
    BY DEF WrittenByEvent
  <2>2. /\ parent(k) \in DOMAIN of(k) /\ SplitOK(of(k), chain) /\ Full(of(k), chain)
    BY <2>1, RowsOfSplit
  <2>3. parent(k)[1] = k[1]
    BY Keys
  <2>4. new[parent(k)] = of(parent(k))[parent(k)]
    BY <2>1, <2>2 DEF WrittenByEvent
  <2> QED
    BY <2>1, <2>2, <2>3, <2>4
<1>2. ASSUME NEW k \in DOMAIN new
      PROVE  SplitRow(new, k, chain)
  <2>1. SplitRow(of(k), k, chain)
    BY <1>1 DEF SplitOK
  <2> HIDE DEF of
  <2> QED
    BY <1>1, <2>1 DEF SplitRow
<1>3. ASSUME NEW k \in DOMAIN new, new[k].status = "confirmed", new[k].platform = "all",
             NEW p \in Holders(chain, new[k].ent)
      PROVE  <<k[1], p>> \in DOMAIN new
  <2>1. Full(of(k), chain) /\ k \in DOMAIN of(k) /\ of(k)[k] = new[k] /\ DOMAIN of(k) \subseteq DOMAIN new
    BY <1>1
  <2> HIDE DEF of
  <2> QED
    BY <1>3, <2>1 DEF Full
<1> QED
  BY <1>2, <1>3 DEF SplitOK, Full

\* The automatic confirmation settles events and changes nothing else about them.
LEMMA AutoConfirmedRepeats ==
    ASSUME NEW rows, NEW chain, NEW n, BookOK(rows, chain, n), RowsTyped(rows), ChainTyped(chain),
           SplitOK(rows, chain), NEW l
    PROVE  LET new == AutoConfirmed(rows, chain, l)
           IN  /\ SplitOK(new, chain)
               /\ Full(rows, chain) => Full(new, chain)
               /\ Recovers(rows, new)
<1>1. PICK new : AutoConfirmed(rows, chain, l) = PutAll(rows, new) /\ WrittenByEvent(new, rows, chain)
  BY AutoWrites
<1>2. SplitOK(new, chain) /\ Full(new, chain)
  BY <1>1, SplitsTogether
<1>3. \A k \in DOMAIN new : <<k[1], "self">> \in DOMAIN rows
                            /\ rows[<<k[1], "self">>].status = "pending"
  BY <1>1 DEF WrittenByEvent
<1>4. /\ SplitOK(PutAll(rows, new), chain)
      /\ Full(rows, chain) => Full(PutAll(rows, new), chain)
  BY <1>2, <1>3, SplitJoined
<1>5. Recovers(rows, PutAll(rows, new))
  <2> SUFFICES ASSUME NEW e \in Events
               PROVE  LET f == <<e, "self">>
                      IN  /\ f \in DOMAIN PutAll(rows, new) <=> f \in DOMAIN rows
                          /\ f \in DOMAIN rows => SameTerms(rows[f], PutAll(rows, new)[f])
    BY DEF Recovers
  <2> DEFINE f == <<e, "self">>
             joined == PutAll(rows, new)
  <2>1. /\ DOMAIN joined = DOMAIN rows \cup DOMAIN new
        /\ f \in DOMAIN new => joined[f] = new[f]
        /\ f \in DOMAIN rows \ DOMAIN new => joined[f] = rows[f]
    BY DEF PutAll
  <2>2. f[1] = e
    BY Keys
  <2> HIDE DEF joined
  <2>3. CASE f \in DOMAIN new
    <3> DEFINE r == rows[f]
    <3>1. /\ f \in DOMAIN rows /\ r.status = "pending" /\ RowFit(r) /\ Confirmable(chain, r)
          /\ f \in DOMAIN RowsOf(chain, e, r) /\ new[f] = RowsOf(chain, e, r)[f]
      BY <1>1, <2>2, <2>3 DEF WrittenByEvent
    <3>2. WrittenFor(new[f], f, e, r)
      BY <3>1, RowsOfWritten
    <3>3. new[f].platform = r.platform
      <4>1. CASE r.platform # "all"
        BY <3>2, <4>1 DEF WrittenFor
      <4>2. CASE r.platform = "all"
        <5>1. new[f] = [r EXCEPT !.status = "confirmed", !.base = HeldSum(chain, r.ent)]
          BY <3>1, <4>2, Keys DEF RowsOf, SplitRows, HeldSum
        <5>2. Shape(r)
          BY <3>1 DEF RowFit
        <5> HIDE DEF r
        <5> QED
          BY <5>1, <5>2 DEF Shape
      <4> QED
        BY <4>1, <4>2
    <3> QED
      BY <2>1, <2>3, <3>1, <3>2, <3>3 DEF WrittenFor, SameTerms, joined
  <2>4. CASE f \notin DOMAIN new
    BY <2>1, <2>4 DEF SameTerms, joined
  <2> QED
    BY <2>3, <2>4
<1> QED
  BY <1>1, <1>4, <1>5

\* So does taking confirmed events back.
LEMMA WithdrawnRecovers ==
    ASSUME NEW chain, NEW n, BookOK(events, chain, n), NEW es,
           \A e \in es : <<e, "self">> \in Confirmed
    PROVE  Recovers(events, Withdrawn(es))
<1> SUFFICES ASSUME NEW e \in Events
             PROVE  LET f == <<e, "self">>
                    IN  /\ f \in DOMAIN Withdrawn(es) <=> f \in DOMAIN events
                        /\ f \in DOMAIN events => SameTerms(events[f], Withdrawn(es)[f])
  BY DEF Recovers
<1> DEFINE f == <<e, "self">>
           w == Withdrawn(es)
<1>1. f[1] = e /\ ~Child(f)
  BY Keys
<1>2. /\ DOMAIN w = {j \in DOMAIN events : ~Child(j) \/ j[1] \notin es}
      /\ f \in DOMAIN w /\ e \notin es => w[f] = events[f]
      /\ f \in DOMAIN w /\ e \in es =>
            w[f] = [events[f] EXCEPT !.status = "pending", !.base = 0]
  BY <1>1 DEF Withdrawn
<1> HIDE DEF w
<1>3. f \in DOMAIN w <=> f \in DOMAIN events
  BY <1>1, <1>2
<1>4. ASSUME f \in DOMAIN events
      PROVE  SameTerms(events[f], w[f])
  <2>1. Shape(events[f])
    BY <1>4 DEF BookOK, RowOK
  <2>2. CASE e \in es
    <3>1. events[f].status = "confirmed"
      BY <2>2 DEF Confirmed
    <3>2. w[f] = [events[f] EXCEPT !.status = "pending", !.base = 0]
      BY <1>2, <1>3, <1>4, <2>2
    <3> QED
      BY <2>1, <3>1, <3>2 DEF Shape, SameTerms
  <2>3. CASE e \notin es
    BY <1>2, <1>3, <1>4, <2>3 DEF SameTerms
  <2> QED
    BY <2>2, <2>3
<1> QED
  BY <1>3, <1>4 DEF w

LEMMA RecoversOn ==
    ASSUME NEW rows, NEW next, NEW new, Recovers(rows, next), Recovers(next, new)
    PROVE  Recovers(rows, new)
BY DEF Recovers, SameTerms

\* A split whose children add up to it has a child for every holder: what a child
\* stands for is what its platform holds, and every holder holds something.
LEMMA WholeIsFull ==
    ASSUME NEW rows, NEW chain, NEW n, BookOK(rows, chain, n), ChainTyped(chain),
           SplitOK(rows, chain), Whole(rows)
    PROVE  Full(rows, chain)
<1> SUFFICES ASSUME NEW k \in DOMAIN rows, rows[k].status = "confirmed",
                    rows[k].platform = "all", NEW x \in Holders(chain, rows[k].ent),
                    <<k[1], x>> \notin DOMAIN rows
             PROVE  FALSE
  BY DEF Full
<1> DEFINE e == k[1]
           d == rows[k].ent
           H == Holders(chain, d)
           J == {j \in DOMAIN rows : j[1] = e /\ Child(j)}
           Q == {p \in H : <<e, p>> \in DOMAIN rows}
           F == [p \in H |-> StoredBase(chain, p, d)]
           G == [j \in J |-> rows[j].base]
           to == [p \in Q |-> <<e, p>>]
<1>1. k = <<e, "self">> /\ rows[k].base = HeldSum(chain, d) /\ e \in Events
  <2>1. k \in RowKeys /\ SplitRow(rows, k, chain)
    BY DEF BookOK, SplitOK
  <2>2. ~Child(k)
    BY <2>1, Keys, NameAssumption DEF SplitRow
  <2> QED
    BY <2>1, <2>2, Keys DEF SplitRow
<1>2. H \in SUBSET Platforms /\ IsFiniteSet(H)
  BY PlatformAssumption, FS_Subset DEF Holders
<1>3. \A p \in H : F[p] \in Nat /\ F[p] > 0 /\ F[p] = StoredBase(chain, p, d)
  BY <1>2, StoredTyped DEF Holders
<1>4. ASSUME NEW j \in J
      PROVE  j[2] \in Q /\ j = to[j[2]] /\ rows[j].base = F[j[2]]
  <2>1. j \in DOMAIN rows /\ j[1] = e /\ Child(j)
    OBVIOUS
  <2> HIDE DEF J
  <2>2. j \in RowKeys /\ ParentOK(rows, j) /\ RowOK(rows[j], chain, n) /\ SplitRow(rows, j, chain)
    BY <2>1 DEF BookOK, SplitOK
  <2>3. j = <<e, j[2]>> /\ j[2] \in Platforms
    BY <2>1, <2>2, Keys
  <2>4. rows[j].status = "confirmed" /\ rows[j].ent = d
    BY <1>1, <2>1, <2>2 DEF ParentOK
  <2>5. rows[j].platform = j[2] /\ rows[j].base > 0
    BY <2>1, <2>2 DEF SplitRow
  <2>6. rows[j].base = StoredBase(chain, j[2], d)
    BY <2>2, <2>3, <2>4, <2>5, NameAssumption DEF RowOK
  <2>7. j[2] \in H
    BY <2>3, <2>5, <2>6 DEF Holders
  <2> QED
    BY <2>1, <2>3, <2>6, <2>7
<1>5. ASSUME NEW p \in Q
      PROVE  to[p] \in J /\ p \in H
  <2>1. p \in Platforms /\ p \in H /\ <<e, p>> \in DOMAIN rows
    BY <1>2
  <2>2. <<e, p>>[1] = e /\ Child(<<e, p>>)
    BY <1>1, <2>1, Keys
  <2> QED
    BY <2>1, <2>2
<1>6. J = {to[p] : p \in Q} /\ Q \in SUBSET H
  <2>1. J \subseteq {to[p] : p \in Q}
    BY <1>4
  <2>2. {to[p] : p \in Q} \subseteq J
    BY <1>5
  <2> QED
    BY <2>1, <2>2
<1>7. \A p \in Q : G[to[p]] = F[p]
  <2> SUFFICES ASSUME NEW p \in Q PROVE G[to[p]] = F[p]
    OBVIOUS
  <2>1. to[p] \in J /\ to[p][2] = p
    BY <1>5
  <2>2. rows[to[p]].base = F[p]
    BY <1>4, <2>1
  <2> QED
    BY <2>1, <2>2
<1>8. \A p, q \in Q : to[p] = to[q] => p = q
  OBVIOUS
<1>9. x \in H \ Q
  OBVIOUS
<1>10. SumFunctionOnSet(G, J) = SumFunctionOnSet(F, H)
  <2>1. rows[k].base = Sum(LAMBDA j : rows[j].base, J)
    BY DEF Whole
  <2>2. HeldSum(chain, d) = SumFunctionOnSet(F, H)
    BY DEF HeldSum, Sum
  <2> QED
    BY <1>1, <2>1, <2>2 DEF Sum
<1> HIDE DEF J, Q, H, F, G, to
<1>11. IsFiniteSet(Q) /\ IsFiniteSet(H \ Q) /\ \A p \in H : F[p] \in Int
  BY <1>2, <1>3, <1>6, FS_Subset
<1>12. SumFunctionOnSet(G, J) = SumFunctionOnSet(F, Q)
  <2>1. \A p \in Q : F[p] \in Int /\ G[to[p]] = F[p]
    BY <1>6, <1>7, <1>11
  <2>2. SumFunctionOnSet(G, {to[p] : p \in Q}) = SumFunctionOnSet(F, Q)
    BY <1>8, <1>11, <2>1, SumCarried
  <2> QED
    BY <1>6, <2>2
<1>13. /\ SumFunctionOnSet(F, H) = SumFunctionOnSet(F, Q) + SumFunctionOnSet(F, H \ Q)
       /\ SumFunctionOnSet(F, Q) \in Int /\ SumFunctionOnSet(F, H \ Q) \in Int
  BY <1>2, <1>6, <1>11, SumSplit
<1>14. SumFunctionOnSet(F, H \ Q) = F[x] + SumFunctionOnSet(F, (H \ Q) \ {x})
  BY <1>9, <1>11, SumRemove
<1>15. SumFunctionOnSet(F, (H \ Q) \ {x}) \in Nat
  <2>1. IsFiniteSet((H \ Q) \ {x})
    BY <1>11, FS_Subset
  <2> QED
    BY <1>3, <2>1, SumNat
<1>16. F[x] \in Nat /\ F[x] > 0
  BY <1>3, <1>9
<1>17. SumFunctionOnSet(F, H \ Q) = 0
  <2> DEFINE all == SumFunctionOnSet(F, H)
             some == SumFunctionOnSet(F, Q)
             rest == SumFunctionOnSet(F, H \ Q)
  <2>1. all = some
    BY <1>10, <1>12
  <2>2. all = some + rest /\ some \in Int /\ rest \in Int
    BY <1>13
  <2> HIDE DEF all, some, rest
  <2>3. rest = 0
    BY <2>1, <2>2
  <2> QED
    BY <2>3 DEF rest
<1> QED
  BY <1>14, <1>15, <1>16, <1>17

\* The requests about events leave splits whole, but for a child that is deleted.
LEMMA PutSplit ==
    ASSUME NEW n, BookOK(events, snap, n), SplitOK(events, snap),
           NEW e \in Events, Unused(e), NEW r, r.status = "pending",
           events' = Put(events, <<e, "self">>, r)
    PROVE  SplitOK(events', snap)
<1> DEFINE f == <<e, "self">>
<1>1. /\ DOMAIN events' = DOMAIN events \cup {f} /\ events'[f] = r
      /\ \A k \in DOMAIN events : k # f => events'[k] = events[k]
      /\ f \notin DOMAIN events /\ ~Child(f)
  BY Keys DEF Put, Unused
<1> HIDE DEF f
<1> QED
  BY <1>1, SplitReplaced

LEMMA ChangeSplit ==
    ASSUME NEW n, BookOK(events, snap, n), SplitOK(events, snap),
           NEW e \in Events, <<e, "self">> \in DOMAIN events \ Confirmed,
           NEW r, r.status # "confirmed", events' = [events EXCEPT ![<<e, "self">>] = r]
    PROVE  SplitOK(events', snap)
<1> DEFINE f == <<e, "self">>
<1>1. /\ DOMAIN events' = DOMAIN events \cup {f} /\ events'[f] = r
      /\ \A k \in DOMAIN events : k # f => events'[k] = events[k]
      /\ f \in DOMAIN events /\ events[f].status # "confirmed" /\ ~Child(f)
  BY Keys DEF Confirmed
<1> HIDE DEF f
<1> QED
  BY <1>1, SplitReplaced

LEMMA ConfirmSplit ==
    ASSUME NEW n, BookOK(events, snap, n), ChainTyped(snap), SplitOK(events, snap),
           NEW e \in Events, <<e, "self">> \in Pending, NEW r, RowFit(r), Confirmable(snap, r),
           events' = PutAll(events, RowsOf(snap, e, r))
    PROVE  SplitOK(events', snap)
<1> DEFINE new == RowsOf(snap, e, r)
<1>1. SplitOK(new, snap) /\ Full(new, snap)
  BY RowsOfSplit
<1>2. Settled(new, e, r, snap)
  BY RowsOfSettles DEF RowFit
<1>3. \A k \in DOMAIN new : <<k[1], "self">> \in DOMAIN events
                            /\ events[<<k[1], "self">>].status = "pending"
  BY <1>2 DEF Settled, Pending
<1> HIDE DEF new
<1>4. SplitOK(PutAll(events, new), snap)
  BY <1>1, <1>3, SplitJoined
<1> QED
  BY <1>4 DEF new

LEMMA DeleteSplit ==
    ASSUME NEW n, BookOK(events, snap, n), ChainTyped(snap), SplitOK(events, snap),
           NEW k, DeleteEvent(k)
    PROVE  SplitOK(events', snap')
<1> DEFINE gone == {k} \cup (IF Child(k) THEN {} ELSE ChildrenOf(k[1]))
<1>1. /\ k \in DOMAIN events
      /\ events' = Drop(events, gone)
      /\ snap' = [d \in SnapDays |->
                    IF k \in Confirmed /\ d >= events[k].ex
                    THEN [snap[d] EXCEPT !.stale = TRUE] ELSE snap[d]]
  BY DEF DeleteEvent
<1>2. DOMAIN events' = DOMAIN events \ gone /\ \A j \in DOMAIN events' : events'[j] = events[j]
  BY <1>1 DEF Drop
<1>3. ASSUME NEW p, NEW d
      PROVE  StoredBase(snap', p, d) = StoredBase(snap, p, d)
  <2>1. DOMAIN snap' = SnapDays
    BY <1>1
  <2>2. CASE d \in SnapDays
    <3>1. DayTyped(snap[d])
      BY <2>2 DEF ChainTyped, SnapDays
    <3>2. snap'[d] = [snap[d] EXCEPT !.stale = TRUE] \/ snap'[d] = snap[d]
      BY <1>1, <2>2
    <3>3. snap'[d].shares = snap[d].shares
      BY <3>1, <3>2 DEF DayTyped
    <3> QED
      BY <2>1, <2>2, <3>3 DEF StoredBase, SnapDays
  <2>3. CASE d \notin SnapDays
    BY <2>1, <2>3 DEF StoredBase, SnapDays
  <2> QED
    BY <2>2, <2>3
<1>4. ASSUME NEW j \in DOMAIN events'
      PROVE  SplitRow(events', j, snap')
  <2> DEFINE parent == <<j[1], "self">>
  <2>1. j \in DOMAIN events /\ j \notin gone /\ events'[j] = events[j]
    BY <1>2
  <2>2. SplitRow(events, j, snap')
    BY <1>3, <2>1, SplitRowMoved DEF SplitOK
  <2>3. Child(j) => parent \notin gone
    <3> SUFFICES ASSUME Child(j), parent \in gone PROVE FALSE
      OBVIOUS
    <3>1. ~Child(parent) /\ parent[1] = j[1]
      BY Keys
    <3>2. parent = k
      BY <3>1 DEF ChildrenOf
    <3>3. j \in ChildrenOf(k[1])
      BY <2>1, <3>1, <3>2 DEF ChildrenOf
    <3> QED
      BY <2>1, <3>1, <3>2, <3>3
  <2> QED
    BY <1>2, <2>1, <2>2, <2>3 DEF SplitRow
<1> QED
  BY <1>4 DEF SplitOK

LEMMA EventRequestSplit ==
    ASSUME NEW n, BookOK(events, snap, n), RowsTyped(events), ChainTyped(snap),
           SplitOK(events, snap), EventRequest
    PROVE  SplitOK(events', snap')
<1>1. PICK e \in Events : Idle /\ \/ Unused(e) /\ NewEvent(e)
                                  \/ ~Unused(e) /\ EventChange(e)
  BY DEF EventRequest
<1> DEFINE f == <<e, "self">>
           old == events[f]
<1>2. f \in DOMAIN events => RowFit(old) /\ Shape(old)
  BY AllFit DEF RowFit
<1>3. CASE Unused(e) /\ NewEvent(e)
  <2>1. ASSUME NEW r, r.status = "pending", CreateEvent(e, r)
        PROVE  SplitOK(events', snap')
    <3>1. events' = Put(events, <<e, "self">>, r) /\ snap' = snap
      BY <2>1 DEF CreateEvent, Request
    <3> QED
      BY <1>3, <2>1, <3>1, PutSplit
  <2>2. ASSUME NEW p, NEW ent, NEW ex, NEW qty, DetectDividend(e, p, ent, ex, qty)
        PROVE  SplitOK(events', snap')
    <3> DEFINE r == New("dividend_pending", p, ent, ex, NoDate, NoDate, qty)
    <3>1. events' = Put(events, <<e, "self">>, r) /\ snap' = snap /\ r.status = "pending"
      BY <2>2 DEF DetectDividend, Request, New
    <3> HIDE DEF r
    <3> QED
      BY <1>3, <3>1, PutSplit
  <2>3. \A kind, p, ent, ex, pay, arrive, qty :
           New(kind, p, ent, ex, pay, arrive, qty).status = "pending"
    BY DEF New
  <2> QED
    BY <1>3, <2>1, <2>2, <2>3 DEF NewEvent
<1>4. ASSUME NEW ent, NEW ex, NEW pay, NEW arrive, NEW qty, UpdateEvent(e, ent, ex, pay, arrive, qty)
      PROVE  SplitOK(events', snap')
  <2> DEFINE new == [old EXCEPT !.ent = ent, !.ex = ex, !.pay = pay, !.arrive = arrive, !.qty = qty]
  <2>1. /\ f \in DOMAIN events \ Confirmed /\ snap' = snap
        /\ events' = [events EXCEPT ![f] = new]
    BY <1>4 DEF UpdateEvent, Request
  <2>2. new.status # "confirmed"
    BY <1>2, <2>1 DEF Shape, Confirmed
  <2> HIDE DEF new
  <2> QED
    BY <2>1, <2>2, ChangeSplit
<1>5. ASSUME NEW kind, NEW pay, NEW arrive, ConfirmWithChoice(e, kind, pay, arrive)
      PROVE  SplitOK(events', snap')
  <2> DEFINE r == [old EXCEPT !.kind = kind, !.pay = pay, !.arrive = arrive]
             new == [k \in {f} |-> ConfirmedRow(snap, r)]
  <2>1. /\ f \in Pending /\ f \in DOMAIN events /\ Dividend(old) /\ snap' = snap
        /\ events' = PutAll(events, RowsOf(snap, e, r))
    BY <1>5 DEF ConfirmWithChoice, Request, Pending
  <2>2. old.platform # "all"
    BY <1>2, <2>1 DEF Dividend, RowFit, RowTyped
  <2>3. r.platform = old.platform /\ ConfirmedRow(snap, r).platform = old.platform
    BY <1>2, <2>1 DEF Shape, ConfirmedRow
  <2>4. RowsOf(snap, e, r) = new
    BY <2>2, <2>3 DEF RowsOf
  <2> HIDE DEF r
  <2>5. DOMAIN new = {f} /\ new[f].platform # "all" /\ ~Child(f) /\ f[1] = e
    BY <2>2, <2>3, Keys
  <2> HIDE DEF new
  <2>6. SplitOK(new, snap) /\ Full(new, snap)
    BY <2>5 DEF SplitOK, SplitRow, Full
  <2>7. \A k \in DOMAIN new : <<k[1], "self">> \in DOMAIN events
                              /\ events[<<k[1], "self">>].status = "pending"
    BY <2>1, <2>5 DEF Pending
  <2>8. SplitOK(PutAll(events, new), snap)
    BY <2>6, <2>7, SplitJoined
  <2> QED
    BY <2>1, <2>4, <2>8
<1>6. CASE ConfirmEvent(e)
  <2>1. /\ f \in Pending /\ f \in DOMAIN events /\ Confirmable(snap, old) /\ snap' = snap
        /\ events' = PutAll(events, RowsOf(snap, e, old))
    BY <1>6 DEF ConfirmEvent, Request, Pending
  <2> QED
    BY <1>2, <2>1, ConfirmSplit
<1>7. CASE CancelEvent(e)
  <2> DEFINE r == [old EXCEPT !.status = "cancelled"]
  <2>1. /\ f \in DOMAIN events \ Confirmed /\ snap' = snap
        /\ events' = [events EXCEPT ![f] = r]
    BY <1>7 DEF CancelEvent, Request, Pending, Confirmed
  <2>2. r.status # "confirmed"
    BY <1>2, <2>1 DEF Shape
  <2> HIDE DEF r
  <2> QED
    BY <2>1, <2>2, ChangeSplit
<1>8. CASE UnconfirmEvent(e)
  <2>1. events' = Withdrawn({e}) /\ snap' = snap
    BY <1>8 DEF UnconfirmEvent, Request
  <2> QED
    BY <2>1, SplitWithdrawn
<1>9. ASSUME NEW r, DeleteEvent(<<e, r>>)
      PROVE  SplitOK(events', snap')
  BY <1>9, DeleteSplit
<1> QED
  BY <1>1, <1>3, <1>4, <1>5, <1>6, <1>7, <1>8, <1>9 DEF EventChange

-----------------------------------------------------------------------------
(* A day that is built again                                               *)

LEMMA BuildSplit ==
    ASSUME NEW n \in Nat, Books(events, snap, n), BookOK(events, snap, n), NEW m \in Nat,
           SnapDays \subseteq 0..LastDay, 0 \in SnapDays, NEW d \in TradingDays, d < m,
           \A x \in SnapDays : x < m => x <= d /\ (x = d \/ x < n),
           NEW thenConfirm \in BOOLEAN, Build(d, thenConfirm), SplitOK(events, snap)
    PROVE  /\ SplitOK(events', snap')
           /\ Full(events, snap) => Full(events', snap')
           /\ Recovers(events, events')
<1> DEFINE rows == Withdrawn(EntitledOn(d))
           row == DayRow(rows, LastSnapUpTo(d - 1), d)
           chain == Put(snap, d, row)
<1>1. /\ NoEventDue(d) /\ snap' = chain
      /\ events' = IF thenConfirm THEN AutoConfirmed(rows, chain, d) ELSE rows
  BY DEF Build
<1>2. {"shares", "stale"} \subseteq DOMAIN row
  BY DEF DayRow
<1> HIDE DEF row
<1>3. BookOK(rows, chain, m)
  BY <1>1, <1>2, BuildWithdraws
<1>4. RowsTyped(rows)
  BY WithdrawnTyped DEF Books
<1>5. ChainTyped(chain)
  BY <1>1, BuildBooks DEF Books
<1>6. \A x : x # d => /\ x \in DOMAIN chain <=> x \in DOMAIN snap
                      /\ x \in DOMAIN snap => chain[x] = snap[x]
  BY DEF Put
<1> HIDE DEF chain
<1>7. ASSUME NEW k \in DOMAIN events, k[1] \notin EntitledOn(d), events[k].status = "confirmed"
      PROVE  \A p \in Platforms :
                StoredBase(chain, p, events[k].ent) = StoredBase(snap, p, events[k].ent)
  <2>1. events[k].ent # d
    BY <1>7, NotEntitled
  <2> QED
    BY <1>6, <2>1 DEF StoredBase
<1>8. /\ SplitOK(rows, chain)
      /\ Full(events, snap) => Full(rows, chain)
  BY <1>7, SplitWithdrawn
<1>9. Recovers(events, rows)
  <2>1. \A e \in EntitledOn(d) : <<e, "self">> \in Confirmed
    BY DEF EntitledOn
  <2> QED
    BY <2>1, WithdrawnRecovers
<1> HIDE DEF rows
<1>10. /\ SplitOK(rows, chain)
       /\ SplitOK(AutoConfirmed(rows, chain, d), chain)
       /\ Full(rows, chain) => Full(AutoConfirmed(rows, chain, d), chain)
       /\ Recovers(rows, AutoConfirmed(rows, chain, d))
  BY <1>3, <1>4, <1>5, <1>8, AutoConfirmedRepeats
<1>11. Recovers(events, AutoConfirmed(rows, chain, d))
  BY <1>9, <1>10, RecoversOn
<1> QED
  BY <1>1, <1>8, <1>9, <1>10, <1>11

LEMMA BuildClips ==
    ASSUME NEW n \in Nat, Books(events, snap, n), BookOK(events, snap, n), NEW m \in Nat,
           SnapDays \subseteq TradingDays \cup {0}, SnapDays \subseteq 0..LastDay, 0 \in SnapDays,
           NEW d \in TradingDays, d < m,
           \A x \in SnapDays : x < m => x <= d /\ (x = d \/ x < n),
           NEW thenConfirm \in BOOLEAN, Build(d, thenConfirm), Clipped(snap, n)
    PROVE  /\ Clipped(snap', m)
           /\ \E b \in SnapDays : /\ b < d /\ (\A x \in SnapDays : x < d => x <= b)
                                  /\ snap'[d].stale = snap[b].stale
<1> DEFINE rows == Withdrawn(EntitledOn(d))
           b == LastSnapUpTo(d - 1)
           row == DayRow(rows, b, d)
           net(p) == NetShares(rows, p, b, d)
<1>1. snap' = Put(snap, d, row)
  BY DEF Build
<1>2. d \in Nat /\ d > 0 /\ \A x \in SnapDays : x \in Nat
  BY Days1, DaysAreNumbers
<1>3. b \in SnapDays /\ b \in Nat /\ b < d /\ \A x \in SnapDays : x < d => x <= b
  BY <1>2, DayBefore
<1>4. /\ DOMAIN snap' = SnapDays \cup {d} /\ snap'[d] = row
      /\ \A x \in SnapDays : x # d => snap'[x] = snap[x]
  BY <1>1 DEF Put, SnapDays
<1>5. RowsTyped(rows) /\ DayTyped(snap[b])
  BY <1>3, WithdrawnTyped DEF Books, ChainTyped, SnapDays
<1>6. ASSUME NEW p \in Platforms
      PROVE  /\ row.shares[p] = IF net(p) > 0 THEN net(p) ELSE 0
             /\ row.dropped[p] = snap[b].dropped[p] + row.shares[p] - net(p)
             /\ net(p) \in Int /\ snap[b].dropped[p] \in Int
  BY <1>3, <1>5, NetOfWindows DEF DayRow, DayTyped
<1>7. row.stale = snap[b].stale
  BY DEF DayRow
<1> HIDE DEF rows, b, row, net
<1>8. ASSUME NEW p \in Platforms
      PROVE  /\ snap[b].dropped[p] <= row.dropped[p]
             /\ row.shares[p] = 0 \/ snap[b].dropped[p] = row.dropped[p]
  BY <1>6
<1>9. ASSUME NEW x \in SnapDays \cup {d}, NEW y \in SnapDays \cup {d}, x < y, y < m,
             \A e \in TradingDays : ~(x < e /\ e < y), NEW p \in Platforms
      PROVE  /\ snap'[x].dropped[p] <= snap'[y].dropped[p]
             /\ snap'[y].shares[p] = 0 \/ snap'[x].dropped[p] = snap'[y].dropped[p]
  <2>1. x \in Nat /\ y \in Nat /\ y <= d
    BY <1>2, <1>9
  <2>2. CASE y = d
    <3>1. x \in SnapDays /\ x <= b
      BY <1>2, <1>3, <1>9, <2>1, <2>2
    <3>2. x = b
      BY <1>2, <1>3, <1>9, <2>1, <2>2, <3>1
    <3> QED
      BY <1>3, <1>4, <1>8, <2>2, <3>2
  <2>3. CASE y # d
    <3>1. x \in SnapDays /\ y \in SnapDays /\ y < d /\ x # d /\ y < n
      BY <1>2, <1>9, <2>1, <2>3
    <3>3. snap'[x] = snap[x] /\ snap'[y] = snap[y]
      BY <1>4, <2>3, <3>1
    <3> QED
      BY <1>9, <3>1, <3>3 DEF Clipped, SnapDays
  <2> QED
    BY <2>2, <2>3
<1>10. Clipped(snap', m)
  BY <1>4, <1>9 DEF Clipped
<1> QED
  BY <1>3, <1>4, <1>7, <1>10

\* A table of splits whole that was built past day x, which is in step.
BuiltPast(rows, chain, n, x) ==
    /\ BookOK(rows, chain, n) /\ RowsTyped(rows)
    /\ SplitOK(rows, chain) /\ Full(rows, chain)
    /\ x \in DOMAIN chain /\ x < n /\ ~chain[x].stale

\* A pending row on a day the chain was built past has settled nothing by then,
\* however it is settled.
LEMMA PendingOpen ==
    ASSUME NEW rows, NEW chain, NEW n, NEW x \in Nat \ {0}, BuiltPast(rows, chain, n, x),
           NEW k \in DOMAIN rows, rows[k].status = "pending", rows[k].kind # "dividend_pending"
    PROVE  IF rows[k].kind = "cash_dividend" THEN x < CashDay(rows[k]) ELSE x < ShareDay(rows[k])
<1>1. NotDue(rows[k], x)
  BY DEF BuiltPast, BookOK, RowOK, Ahead
<1> QED
  BY <1>1 DEF NotDue, SameDayPending

\* What a confirmed row has settled by a day comes from an earlier day.
LEMMA SettledFromEarlier ==
    ASSUME NEW r, RowFit(r), r.status = "confirmed", NEW x \in Nat,
           InShares(r, x) \/ InCash(r, x)
    PROVE  r.ent \in Nat /\ r.ent < x
<1>1. /\ r.ent \in Nat /\ r.kind # "dividend_pending"
      /\ ShareDay(r) \in Nat /\ CashDay(r) \in Nat
  BY SettledAfterEx DEF RowFit, Shape, RowTyped
<1>2. ASSUME x <= r.ent
      PROVE  FALSE
  <2>1. NotDue(r, x)
    BY <1>2, SettledLater DEF RowFit
  <2> QED
    BY <1>1, <2>1 DEF NotDue, InShares, InCash, SameDayPending
<1> QED
  BY <1>1, <1>2

\* An event counts on the day for what it counted for before it was settled again.
LEMMA EventCounts ==
    ASSUME NEW rows, NEW chain, NEW n, NEW new, NEW other, NEW m,
           NEW x \in Nat \ {0}, BuiltPast(rows, chain, n, x), BuiltPast(new, other, m, x),
           Recovers(rows, new),
           \A p \in Platforms, y \in Nat :
              y < x => StoredBase(other, p, y) = StoredBase(chain, p, y),
           NEW k \in DOMAIN rows, ~Child(k), Counts(rows[k], x)
    PROVE  k \in DOMAIN new /\ Alike(rows[k], new[k], x)
<1> DEFINE r == rows[k]
           s == new[k]
<1>1. k = <<k[1], "self">> /\ k[1] \in Events
  <2>1. k \in RowKeys
    BY DEF BuiltPast, BookOK
  <2> QED
    BY <2>1, Keys
<1>2. k \in DOMAIN new /\ SameTerms(r, s)
  BY <1>1 DEF Recovers
<1>3. RowFit(r) /\ RowFit(s)
  BY <1>2, AllFit DEF BuiltPast
<1>4. /\ s.platform = r.platform /\ s.ent = r.ent /\ s.qty = r.qty /\ s.ex = r.ex
      /\ s.kind = r.kind /\ ShareDay(s) = ShareDay(r) /\ CashDay(s) = CashDay(r)
      /\ s.status # "cancelled" /\ r.status # "cancelled" /\ r.platform \in Platforms
  BY <1>2, <1>3 DEF SameTerms, ShareDay, CashDay, Counts, RowFit, Shape
<1>5. /\ r.status \in {"pending", "confirmed"} /\ s.status \in {"pending", "confirmed"}
      /\ r.status = "confirmed" => r.kind # "dividend_pending"
      /\ s.status = "confirmed" => s.kind # "dividend_pending"
      /\ ShareDay(r) \in Nat /\ CashDay(r) \in Nat
  BY <1>3, <1>4, SettledAfterEx DEF RowFit, Shape, RowTyped
<1>6. Open(s, x) <=> Open(r, x)
  BY <1>2, <1>4, <1>5 DEF Open, UnderWay, SameDayPending, SameTerms
<1>7. CASE r.status = "pending" /\ s.status = "pending"
  BY <1>2, <1>4, <1>6, <1>7 DEF Alike, InShares, InCash
<1>8. CASE r.status = "pending" /\ s.status = "confirmed"
  <2>1. IF r.kind = "cash_dividend" THEN x < CashDay(r) ELSE x < ShareDay(r)
    BY <1>4, <1>5, <1>8, PendingOpen
  <2> QED
    BY <1>2, <1>4, <1>5, <1>6, <1>8, <2>1 DEF Alike, InShares, InCash
<1>9. CASE r.status = "confirmed" /\ s.status = "pending"
  <2>1. IF s.kind = "cash_dividend" THEN x < CashDay(s) ELSE x < ShareDay(s)
    BY <1>2, <1>4, <1>5, <1>9, PendingOpen
  <2> QED
    BY <1>2, <1>4, <1>5, <1>6, <1>9, <2>1 DEF Alike, InShares, InCash
<1>10. CASE r.status = "confirmed" /\ s.status = "confirmed"
  <2>1. /\ r.base = StoredBase(chain, r.platform, r.ent)
        /\ s.base = StoredBase(other, r.platform, r.ent)
    BY <1>2, <1>4, <1>10, NameAssumption DEF BuiltPast, BookOK, RowOK
  <2>2. InShares(r, x) \/ InCash(r, x) => r.base = s.base
    <3>1. InShares(r, x) \/ InCash(r, x) => r.ent \in Nat /\ r.ent < x
      BY <1>3, <1>10, SettledFromEarlier
    <3> QED
      BY <1>4, <2>1, <3>1
  <2>3. (InShares(s, x) <=> InShares(r, x)) /\ (InCash(s, x) <=> InCash(r, x))
    BY <1>4, <1>10 DEF InShares, InCash
  <2>4. InShares(r, x) => SharesOf(s) = SharesOf(r)
    BY <1>4, <2>2 DEF SharesOf
  <2>5. InCash(r, x) => CashOf(s) = CashOf(r)
    BY <1>4, <2>2 DEF CashOf
  <2> QED
    BY <1>2, <1>4, <1>6, <2>3, <2>4, <2>5 DEF Alike
<1> QED
  BY <1>5, <1>7, <1>8, <1>9, <1>10

\* A child on a platform of a split is there again once the split has been settled
\* again, which it has been by its ex date.
LEMMA ChildCounts ==
    ASSUME NEW rows, NEW chain, NEW n, NEW new, NEW other, NEW m,
           NEW x \in Nat \ {0}, BuiltPast(rows, chain, n, x), BuiltPast(new, other, m, x),
           Recovers(rows, new),
           \A p \in Platforms, y \in Nat :
              y < x => StoredBase(other, p, y) = StoredBase(chain, p, y),
           NEW k \in DOMAIN rows, Child(k), Counts(rows[k], x)
    PROVE  k \in DOMAIN new /\ Alike(rows[k], new[k], x)
<1> DEFINE f == <<k[1], "self">>
           r == rows[k]
           s == new[k]
<1>1. k = <<k[1], k[2]>> /\ k[1] \in Events /\ k[2] \in Platforms /\ f[1] = k[1]
  <2>1. k \in RowKeys
    BY DEF BuiltPast, BookOK
  <2> QED
    BY <2>1, Keys
<1>2. /\ f \in DOMAIN rows /\ r.status = "confirmed" /\ rows[f].status = "confirmed"
      /\ r.ent = rows[f].ent /\ r.ex = rows[f].ex
      /\ r.kind = "share_split" /\ r.platform = k[2] /\ r.base > 0
      /\ rows[f].platform = "all" /\ r.qty = rows[f].qty
  BY DEF BuiltPast, BookOK, ParentOK, SplitOK, SplitRow
<1>3. f \in DOMAIN new /\ SameTerms(rows[f], new[f])
  BY <1>1, <1>2 DEF Recovers
<1>4. RowFit(r) /\ RowFit(new[f])
  BY <1>3, AllFit DEF BuiltPast
<1>5. /\ r.ent \in Nat /\ r.ex \in Nat /\ r.ent < r.ex /\ r.ex <= x /\ r.ent < x
  BY <1>2, <1>4 DEF RowFit, Shape, Dated, ValidArrive, Counts
<1>6. /\ new[f].platform = "all" /\ new[f].ent = r.ent /\ new[f].ex = r.ex /\ new[f].qty = r.qty
      /\ new[f].kind = "share_split" /\ new[f].status \in {"pending", "confirmed"}
  BY <1>2, <1>3, <1>4 DEF SameTerms, RowFit, RowTyped, Shape
<1>7. new[f].status = "confirmed"
  <2> SUFFICES ASSUME new[f].status = "pending" PROVE FALSE
    BY <1>6
  <2>1. x < ShareDay(new[f])
    BY <1>3, <1>6, PendingOpen
  <2> QED
    BY <1>5, <1>6, <2>1 DEF ShareDay
<1>8. StoredBase(other, k[2], r.ent) = r.base
  <2>1. r.base = StoredBase(chain, k[2], r.ent)
    BY <1>1, <1>2, NameAssumption DEF BuiltPast, BookOK, RowOK
  <2> QED
    BY <1>1, <1>5, <2>1
<1>9. k \in DOMAIN new
  <2>1. k[2] \in Holders(other, new[f].ent)
    BY <1>1, <1>2, <1>6, <1>8 DEF Holders
  <2> QED
    BY <1>1, <1>3, <1>6, <1>7, <2>1 DEF BuiltPast, Full
<1>10. /\ s.status = "confirmed" /\ s.ent = r.ent /\ s.ex = r.ex /\ s.kind = "share_split"
       /\ s.platform = k[2] /\ s.qty = r.qty
  BY <1>6, <1>9 DEF BuiltPast, BookOK, ParentOK, SplitOK, SplitRow
<1>11. s.base = r.base
  <2>1. s.base = StoredBase(other, k[2], r.ent)
    BY <1>1, <1>9, <1>10, NameAssumption DEF BuiltPast, BookOK, RowOK
  <2> QED
    BY <1>8, <2>1
<1> HIDE DEF r, s
<1>12. /\ InShares(s, x) <=> InShares(r, x)
       /\ ~InCash(s, x) /\ ~InCash(r, x) /\ ~Open(s, x) /\ ~Open(r, x)
       /\ SharesOf(s) = SharesOf(r)
  BY <1>2, <1>10, <1>11
     DEF InShares, InCash, Open, UnderWay, SameDayPending, ShareDay, SharesOf
<1>13. Alike(r, s, x)
  BY <1>2, <1>10, <1>12 DEF Alike
<1> QED
  BY <1>9, <1>13 DEF r, s

LEMMA RecoveredCounts ==
    ASSUME NEW rows, NEW chain, NEW n, NEW new, NEW other, NEW m,
           NEW x \in Nat \ {0}, BuiltPast(rows, chain, n, x), BuiltPast(new, other, m, x),
           Recovers(rows, new),
           \A p \in Platforms, y \in Nat :
              y < x => StoredBase(other, p, y) = StoredBase(chain, p, y),
           NEW k \in DOMAIN rows, Counts(rows[k], x)
    PROVE  k \in DOMAIN new /\ Alike(rows[k], new[k], x)
<1>1. CASE Child(k)
  BY <1>1, ChildCounts
<1>2. CASE ~Child(k)
  BY <1>2, EventCounts
<1> QED
  BY <1>1, <1>2

LEMMA RecoveredCarries ==
    ASSUME NEW rows, NEW chain, NEW n, NEW new, NEW other, NEW m,
           NEW x \in Nat \ {0}, BuiltPast(rows, chain, n, x), BuiltPast(new, other, m, x),
           Recovers(rows, new),
           \A p \in Platforms, y \in Nat :
              y < x => StoredBase(other, p, y) = StoredBase(chain, p, y)
    PROVE  CarriesOver(rows, new, x)
<1>1. Recovers(new, rows)
  BY DEF Recovers, SameTerms
<1>2. \A p \in Platforms, y \in Nat :
         y < x => StoredBase(chain, p, y) = StoredBase(other, p, y)
  OBVIOUS
<1>3. ASSUME NEW k \in DOMAIN rows, Counts(rows[k], x)
      PROVE  k \in DOMAIN new /\ Alike(rows[k], new[k], x)
  BY <1>3, RecoveredCounts
<1>4. ASSUME NEW k \in DOMAIN new, Counts(new[k], x)
      PROVE  k \in DOMAIN rows /\ Counts(rows[k], x)
  <2>1. k \in DOMAIN rows /\ Alike(new[k], rows[k], x)
    BY <1>1, <1>2, <1>4, RecoveredCounts
  <2> QED
    BY <1>4, <2>1 DEF Alike, Counts
<1> QED
  BY <1>3, <1>4 DEF CarriesOver

\* A day that follows the same day, counts the same events and drops only what it
\* must is the same day.
LEMMA SameDay ==
    ASSUME NEW rows, NEW chain, NEW n, NEW new, NEW other, NEW m, NEW d \in Nat \ {0},
           BuiltPast(rows, chain, n, d), Books(rows, chain, n), Clipped(chain, n),
           BuiltPast(new, other, m, d), Books(new, other, m), Clipped(other, m),
           Recovers(rows, new), ~chain[d].stale, ~other[d].stale,
           \A y \in Nat : y < d => /\ y \in DOMAIN other <=> y \in DOMAIN chain
                                   /\ y \in DOMAIN chain => other[y] = chain[y],
           NEW b \in DOMAIN chain, b \in Nat, b < d,
           \A y \in TradingDays : ~(b < y /\ y < d)
    PROVE  other[d] = chain[d]
<1>1. d \in DOMAIN chain /\ d < n /\ d \in DOMAIN other /\ d < m
  BY DEF BuiltPast
<1>2. Replays(rows, chain, d) /\ Replays(new, other, d)
  BY <1>1 DEF Books, InStep
<1>3. DayTyped(chain[d]) /\ DayTyped(other[d]) /\ DayTyped(chain[b])
  BY <1>1 DEF Books, ChainTyped
<1>4. /\ RowsTyped(rows) /\ \A k \in DOMAIN rows : RowFit(rows[k])
      /\ RowsTyped(new) /\ \A k \in DOMAIN new : RowFit(new[k])
  BY AllFit DEF BuiltPast
<1>5. \A p \in Platforms, y \in Nat :
         y < d => StoredBase(other, p, y) = StoredBase(chain, p, y)
  BY DEF StoredBase
<1>6. CarriesOver(rows, new, d)
  BY <1>5, RecoveredCarries
<1>7. ASSUME NEW p \in Platforms
      PROVE  /\ other[d].shares[p] = chain[d].shares[p]
             /\ other[d].cash[p] = chain[d].cash[p]
             /\ other[d].dropped[p] = chain[d].dropped[p]
  <2>1. Gained(new, p, 0, d) = Gained(rows, p, 0, d) /\ Received(new, p, 0, d) = Received(rows, p, 0, d)
    BY <1>4, <1>6, CarriedSums
  <2>2. /\ chain[d].shares[p] - chain[d].dropped[p]
             = OpeningShares[p] + FlowSum(p, 0, d) + Gained(rows, p, 0, d)
        /\ other[d].shares[p] - other[d].dropped[p]
             = OpeningShares[p] + FlowSum(p, 0, d) + Gained(new, p, 0, d)
        /\ other[d].cash[p] = Received(new, p, 0, d)
        /\ chain[d].cash[p] = Received(rows, p, 0, d)
    BY <1>2 DEF Replays
  <2>3. other[d].shares[p] - other[d].dropped[p] = chain[d].shares[p] - chain[d].dropped[p]
    BY <2>1, <2>2
  <2>4. /\ chain[b].dropped[p] <= chain[d].dropped[p]
        /\ chain[d].shares[p] = 0 \/ chain[b].dropped[p] = chain[d].dropped[p]
    BY <1>1 DEF Clipped
  <2>5. /\ other[b].dropped[p] <= other[d].dropped[p]
        /\ other[d].shares[p] = 0 \/ other[b].dropped[p] = other[d].dropped[p]
    BY <1>1 DEF Clipped
  <2>6. other[b] = chain[b]
    OBVIOUS
  <2>7. /\ chain[d].shares[p] \in Nat /\ other[d].shares[p] \in Nat
        /\ chain[d].dropped[p] \in Int /\ other[d].dropped[p] \in Int
        /\ chain[b].dropped[p] \in Int
    BY <1>3 DEF DayTyped
  <2>8. /\ other[d].shares[p] = chain[d].shares[p]
        /\ other[d].dropped[p] = chain[d].dropped[p]
    BY <2>3, <2>4, <2>5, <2>6, <2>7
  <2> QED
    BY <2>1, <2>2, <2>8
<1>8. /\ other[d].shares = chain[d].shares /\ other[d].cash = chain[d].cash
      /\ other[d].dropped = chain[d].dropped
  BY <1>3, <1>7 DEF DayTyped
<1>9. Transit(new, other, d) = Transit(rows, chain, d)
  <2>1. ASSUME NEW p \in Platforms, NEW y \in Nat, y <= d
        PROVE  StoredBase(other, p, y) = StoredBase(chain, p, y)
    <3>1. CASE y = d
      BY <1>1, <1>8, <3>1 DEF StoredBase
    <3>2. CASE y # d
      BY <1>5, <2>1, <3>2
    <3> QED
      BY <3>1, <3>2
  <2>2. SameBase(rows, chain, other, d)
    BY <1>4, <2>1, SameUpTo
  <2> QED
    BY <1>4, <1>6, <2>2, CarriedTransit
<1>10. other[d].transit = chain[d].transit
  BY <1>2, <1>9 DEF Replays
<1> QED
  BY <1>3, <1>8, <1>10 DEF DayTyped

-----------------------------------------------------------------------------
(* The steps                                                               *)

LEMMA ClippedNarrowed ==
    ASSUME NEW chain, NEW n, Clipped(chain, n), NEW m, \A d \in DOMAIN chain : d < m => d < n
    PROVE  Clipped(chain, m)
BY DEF Clipped

\* A request about events leaves what the days hold and drop alone.
LEMMA EventRequestClips ==
    ASSUME ChainTyped(snap), NEW n, Clipped(snap, n), EventRequest
    PROVE  Clipped(snap', n)
<1>1. PICK e \in Events : Idle /\ \/ Unused(e) /\ NewEvent(e)
                                  \/ ~Unused(e) /\ EventChange(e)
  BY DEF EventRequest
<1>2. CASE NewEvent(e)
  <2>1. ASSUME NEW r, CreateEvent(e, r)
        PROVE  snap' = snap
    BY <2>1 DEF CreateEvent, Request
  <2>2. ASSUME NEW p, NEW ent, NEW ex, NEW qty, DetectDividend(e, p, ent, ex, qty)
        PROVE  snap' = snap
    BY <2>2 DEF DetectDividend, Request
  <2>3. snap' = snap
    BY <1>2, <2>1, <2>2 DEF NewEvent
  <2> QED
    BY <2>3
<1>3. ASSUME NEW k, DeleteEvent(k)
      PROVE  Clipped(snap', n)
  <2>1. snap' = [d \in SnapDays |->
                   IF k \in Confirmed /\ d >= events[k].ex
                   THEN [snap[d] EXCEPT !.stale = TRUE] ELSE snap[d]]
    BY <1>3 DEF DeleteEvent
  <2>2. ASSUME NEW d \in SnapDays
        PROVE  snap'[d].shares = snap[d].shares /\ snap'[d].dropped = snap[d].dropped
    <3>1. DayTyped(snap[d])
      BY DEF ChainTyped, SnapDays
    <3>2. snap'[d] = [snap[d] EXCEPT !.stale = TRUE] \/ snap'[d] = snap[d]
      BY <2>1
    <3> QED
      BY <3>1, <3>2 DEF DayTyped
  <2>3. DOMAIN snap' = DOMAIN snap
    BY <2>1 DEF SnapDays
  <2> QED
    BY <2>2, <2>3 DEF Clipped, SnapDays
<1>4. CASE EventChange(e)
  <2>1. ASSUME NEW ent, NEW ex, NEW pay, NEW arrive, NEW qty, UpdateEvent(e, ent, ex, pay, arrive, qty)
        PROVE  snap' = snap
    BY <2>1 DEF UpdateEvent, Request
  <2>2. ASSUME NEW kind, NEW pay, NEW arrive, ConfirmWithChoice(e, kind, pay, arrive)
        PROVE  snap' = snap
    BY <2>2 DEF ConfirmWithChoice, Request
  <2>3. ConfirmEvent(e) \/ CancelEvent(e) \/ UnconfirmEvent(e) => snap' = snap
    BY DEF ConfirmEvent, CancelEvent, UnconfirmEvent, Request
  <2>4. snap' = snap \/ \E k : DeleteEvent(k)
    BY <1>4, <2>1, <2>2, <2>3 DEF EventChange
  <2>5. CASE snap' = snap
    BY <2>5
  <2> QED
    BY <1>3, <2>4, <2>5
<1> QED
  BY <1>1, <1>2, <1>4

LEMMA DeleteDaySplit ==
    ASSUME NEW n, BookOK(events, snap, n), SplitOK(events, snap), Clipped(snap, n),
           ChainTyped(snap), NEW d, NEW chain, DOMAIN chain = SnapDays \ {d},
           \A x \in DOMAIN chain : chain[x] = [snap[x] EXCEPT !.stale = @ \/ CountsOn(d, x)]
    PROVE  SplitOK(Withdrawn(EntitledOn(d)), chain) /\ Clipped(chain, n)
<1>1. ASSUME NEW x \in DOMAIN chain
      PROVE  /\ x \in DOMAIN snap /\ x # d
             /\ chain[x].shares = snap[x].shares /\ chain[x].dropped = snap[x].dropped
  BY DEF ChainTyped, DayTyped, SnapDays
<1>2. ASSUME NEW k \in DOMAIN events, k[1] \notin EntitledOn(d), events[k].status = "confirmed"
      PROVE  \A p \in Platforms :
                StoredBase(chain, p, events[k].ent) = StoredBase(snap, p, events[k].ent)
  <2>1. events[k].ent # d
    BY <1>2, NotEntitled
  <2> QED
    BY <1>1, <2>1 DEF StoredBase, SnapDays
<1>3. SplitOK(Withdrawn(EntitledOn(d)), chain)
  BY <1>2, SplitWithdrawn
<1>4. Clipped(chain, n)
  BY <1>1 DEF Clipped
<1> QED
  BY <1>3, <1>4

LEMMA InitRepeats == Init => RepeatInv
<1> SUFFICES ASSUME Init PROVE RepeatInv
  OBVIOUS
<1>1. DOMAIN events = {} /\ DOMAIN snap = {0} /\ Idle
  BY DEF Init, Idle
<1>2. SplitOK(events, snap)
  BY <1>1 DEF SplitOK
<1>3. Clipped(snap, Passed)
  BY <1>1 DEF Clipped
<1> QED
  BY <1>1, <1>2, <1>3 DEF RepeatInv

\* The day a recalculation builds is the day that was there.
LEMMA DayAgain ==
    ASSUME IInv, BookInv, RepeatInv, IInv', BookInv', ~Idle, ~Idle',
           NEW d, d = tx.day, d \in TradingDays, Build(d, TRUE), UNCHANGED saved,
           tx'.day = d + 1, Repeatable, Again,
           Full(events', snap'), SplitOK(events', snap'), Clipped(snap', d + 1),
           Recovers(saved.events, events'), d \in DOMAIN saved.snap,
           NEW b \in SnapDays, b < d, \A x \in SnapDays : x < d => x <= b,
           snap'[d].stale = snap[b].stale
    PROVE  snap'[d] = saved.snap[d]
<1>1. /\ d \in Nat \ {0} /\ LastDay \in Nat /\ d < LastDay + 1 /\ d < d + 1
      /\ \A x \in SnapDays : x \in Nat
  <2>1. d \in Nat /\ d > 0 /\ LastDay \in Nat /\ d < LastDay + 1
    BY Days1, Numbers
  <2> QED
    BY <2>1, ChainDays, DaysAreNumbers
<1>2. /\ BookOK(saved.events, saved.snap, LastDay + 1) /\ Books(saved.events, saved.snap, LastDay + 1)
      /\ Missing(DOMAIN saved.snap) = {} /\ 0 \in DOMAIN saved.snap
      /\ SplitOK(saved.events, saved.snap) /\ Clipped(saved.snap, LastDay + 1)
      /\ DOMAIN saved.snap \subseteq SnapDays /\ SnapDays \subseteq TradingDays \cup {0}
      /\ \A x \in DOMAIN saved.snap : snap[x] = saved.snap[x] /\ ~saved.snap[x].stale
  BY ChainDays DEF IInv, BookInv, BookOK, ChainShape, RepeatInv, Repeatable, Again
<1>3. BookOK(events', snap', d + 1) /\ Books(events', snap', d + 1)
  BY DEF IInv, BookInv, Passed
<1>4. /\ DOMAIN snap' = SnapDays \cup {d}
      /\ \A x \in SnapDays : x # d => snap'[x] = snap[x]
  BY DEF Build, Put, SnapDays
<1>5. BuiltPast(saved.events, saved.snap, LastDay + 1, d)
  <2>1. RowsTyped(saved.events) /\ ChainTyped(saved.snap) /\ Whole(saved.events)
    BY <1>2 DEF Books, Repeatable
  <2>2. Full(saved.events, saved.snap)
    BY <1>2, <2>1, WholeIsFull
  <2> QED
    BY <1>1, <1>2, <2>1, <2>2 DEF BuiltPast
<1>7. \A y \in TradingDays : y < d => y \in DOMAIN saved.snap
  BY <1>2 DEF Missing
<1>8. b \in DOMAIN saved.snap /\ ~snap[b].stale /\ b \in Nat
  BY <1>1, <1>2, <1>7
<1>11. ~snap'[d].stale /\ ~saved.snap[d].stale
  BY <1>2, <1>8
<1>6. BuiltPast(events', snap', d + 1, d)
  BY <1>1, <1>3, <1>4, <1>11 DEF BuiltPast, Books
<1>9. ASSUME NEW y \in Nat, y < d
      PROVE  /\ y \in DOMAIN snap' <=> y \in DOMAIN saved.snap
             /\ y \in DOMAIN saved.snap => snap'[y] = saved.snap[y]
  <2>1. y # d
    BY <1>1, <1>9
  <2> QED
    BY <1>2, <1>4, <1>7, <1>9, <2>1
<1>10. \A y \in TradingDays : ~(b < y /\ y < d)
  <2> SUFFICES ASSUME NEW y \in TradingDays, b < y, y < d PROVE FALSE
    OBVIOUS
  <2>1. y \in SnapDays
    BY <1>2, <1>7
  <2> QED
    BY <1>1, <1>8, <2>1
<1> QED
  BY <1>1, <1>2, <1>3, <1>5, <1>6, <1>8, <1>9, <1>10, <1>11, SameDay

LEMMA SnapshotRequestRepeats ==
    ASSUME IInv, BookInv, RepeatInv, IInv', BookInv', SnapshotRequest
    PROVE  RepeatInv'
<1> DEFINE end == LastDay + 1
<1>1. /\ SnapDays \subseteq TradingDays \cup {0} /\ SnapDays \subseteq 0..LastDay /\ 0 \in SnapDays /\ end \in Nat /\ Passed \in Nat
      /\ LastDay \in Nat /\ TxTyped
      /\ BookOK(events, snap, Passed) /\ Books(events, snap, Passed)
      /\ RowsTyped(events) /\ ChainTyped(snap)
      /\ SplitOK(events, snap) /\ Clipped(snap, Passed)
      /\ \A x \in SnapDays : x \in Nat /\ x < end
  <2>1. LastDay \in Nat
    BY DaysAreNumbers
  <2> QED
    BY <2>1, ChainDays DEF IInv, BookInv, Books, RepeatInv, BookOK, ChainShape, SnapDays
<1>2. ASSUME NEW d \in TradingDays, Generate(d) \/ Advance(d)
      PROVE  RepeatInv'
  <2>1. /\ Idle /\ FollowsChain(d) /\ UNCHANGED <<today, tx, saved>>
        /\ Build(d, TRUE) \/ Build(d, FALSE)
    BY <1>2 DEF Generate, Advance
  <2>2. (\A x \in SnapDays : x <= d) /\ d < end
    <3>1. d < end
      BY Numbers
    <3>2. \A x \in SnapDays : x <= d
      BY <1>1, <2>1, DaysAreNumbers DEF FollowsChain, IsLatest, IsTradingDaysAfter
    <3> QED
      BY <3>1, <3>2
  <2>3. Passed = end
    BY <2>1 DEF Passed
  <2>4. SplitOK(events', snap')
    BY <1>1, <2>1, <2>2, <2>3, BuildSplit
  <2>5. Clipped(snap', end)
    BY <1>1, <2>1, <2>2, <2>3, BuildClips
  <2>6. Idle' /\ Passed' = end
    BY <2>1 DEF Idle, Passed
  <2> QED
    BY <2>4, <2>5, <2>6 DEF RepeatInv
<1>3. ASSUME NEW d \in TradingDays, DeleteDay(d)
      PROVE  RepeatInv'
  <2>1. /\ Idle /\ UNCHANGED <<today, tx, saved>>
        /\ snap' = [e \in SnapDays \ {d} |-> [snap[e] EXCEPT !.stale = @ \/ CountsOn(d, e)]]
        /\ events' = Withdrawn(EntitledOn(d))
    BY <1>3 DEF DeleteDay
  <2>2. Passed = end /\ Idle' /\ Passed' = end
    BY <2>1 DEF Passed, Idle
  <2>3. SplitOK(events', snap') /\ Clipped(snap', end)
    <3>1. /\ DOMAIN snap' = SnapDays \ {d}
          /\ \A x \in DOMAIN snap' : snap'[x] = [snap[x] EXCEPT !.stale = @ \/ CountsOn(d, x)]
      BY <2>1
    <3> QED
      BY <1>1, <2>1, <2>2, <3>1, DeleteDaySplit
  <2> QED
    BY <2>2, <2>3 DEF RepeatInv
<1>4. ASSUME ConfirmOnly
      PROVE  RepeatInv'
  <2>1. PICK l \in SnapDays : Idle /\ events' = AutoConfirmed(events, snap, l)
                              /\ UNCHANGED <<snap, today, tx, saved>>
    BY <1>4 DEF ConfirmOnly
  <2>2. SplitOK(AutoConfirmed(events, snap, l), snap)
    BY <1>1, AutoConfirmedRepeats
  <2>3. Idle' /\ Passed' = Passed
    BY <2>1 DEF Passed, Idle
  <2> QED
    BY <1>1, <2>1, <2>2, <2>3 DEF RepeatInv
<1>5. ASSUME NEW d \in Days, BeginRecalculate(d)
      PROVE  RepeatInv'
  <2>1. Idle /\ Begins(d) /\ saved' = DB /\ UNCHANGED <<events, snap, today>>
    BY <1>5 DEF BeginRecalculate, Begins
  <2>2. /\ ~Idle' /\ tx'.day = d
    BY <1>1, <2>1, BeginsTyped DEF Begins
  <2>3. Passed = end /\ Passed' = d
    BY <2>1, <2>2 DEF Passed
  <2>4. Clipped(snap, d)
    BY <1>1, <2>3, ClippedNarrowed DEF SnapDays
  <2>5. saved'.events = events /\ saved'.snap = snap
    BY <2>1 DEF DB
  <2>6. ASSUME Whole(events)
        PROVE  Full(events, snap) /\ Recovers(events, events)
    BY <1>1, <2>6, WholeIsFull DEF Recovers, SameTerms
  <2>7. Repeatable' => Again'
    BY <2>1, <2>5, <2>6 DEF Repeatable, Again, SnapDays
  <2> QED
    BY <1>1, <2>1, <2>3, <2>4, <2>5, <2>7 DEF RepeatInv
<1>6. ASSUME ~Idle
      PROVE  /\ Passed = tx.day /\ tx.day \in Nat /\ tx.end \in Nat
             /\ BookOK(events, snap, tx.day) /\ Books(events, snap, tx.day)
             /\ Clipped(snap, tx.day) /\ \A x \in SnapDays : x <= tx.end
             /\ SplitOK(saved.events, saved.snap) /\ Clipped(saved.snap, end)
             /\ Repeatable => Again
  BY <1>1, <1>6 DEF IInv, RepeatInv, Passed, TxTyped
<1>7. ASSUME RecalcDay
      PROVE  RepeatInv'
  <2> DEFINE d == tx.day
  <2>1. /\ ~Idle /\ tx.day <= tx.end /\ tx.day \in TradingDays /\ AtTradingDay
        /\ Build(tx.day, TRUE) /\ NextInTx /\ UNCHANGED <<today, saved>>
    BY <1>7 DEF RecalcDay, AtTradingDay
  <2>2. ~Idle' /\ tx'.day = d + 1 /\ Passed' = d + 1
    <3>1. TxTyped' /\ ~Idle'
      BY <1>1, <2>1, NextInTxTyped
    <3>2. tx'.day = tx.day + 1
      BY <1>1, <2>1 DEF NextInTx, TxTyped
    <3> QED
      BY <3>1, <3>2 DEF Passed
  <2>3. /\ d \in Nat /\ d + 1 \in Nat /\ d < d + 1 /\ d \in TradingDays
        /\ BookOK(events, snap, d) /\ Books(events, snap, d) /\ Clipped(snap, d)
        /\ Build(d, TRUE)
    <3>1. d \in Nat
      BY <1>6, <2>1
    <3>2. d + 1 \in Nat /\ d < d + 1
      BY <3>1
    <3> QED
      BY <1>6, <2>1, <3>1, <3>2, Zenon
  <2>4. \A x \in SnapDays : x < d + 1 => x <= d /\ (x = d \/ x < d)
    BY <1>1, <2>3
  <2> HIDE DEF d
  <2>5. /\ SplitOK(events', snap')
        /\ Full(events, snap) => Full(events', snap')
        /\ Recovers(events, events')
    BY <1>1, <2>3, <2>4, BuildSplit
  <2>6. /\ Clipped(snap', d + 1)
        /\ \E b \in SnapDays : /\ b < d /\ (\A x \in SnapDays : x < d => x <= b)
                               /\ snap'[d].stale = snap[b].stale
    BY <1>1, <2>3, <2>4, BuildClips
  <2>7. ASSUME Repeatable
        PROVE  Again'
    <3>1. Again
      BY <1>6, <2>1, <2>7
    <3>2. Full(events', snap') /\ Recovers(saved.events, events')
      BY <2>5, <3>1, RecoversOn DEF Again
    <3>3. /\ DOMAIN snap' = SnapDays \cup {d}
          /\ \A x \in SnapDays : x # d => snap'[x] = snap[x]
      BY <2>3 DEF Build, Put, SnapDays
    <3>4. d \in DOMAIN saved.snap => snap'[d] = saved.snap[d]
      BY <2>1, <2>2, <2>3, <2>5, <2>6, <2>7, <3>1, <3>2, DayAgain DEF d
    <3> QED
      BY <2>1, <3>1, <3>2, <3>3, <3>4 DEF Again, SnapDays
  <2>8. Repeatable' => Repeatable
    BY <2>1 DEF Repeatable
  <2> QED
    BY <1>6, <2>1, <2>2, <2>5, <2>6, <2>7, <2>8 DEF RepeatInv
<1>8. ASSUME RecalcSkipDay
      PROVE  RepeatInv'
  <2>1. /\ ~Idle /\ tx.day \notin TradingDays /\ AtHoliday /\ NextInTx
        /\ UNCHANGED <<events, snap, today, saved>>
    BY <1>8 DEF RecalcSkipDay, AtHoliday
  <2>2. ~Idle' /\ Passed' = tx.day + 1
    <3>1. TxTyped' /\ ~Idle'
      BY <1>1, <2>1, NextInTxTyped
    <3>2. tx'.day = tx.day + 1
      BY <1>1, <2>1 DEF NextInTx, TxTyped
    <3> QED
      BY <3>1, <3>2 DEF Passed
  <2>3. \A x \in SnapDays : x < tx.day + 1 => x < tx.day
    <3>1. tx.day \notin SnapDays
      BY <2>1, Days1 DEF BookInv, IInv, BookOK, ChainShape, SnapDays
    <3> SUFFICES ASSUME NEW x \in SnapDays, x < tx.day + 1 PROVE x < tx.day
      OBVIOUS
    <3>2. x \in Nat /\ tx.day \in Nat /\ x # tx.day
      BY <1>1, <1>6, <2>1, <3>1
    <3> QED
      BY <3>2
  <2>4. Clipped(snap, tx.day + 1)
    BY <1>6, <2>1, <2>3, ClippedNarrowed DEF SnapDays
  <2>5. (Repeatable' => Repeatable) /\ (Again => Again')
    BY <2>1 DEF Repeatable, Again, SnapDays
  <2> QED
    BY <1>1, <1>6, <2>1, <2>2, <2>4, <2>5 DEF RepeatInv
<1>9. ASSUME Commit
      PROVE  RepeatInv'
  <2>1. ~Idle /\ tx.day > tx.end /\ tx' = NoTx /\ UNCHANGED <<events, snap, today>>
    BY <1>9 DEF Commit, AtEnd
  <2>2. \A x \in SnapDays : x < tx.day
    <3> SUFFICES ASSUME NEW x \in SnapDays PROVE x < tx.day
      OBVIOUS
    <3>1. x \in Nat /\ x <= tx.end /\ tx.day \in Nat /\ tx.end \in Nat
      BY <1>1, <1>6, <2>1
    <3> QED
      BY <2>1, <3>1
  <2>3. Clipped(snap, end)
    BY <1>6, <2>1, <2>2, ClippedNarrowed DEF SnapDays
  <2>4. Idle' /\ Passed' = end
    BY <2>1, NoTxTyped DEF Passed
  <2> QED
    BY <1>1, <2>1, <2>3, <2>4 DEF RepeatInv
<1>10. ASSUME Rollback
       PROVE  RepeatInv'
  <2>1. ~Idle /\ events' = saved.events /\ snap' = saved.snap /\ tx' = NoTx
    BY <1>10 DEF Rollback
  <2>2. Idle' /\ Passed' = end
    BY <2>1, NoTxTyped DEF Passed
  <2> QED
    BY <1>6, <2>1, <2>2 DEF RepeatInv
<1> QED
  BY <1>2, <1>3, <1>4, <1>5, <1>7, <1>8, <1>9, <1>10 DEF SnapshotRequest

LEMMA NextRepeats ==
    IInv /\ BookInv /\ RepeatInv /\ IInv' /\ BookInv' /\ [Next]_vars => RepeatInv'
<1> SUFFICES ASSUME IInv, BookInv, RepeatInv, IInv', BookInv', [Next]_vars
             PROVE  RepeatInv'
  OBVIOUS
<1>1. CASE EventRequest
  <2>1. /\ Books(events, snap, Passed) /\ BookOK(events, snap, Passed)
        /\ RowsTyped(events) /\ ChainTyped(snap)
        /\ SplitOK(events, snap) /\ Clipped(snap, Passed)
    BY DEF IInv, BookInv, Books, RepeatInv
  <2>2. Idle /\ UNCHANGED <<today, tx, saved>>
    BY <1>1, <2>1, EventRequestKeeps
  <2>3. SplitOK(events', snap') /\ Clipped(snap', Passed)
    BY <1>1, <2>1, EventRequestSplit, EventRequestClips
  <2>4. Idle' /\ Passed' = Passed
    BY <2>2 DEF Idle, Passed
  <2> QED
    BY <2>3, <2>4 DEF RepeatInv
<1>2. CASE SnapshotRequest
  BY <1>2, SnapshotRequestRepeats
<1>3. CASE NewDay \/ UNCHANGED vars
  <2>1. UNCHANGED <<events, snap, tx, saved>>
    BY <1>3 DEF NewDay, vars
  <2> QED
    BY <2>1 DEF RepeatInv, Repeatable, Again, Passed, Idle, SnapDays
<1> QED
  BY <1>1, <1>2, <1>3 DEF Next

\* At every moment of a recalculation of a chain that is whole and in step, the
\* events are those it started with, settled or to be settled again, and every day
\* of the chain, rebuilt already or still to be, says what it said.
THEOREM RebuildRepeats == Spec => []RepeatInv
<1> QED
  BY InitHolds, NextKeeps, InitBooks, NextBooks, InitRepeats, NextRepeats, PTL DEF Spec

\* Recalculating a chain no day is missing from gives the same chain, whichever events it withdraws and
\* confirms again on the way: for every calendar, any events, platforms, amounts
\* and trades (recalculate_snapshots, auto_confirm_after_snapshot).
THEOREM RecalculationAlwaysRepeats == Spec => RecalculationRepeats
<1>1. RepeatInv /\ [Next]_vars =>
        [Commit /\ Whole(saved.events) /\ Missing(DOMAIN saved.snap) = {}
             /\ (\A d \in DOMAIN saved.snap : ~saved.snap[d].stale)
           => \A d \in DOMAIN saved.snap : snap[d] = saved.snap[d]]_vars
  <2> SUFFICES ASSUME RepeatInv, Commit, Whole(saved.events), Missing(DOMAIN saved.snap) = {},
                      \A d \in DOMAIN saved.snap : ~saved.snap[d].stale,
                      NEW d \in DOMAIN saved.snap
               PROVE  snap[d] = saved.snap[d]
    OBVIOUS
  <2>1. ~Idle
    BY DEF Commit, AtEnd
  <2> QED
    BY <2>1 DEF RepeatInv, Repeatable, Again
<1> QED
  BY <1>1, RebuildRepeats, PTL DEF Spec, RecalculationRepeats
=============================================================================
