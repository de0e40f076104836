---------------------------- MODULE ChainProofs ----------------------------
(* Facts about the calendar and the recalculation of a Chain, for the proofs *)
(* about the books that are added up into it.                                *)
EXTENDS Chain, FiniteSetTheorems, WellFoundedInduction, TLAPS

TxTyped == tx \in [day : 0..LastDay + 1, end : 0..LastDay]

LEMMA DaysAreNumbers ==
    /\ Days \subseteq Nat /\ TradingDays \subseteq Nat /\ LastDay \in Nat
    /\ TradingDays \subseteq Days /\ Days \subseteq 0..LastDay
BY CalendarAssumption DEF Days

\* A nonempty set of days has a last one.
LEMMA MaxOfDays ==
    ASSUME NEW S \in SUBSET (0..LastDay), S # {}
    PROVE  Max(S) \in S /\ \A x \in S : x <= Max(S)
<1> DEFINE T == {LastDay - x : x \in S}
<1>1. T \in SUBSET Nat /\ T # {}
  <2>1. \A x \in S : LastDay - x \in Nat
    BY CalendarAssumption
  <2> QED
    BY <2>1
<1>2. PICK m \in T : \A n \in T : ~ (<<n, m>> \in OpToRel(<, Nat))
  BY <1>1, NatLessThanWellFounded, WFMin
<1>3. \A n \in T : m <= n
  <2> HIDE DEF T
  <2> SUFFICES ASSUME NEW n \in T, n < m PROVE FALSE
    BY <1>1
  <2>1. <<n, m>> \in Nat \X Nat /\ <<n, m>>[1] < <<n, m>>[2]
    BY <1>1
  <2>2. <<n, m>> \in OpToRel(<, Nat)
    BY <2>1 DEF OpToRel
  <2> QED
    BY <1>2, <2>2
<1>4. PICK x \in S : m = LastDay - x
  BY <1>2
<1>5. \A y \in S : x >= y
  BY <1>3, <1>4, CalendarAssumption
<1>6. Max(S) \in S /\ \A y \in S : Max(S) >= y
  BY <1>5 DEF Max
<1> QED
  BY <1>6

\* A recalculation starts at a day and ends at the last one of the chain.
LEMMA BeginsTyped ==
    ASSUME SnapDays \subseteq 0..LastDay, NEW start, Begins(start)
    PROVE  /\ TxTyped' /\ ~Idle' /\ tx'.day \in Days
           /\ \A d \in SnapDays : d <= tx'.end
<1>1. start \in Days /\ tx' = [day |-> start, end |-> Max(SnapDays \cup {start})]
  BY DEF Begins
<1>2. SnapDays \cup {start} \in SUBSET (0..LastDay)
  BY <1>1, DaysAreNumbers
<1>3. /\ Max(SnapDays \cup {start}) \in 0..LastDay
      /\ \A d \in SnapDays : d <= Max(SnapDays \cup {start})
  BY <1>2, MaxOfDays
<1>4. start \in 0..LastDay + 1 /\ start # 0
  BY <1>1, CalendarAssumption DEF Days
<1> QED
  BY <1>1, <1>3, <1>4 DEF TxTyped, Idle, NoTx, NoDate

LEMMA NextInTxTyped ==
    ASSUME TxTyped, AtTradingDay \/ AtHoliday, NextInTx
    PROVE  TxTyped' /\ ~Idle'
<1>1. tx.day \in 0..LastDay /\ tx.end \in 0..LastDay
  BY CalendarAssumption DEF TxTyped, AtTradingDay, AtHoliday
<1>2. tx' = [day |-> tx.day + 1, end |-> tx.end]
  BY DEF TxTyped, NextInTx
<1>3. tx.day + 1 \in 0..LastDay + 1 /\ tx.day + 1 # 0
  BY <1>1, CalendarAssumption
<1> QED
  BY <1>1, <1>2, <1>3 DEF TxTyped, Idle, NoTx, NoDate

LEMMA NoTxTyped ==
    ASSUME tx' = NoTx
    PROVE  TxTyped' /\ Idle'
<1>1. 0 \in 0..LastDay /\ 0 \in 0..LastDay + 1
  BY CalendarAssumption
<1> QED
  BY <1>1 DEF TxTyped, Idle, NoTx, NoDate

\* Days that are so many trading days apart are in order.
LEMMA LaterTradingDay ==
    ASSUME NEW d, NEW n, NEW c, IsTradingDaysAfter(d, n, c)
    PROVE  c \in TradingDays /\ c >= d
BY DEF IsTradingDaysAfter

-----------------------------------------------------------------------------
(* Missing days                                                            *)

\* What a generation or a recalculation starts with leaves out no trading day
\* after the chain.
LEMMA FollowsClosely ==
    ASSUME SnapDays \subseteq 0..LastDay, NEW d, FollowsChain(d)
    PROVE  \A e \in TradingDays \ SnapDays : e < d => e \in Missing(SnapDays)
<1> SUFFICES ASSUME NEW e \in TradingDays, e \notin SnapDays, e < d
             PROVE  \E x \in SnapDays : e < x
  BY DEF Missing
<1>1. PICK l \in SnapDays : IsLatest(l) /\ (d = l \/ IsTradingDaysAfter(l, 1, d))
  BY DEF FollowsChain
<1>2. l \in Nat /\ e \in Nat
  BY <1>1, DaysAreNumbers
<1>3. CASE e <= l
  BY <1>1, <1>2, <1>3
<1>4. CASE l < e
  <2>0. IsTradingDaysAfter(l, 1, d)
    BY <1>1, <1>2, <1>4
  <2>1. IsTradingDaysAfter(l, 1, d) /\ d \in Nat
    BY <2>0, DaysAreNumbers DEF IsTradingDaysAfter
  <2> DEFINE S == {x \in TradingDays : l < x /\ x <= d}
  <2>2. d \in S /\ e \in S /\ e # d
    BY <1>2, <1>4, <2>1 DEF IsTradingDaysAfter
  <2>3. Cardinality(S) = 1
    BY <2>1 DEF IsTradingDaysAfter
  <2>4. IsFiniteSet(S)
    <3>1. IsFiniteSet(0..LastDay)
      BY CalendarAssumption, FS_Interval
    <3>2. S \in SUBSET (0..LastDay)
      BY DaysAreNumbers
    <3> HIDE DEF S
    <3> QED BY <3>1, <3>2, FS_Subset
  <2>5. \E x : S = {x}
    <3> HIDE DEF S
    <3> QED BY <2>3, <2>4, FS_Singleton
  <2> HIDE DEF S
  <2> QED
    BY <2>2, <2>5
<1> QED
  BY <1>2, <1>3, <1>4

\* What a recalculation starts with, likewise.
LEMMA BeginsClosely ==
    ASSUME SnapDays \subseteq 0..LastDay, NEW start, Begins(start)
    PROVE  \A e \in TradingDays \ SnapDays : e < start => e \in Missing(SnapDays)
<1> SUFFICES ASSUME NEW e \in TradingDays, e \notin SnapDays, e < start, ~AfterLatest(start)
             PROVE  \E x \in SnapDays : e < x
  BY FollowsClosely DEF Begins, Missing
<1>1. PICK x \in SnapDays : ~(x < start)
  BY DEF AfterLatest
<1>2. x \in Nat /\ start \in Nat /\ e \in Nat
  BY DaysAreNumbers DEF Begins
<1> QED
  BY <1>1, <1>2

\* A day that is built is not missing any more, and misses none if all before it
\* are known to be missing; a day that goes is the only one that comes to be missing.
LEMMA MissingChanges ==
    ASSUME NEW days \in SUBSET Nat, NEW d
    PROVE  /\ (\A e \in TradingDays \ days : e < d => e \in Missing(days))
                 => Missing(days \cup {d}) = Missing(days) \ {d}
           /\ Missing(days \ {d}) \subseteq Missing(days) \cup {d}
           /\ Missing(days) \ {d} \subseteq Missing(days \cup {d})
BY DEF Missing
=============================================================================
