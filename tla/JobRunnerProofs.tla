-------------------------- MODULE JobRunnerProofs --------------------------
(* What JobRunner promises for any number of submissions, processes and     *)
(* threads, with any number of crashes and failing writes: what a reported  *)
(* success is worth, what alone lets two jobs of a kind overlap, and that a *)
(* submission is executed at most once (the refinement of OneShot).         *)
EXTENDS JobRunner, TLAPS

-----------------------------------------------------------------------------
(* The inductive invariant                                                 *)

\* Nothing of a recalculation is committed before its work ends.
NotYetEffective ==
    \A j \in Jobs :
        pc[j] \in {"new", "counted", "stored", "queued", "started", "running"} => ~effect[j]

\* Success is written last, and only what was committed is about to be written.
SuccessIsFinal ==
    \A j \in Jobs :
        /\ row[j] = "success" => pc[j] = "over" /\ (kind[j] = "recalc" => effect[j])
        /\ verdict[j] = "success" => pc[j] = "settling" /\ (kind[j] = "recalc" => effect[j])

\* A job in progress whose row says otherwise was interrupted by a recovery.
AliveIsActive ==
    \A j \in Jobs : Alive(j) => row[j] \in Active \/ j \in disowned

\* A submission that has counted sees no job of its kind in progress, but for
\* those it raced with and those a recovery disowned.
CountedAlone ==
    \A i, j \in Jobs :
        /\ i # j /\ kind[i] = kind[j] /\ pc[j] = "counted" /\ Alive(i)
        => i \in disowned \/ j \in raced

IInv ==
    /\ TypeOK /\ NotYetEffective /\ SuccessIsFinal
    /\ AliveIsActive /\ CountedAlone /\ OverlapExplained

Rest == NotYetEffective /\ SuccessIsFinal /\ AliveIsActive /\ CountedAlone /\ OverlapExplained

-----------------------------------------------------------------------------
(* Initial states and steps                                                *)

LEMMA StageNumbers == Stages = 0..6 /\ 2 * Len(Recoveries) = 6
<1>1. Len(Recoveries) = 3
  BY DEF Recoveries
<1> QED
  BY <1>1 DEF Stages

LEMMA InitHolds == Init => IInv
<1> SUFFICES ASSUME Init PROVE IInv
  OBVIOUS
<1>1. TypeOK
  <2>1. (CHOOSE p \in Procs : TRUE) \in Procs
    BY ProcAssumption
  <2>2. queue \in [Procs -> Seq(Jobs)]
    BY DEF Init
  <2> QED
    BY <2>1, <2>2, StageNumbers, BoundAssumption DEF Init, TypeOK, Statuses
<1>2. Rest
  BY DEF Init, Rest, NotYetEffective, SuccessIsFinal, AliveIsActive, CountedAlone,
         OverlapExplained, Alive, Executing
<1> QED
  BY <1>1, <1>2 DEF IInv, Rest

\* What the statuses of every kind have in common.
LEMMA StatusFacts ==
    ASSUME NEW k \in Kinds
    PROVE  /\ {"none", "interrupted", "pending", "running", "success", "failed"} \subseteq Statuses(k)
           /\ Verdicts(k) \subseteq Statuses(k)
           /\ "none" \notin Verdicts(k)
           /\ Verdicts(k) \cap {"pending", "running"} = {}
BY KindAssumption DEF Statuses, Verdicts, Active, AllKinds

LEMMA StepTyped ==
    ASSUME TypeOK, [Next]_vars
    PROVE  TypeOK'
<1> USE DEF TypeOK, Goto, Write, history, Executing
<1>1. ASSUME NEW j \in Jobs, NEW p \in Procs, Count(j, p)
      PROVE  TypeOK'
  BY <1>1 DEF Count
<1>2. ASSUME NEW j \in Jobs, Insert(j)
      PROVE  TypeOK'
  BY <1>2, StatusFacts DEF Insert, OfKind
<1>3. ASSUME NEW j \in Jobs, Enqueue(j)
      PROVE  TypeOK'
  <2>1. Append(queue[home[j]], j) \in Seq(Jobs)
    OBVIOUS
  <2> QED
    BY <1>3, <2>1 DEF Enqueue
<1>4. ASSUME NEW j \in Jobs, EnqueueFails(j)
      PROVE  TypeOK'
  BY <1>4, StatusFacts, BoundAssumption DEF EnqueueFails
<1>5. ASSUME NEW j \in Jobs, Take(j)
      PROVE  TypeOK'
  <2>1. Tail(queue[home[j]]) \in Seq(Jobs)
    BY <1>5 DEF Take
  <2> QED
    BY <1>5, <2>1 DEF Take
<1>6. ASSUME NEW j \in Jobs, Start(j)
      PROVE  TypeOK'
  BY <1>6, StatusFacts DEF Start
<1>7. ASSUME NEW j \in Jobs, Work(j)
      PROVE  TypeOK'
  BY <1>7 DEF Work
<1>8. ASSUME NEW j \in Jobs, Settle(j)
      PROVE  TypeOK'
  BY <1>8, StatusFacts DEF Settle
<1>9. ASSUME NEW j \in Jobs, Fault(j)
      PROVE  TypeOK'
  <2>1. faults' \in 0..MaxFaults
    BY <1>9, BoundAssumption DEF Fault
  <2>2. CASE kind[j] = "recalc"
    BY <1>9, <2>1, <2>2 DEF Fault
  <2>3. CASE kind[j] # "recalc"
    BY <1>9, <2>1, <2>3 DEF Fault
  <2> QED
    BY <2>2, <2>3
<1>10. ASSUME NEW j \in Jobs, Rescue(j)
       PROVE  TypeOK'
  BY <1>10, StatusFacts DEF Rescue
<1>11. ASSUME NEW j \in Jobs, RescueFails(j)
       PROVE  TypeOK'
  BY <1>11, BoundAssumption DEF RescueFails
<1>12. ASSUME NEW p \in Procs, Crash(p)
       PROVE  TypeOK'
  BY <1>12, StageNumbers, BoundAssumption DEF Crash
<1>13. ASSUME NEW p \in Procs, ReadOrphans(p)
       PROVE  TypeOK'
  <2>1. boot[p] + 1 \in Stages
    BY <1>13, StageNumbers DEF ReadOrphans
  <2> QED
    BY <1>13, <2>1 DEF ReadOrphans
<1>14. ASSUME NEW p \in Procs, WriteOrphans(p)
       PROVE  TypeOK'
  <2>1. (IF boot[p] = 2 * Len(Recoveries) THEN 0 ELSE boot[p] + 1) \in Stages
    <3>1. boot[p] \in 0..6 /\ (boot[p] # 6 => boot[p] + 1 \in 0..6)
      BY StageNumbers
    <3> QED
      BY <3>1, StageNumbers
  <2> QED
    BY <1>14, <2>1, StatusFacts DEF WriteOrphans
<1>15. CASE UNCHANGED vars
  BY <1>15 DEF vars
<1>16. ASSUME NEW j \in Jobs, Strand(j)
       PROVE  TypeOK'
  BY <1>16, BoundAssumption DEF Strand
<1> QED
  BY <1>1, <1>2, <1>3, <1>4, <1>5, <1>6, <1>7, <1>8, <1>9, <1>10, <1>11, <1>12,
     <1>13, <1>14, <1>15, <1>16 DEF Next, Execute

LEMMA StepKeeps ==
    ASSUME TypeOK, Rest, [Next]_vars
    PROVE  Rest'
<1> USE DEF TypeOK, Rest, NotYetEffective, SuccessIsFinal, AliveIsActive, CountedAlone,
            OverlapExplained, Alive, Executing, Active, Goto, Write, history
<1>1. ASSUME NEW j \in Jobs, NEW p \in Procs, Count(j, p)
      PROVE  Rest'
  <2>1. \A i \in Jobs : kind[i] = kind[j] => row[i] \notin Active
    BY <1>1 DEF Count, ActiveRows, OfKind
  <2>2. CountedAlone'
    BY <1>1, <2>1 DEF Count
  <2> QED
    BY <1>1, <2>2 DEF Count
<1>2. ASSUME NEW j \in Jobs, Insert(j)
      PROVE  Rest'
  <2>1. /\ row' = [row EXCEPT ![j] = "pending"] /\ pc' = [pc EXCEPT ![j] = "stored"]
        /\ raced' = raced \cup {i \in Jobs \ {j} : kind[i] = kind[j] /\ pc[i] = "counted"}
        /\ pc[j] = "counted" /\ UNCHANGED <<kind, effect, verdict, disowned>>
    BY <1>2 DEF Insert, OfKind
  <2>2. NotYetEffective' /\ SuccessIsFinal' /\ AliveIsActive'
    BY <2>1
  <2>3. ASSUME NEW i \in Jobs, NEW k \in Jobs, i # k, kind[i] = kind[k],
               pc'[k] = "counted", Alive(i)'
        PROVE  i \in disowned \/ k \in raced'
    <3>1. k # j /\ pc[k] = "counted"
      BY <2>1, <2>3
    <3>2. CASE i = j
      BY <2>1, <2>3, <3>1, <3>2
    <3>3. CASE i # j
      BY <2>1, <2>3, <3>1, <3>3
    <3> QED
      BY <3>2, <3>3
  <2>4. ASSUME NEW i \in Jobs, NEW k \in Jobs, i # k, kind[i] = kind[k],
               Alive(i)', Alive(k)', i # j
        PROVE  {i, k} \cap (raced' \cup disowned') # {}
    <3>1. Alive(i)
      BY <2>1, <2>4
    <3>2. CASE k = j
      BY <2>1, <2>4, <3>1, <3>2
    <3>3. CASE k # j
      <4>1. Alive(k)
        BY <2>1, <2>4, <3>3
      <4> QED
        BY <2>1, <2>4, <3>1, <4>1
    <3> QED
      BY <3>2, <3>3
  <2>5. OverlapExplained'
    <3> SUFFICES ASSUME NEW i \in Jobs, NEW k \in Jobs, i # k, kind'[i] = kind'[k],
                        Alive(i)', Alive(k)'
                 PROVE  {i, k} \cap (raced' \cup disowned') # {}
      OBVIOUS
    <3>1. kind[i] = kind[k]
      BY <2>1
    <3>2. CASE i # j
      BY <2>4, <3>1, <3>2
    <3>3. CASE i = j
      <4>1. {k, i} \cap (raced' \cup disowned') # {}
        BY <2>4, <3>1, <3>3
      <4> QED
        BY <4>1
    <3> QED
      BY <3>2, <3>3
  <2>6. CountedAlone'
    BY <2>1, <2>3
  <2> QED
    BY <2>2, <2>5, <2>6
<1>3. ASSUME NEW j \in Jobs, Enqueue(j)
      PROVE  Rest'
  BY <1>3 DEF Enqueue
<1>4. ASSUME NEW j \in Jobs, EnqueueFails(j)
      PROVE  Rest'
  BY <1>4 DEF EnqueueFails
<1>5. ASSUME NEW j \in Jobs, Take(j)
      PROVE  Rest'
  BY <1>5 DEF Take
<1>6. ASSUME NEW j \in Jobs, Start(j)
      PROVE  Rest'
  BY <1>6 DEF Start
<1>7. ASSUME NEW j \in Jobs, Work(j)
      PROVE  Rest'
  <2>1. PICK v \in Verdicts(kind[j]) :
            /\ verdict' = [verdict EXCEPT ![j] = v]
            /\ effect' = [effect EXCEPT ![j] = kind[j] = "recalc" /\ v = "success"]
    BY <1>7 DEF Work
  <2>2. /\ pc[j] = "running" /\ pc' = [pc EXCEPT ![j] = "settling"]
        /\ UNCHANGED <<kind, row, raced, disowned>>
    BY <1>7 DEF Work
  <2>3. NotYetEffective'
    BY <2>1, <2>2
  <2>4. SuccessIsFinal'
    <3>1. \A i \in Jobs \ {j} : verdict'[i] = verdict[i] /\ effect'[i] = effect[i] /\ pc'[i] = pc[i]
      BY <2>1, <2>2
    <3>2. row'[j] # "success" /\ pc'[j] = "settling"
      BY <2>2
    <3>3. verdict'[j] = v /\ effect'[j] = (kind[j] = "recalc" /\ v = "success")
      BY <2>1, Zenon
    <3>4. verdict'[j] = "success" /\ kind'[j] = "recalc" => effect'[j]
      BY <2>2, <3>3, Zenon
    <3> QED
      BY <2>2, <3>1, <3>2, <3>4
  <2>5. AliveIsActive' /\ CountedAlone' /\ OverlapExplained'
    BY <2>2
  <2> QED
    BY <2>3, <2>4, <2>5
<1>8. ASSUME NEW j \in Jobs, Settle(j)
      PROVE  Rest'
  BY <1>8 DEF Settle
<1>9. ASSUME NEW j \in Jobs, Fault(j)
      PROVE  Rest'
  <2>1. /\ pc[j] \in {"started", "running", "settling"}
        /\ verdict' = [verdict EXCEPT ![j] = "none"]
        /\ UNCHANGED <<kind, row, effect, raced, disowned>>
    BY <1>9 DEF Fault
  <2>2. pc' = [pc EXCEPT ![j] = "rescue"] \/ pc' = [pc EXCEPT ![j] = "over"]
    BY <1>9 DEF Fault
  <2>3. NotYetEffective' /\ SuccessIsFinal'
    BY <2>1, <2>2
  <2>4. /\ \A i \in Jobs : Alive(i)' => Alive(i)
        /\ \A i \in Jobs : pc'[i] = "counted" => pc[i] = "counted"
    BY <2>1, <2>2
  <2>5. AliveIsActive' /\ CountedAlone' /\ OverlapExplained'
    BY <2>1, <2>4
  <2> QED
    BY <2>3, <2>5
<1>10. ASSUME NEW j \in Jobs, Rescue(j)
       PROVE  Rest'
  BY <1>10 DEF Rescue
<1>11. ASSUME NEW j \in Jobs, RescueFails(j)
       PROVE  Rest'
  BY <1>11 DEF RescueFails
<1>12. ASSUME NEW p \in Procs, Crash(p)
       PROVE  Rest'
  BY <1>12 DEF Crash
<1>13. ASSUME NEW p \in Procs, ReadOrphans(p)
       PROVE  Rest'
  BY <1>13 DEF ReadOrphans
<1>14. ASSUME NEW p \in Procs, WriteOrphans(p)
       PROVE  Rest'
  <2>1. /\ row' = [i \in Jobs |-> IF i \in orphans[p] THEN "interrupted" ELSE row[i]]
        /\ disowned' = disowned \cup {i \in orphans[p] : Alive(i)}
        /\ UNCHANGED <<kind, pc, effect, verdict, raced>>
    BY <1>14 DEF WriteOrphans
  <2>2. NotYetEffective' /\ SuccessIsFinal'
    BY <2>1
  <2>3. AliveIsActive'
    BY <2>1
  <2>4. CountedAlone' /\ OverlapExplained'
    BY <2>1
  <2> QED
    BY <2>2, <2>3, <2>4
<1>15. CASE UNCHANGED vars
  BY <1>15 DEF vars
<1>16. ASSUME NEW j \in Jobs, Strand(j)
       PROVE  Rest'
  BY <1>16 DEF Strand
<1> QED
  BY <1>1, <1>2, <1>3, <1>4, <1>5, <1>6, <1>7, <1>8, <1>9, <1>10, <1>11, <1>12,
     <1>13, <1>14, <1>15, <1>16 DEF Next, Execute

-----------------------------------------------------------------------------
(* The theorems                                                            *)

\* The invariant of everything below, for any numbers of submissions, processes,
\* threads, crashes and failing writes.
THEOREM JobInvariant == Spec => []IInv
<1>1. IInv /\ [Next]_vars => IInv'
  BY StepTyped, StepKeeps DEF IInv, Rest
<1> QED
  BY <1>1, InitHolds, PTL DEF Spec

\* Rows only ever carry statuses of their own table.
THEOREM JobTypeCorrect == Spec => []TypeOK
<1>1. IInv => TypeOK
  BY DEF IInv
<1> QED
  BY <1>1, JobInvariant, PTL

\* A recalculation reported as successful was committed.
THEOREM ReportedSuccessIsTrue == Spec => []SuccessIsTrue
<1>1. IInv => SuccessIsTrue
  BY DEF IInv, SuccessIsFinal, SuccessIsTrue, OfKind
<1> QED
  BY <1>1, JobInvariant, PTL

\* Two jobs of a kind overlap only after a race of two submissions or because a
\* starting process disowned one.
THEOREM OverlapOnlyExplained == Spec => []OverlapExplained
<1>1. IInv => OverlapExplained
  BY DEF IInv
<1> QED
  BY <1>1, JobInvariant, PTL

-----------------------------------------------------------------------------
(* The refinement                                                          *)

Phases == [j \in Jobs |-> Phase(j)]

\* What a step leaves alone of a job, it leaves alone of its phase.
LEMMA PhaseFacts ==
    ASSUME TypeOK
    PROVE  \A j \in Jobs :
             /\ Phases[j] = "new" <=> pc[j] \in {"new", "counted"}
             /\ Phases[j] = "ended" <=> pc[j] = "over"
             /\ Phases[j] = "open" <=> Alive(j)
             /\ Phases[j] \in {"new", "open", "ended"}
BY DEF Phases, Phase, TypeOK, Alive, Executing

LEMMA InitRefined == Init => Promise!Init
BY DEF Init, Promise!Init, Phase

\* An ended job ends its phase and takes no effect, the others keep theirs.
LEMMA EndRefined ==
    ASSUME TypeOK, TypeOK', UNCHANGED effect, NEW S \in SUBSET Jobs,
           \A j \in S : pc[j] # "over" /\ pc'[j] = "over",
           \A j \in Jobs \ S : pc'[j] = pc[j]
    PROVE  Promise!Next
<1>1. \A j \in S : Phases[j] \in {"new", "open"}
  BY PhaseFacts
<1>2. Phases' = [j \in Jobs |-> IF j \in S THEN "ended" ELSE Phases[j]]
  BY DEF Phases, Phase
<1>3. Promise!End(S)
  BY <1>1, <1>2 DEF Promise!End, Phases
<1> QED
  BY <1>3 DEF Promise!Next

\* Steps between two places of the same phase are not seen.
LEMMA StutterRefined ==
    ASSUME TypeOK, TypeOK', UNCHANGED effect, NEW j \in Jobs,
           \A i \in Jobs \ {j} : pc'[i] = pc[i], Phase(j)' = Phase(j)
    PROVE  UNCHANGED <<Phases, effect>>
BY DEF Phases, Phase

LEMMA StepRefined ==
    ASSUME IInv, IInv', [Next]_vars
    PROVE  Promise!Next \/ UNCHANGED <<Phases, effect>>
<1> USE DEF Goto, history
<1>t. TypeOK /\ TypeOK'
  BY DEF IInv
<1>f. pc \in [Jobs -> {"new", "counted", "stored", "queued", "over"} \cup Executing]
  BY <1>t DEF TypeOK
<1>1. ASSUME NEW j \in Jobs, NEW p \in Procs, Count(j, p)
      PROVE  UNCHANGED <<Phases, effect>>
  BY <1>1, <1>t, <1>f, StutterRefined DEF Count, Phase
<1>2. ASSUME NEW j \in Jobs, Insert(j)
      PROVE  Promise!Next
  <2>1. Phases[j] = "new" /\ Phases' = [Phases EXCEPT ![j] = "open"]
    BY <1>2, <1>f DEF Insert, Phases, Phase
  <2>2. Promise!Submit(j)
    BY <1>2, <2>1 DEF Promise!Submit, Phases, Insert
  <2> QED
    BY <2>2 DEF Promise!Next
<1>3. ASSUME NEW j \in Jobs, Enqueue(j)
      PROVE  UNCHANGED <<Phases, effect>>
  BY <1>3, <1>t, <1>f, StutterRefined DEF Enqueue, Phase
<1>4. ASSUME NEW j \in Jobs,
             EnqueueFails(j) \/ Strand(j) \/ Settle(j) \/ Rescue(j) \/ RescueFails(j)
      PROVE  Promise!Next
  <2>1. pc[j] # "over" /\ pc' = [pc EXCEPT ![j] = "over"] /\ UNCHANGED effect
    BY <1>4 DEF EnqueueFails, Strand, Settle, Rescue, RescueFails
  <2> QED
    BY <2>1, <1>t, <1>f, EndRefined, {j} \in SUBSET Jobs
<1>5. ASSUME NEW j \in Jobs, Take(j)
      PROVE  UNCHANGED <<Phases, effect>>
  BY <1>5, <1>t, <1>f, StutterRefined DEF Take, Phase
<1>6. ASSUME NEW j \in Jobs, Start(j)
      PROVE  UNCHANGED <<Phases, effect>>
  BY <1>6, <1>t, <1>f, StutterRefined DEF Start, Phase
<1>7. ASSUME NEW j \in Jobs, Work(j)
      PROVE  Promise!Next \/ UNCHANGED <<Phases, effect>>
  <2>1. pc[j] = "running" /\ pc' = [pc EXCEPT ![j] = "settling"] /\ ~effect[j]
    BY <1>7 DEF Work, IInv, NotYetEffective
  <2>2. UNCHANGED Phases
    BY <2>1, <1>f DEF Phases, Phase
  <2>3. effect \in [Jobs -> BOOLEAN]
    BY <1>t DEF TypeOK
  <2>4. effect' = [effect EXCEPT ![j] = TRUE] \/ effect' = [effect EXCEPT ![j] = FALSE]
    BY <1>7, Zenon DEF Work
  <2>5. CASE effect' = [effect EXCEPT ![j] = FALSE]
    <3>1. effect[j] = FALSE
      BY <2>1, <2>3
    <3>2. effect' = effect
      BY <2>5, <3>1, <2>3
    <3> QED
      BY <2>2, <3>2
  <2>6. CASE effect' = [effect EXCEPT ![j] = TRUE]
    <3>1. Phases[j] = "open"
      BY <2>1, <1>t, PhaseFacts DEF Alive, Executing
    <3>2. Promise!TakeEffect(j)
      BY <2>1, <2>2, <2>6, <3>1 DEF Promise!TakeEffect, Phases
    <3> QED
      BY <3>2 DEF Promise!Next
  <2> QED
    BY <2>4, <2>5, <2>6
<1>8. ASSUME NEW j \in Jobs, Fault(j)
      PROVE  Promise!Next \/ UNCHANGED <<Phases, effect>>
  <2>1. pc[j] \in {"started", "running", "settling"} /\ UNCHANGED effect
    BY <1>8 DEF Fault
  <2>2. CASE pc' = [pc EXCEPT ![j] = "rescue"]
    BY <2>1, <2>2, <1>t, <1>f, StutterRefined DEF Phase
  <2>3. CASE pc' = [pc EXCEPT ![j] = "over"]
    BY <2>1, <2>3, <1>t, <1>f, EndRefined, {j} \in SUBSET Jobs
  <2> QED
    BY <1>8, <2>2, <2>3 DEF Fault
<1>9. ASSUME NEW p \in Procs, Crash(p)
      PROVE  Promise!Next
  <2>1. {j \in Jobs : home[j] = p /\ (Alive(j) \/ pc[j] = "counted")} \in SUBSET Jobs
    OBVIOUS
  <2> QED
    BY <1>9, <2>1, <1>t, EndRefined DEF Crash, Alive, Executing
<1>10. ASSUME NEW p \in Procs, ReadOrphans(p) \/ WriteOrphans(p)
       PROVE  UNCHANGED <<Phases, effect>>
  BY <1>10 DEF ReadOrphans, WriteOrphans, Phases, Phase
<1>11. CASE UNCHANGED vars
  BY <1>11 DEF vars, Phases, Phase
<1> QED
  BY <1>1, <1>2, <1>3, <1>4, <1>5, <1>6, <1>7, <1>8, <1>9, <1>10, <1>11
     DEF Next, Execute

\* Crashes, recoveries, retries and the reuse of rows included, the job runner
\* behaves as OneShot: each submission opens once, takes effect at most once while
\* it is open, and stays ended.
THEOREM RunnerImplementsOneShot == Spec => OneShotRefined
<1>1. IInv /\ IInv' /\ [Next]_vars => Promise!Next \/ UNCHANGED <<Phases, effect>>
  BY StepRefined
<1> QED
  BY <1>1, InitRefined, JobInvariant, PTL DEF Spec, OneShotRefined, Promise!Spec, Phases
=============================================================================
