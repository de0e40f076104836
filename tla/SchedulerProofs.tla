-------------------------- MODULE SchedulerProofs --------------------------
(* What Scheduler promises for any number of processes, threads and pooled   *)
(* connections: a named lock keeps processes apart even though releases may *)
(* miss the connection that holds it, and the scheduled generation succeeds *)
(* at most once a day, both unless the pool replaces that connection while  *)
(* a section runs.                                                         *)
EXTENDS Scheduler, FiniteSetTheorems, TLAPS

-----------------------------------------------------------------------------
(* The inductive invariant                                                 *)

\* What a thread is doing tells what kind of job it executes.
PcMatchesTask ==
    \A t \in Threads :
        /\ pc[t] \in {"nav_gate", "nav_run", "nav_release"} => task[t] \in NavJobs
        /\ pc[t] \in {"snap_gate", "snap_check"} => task[t] \notin NavJobs
        /\ pc[t] \in {"cascade", "cascade_lock"} => task[t] # SnapJob

\* A session uses connections of its own process, and keeps the one on which
\* it read the execution log until it has decided what to do.
OwnConnections ==
    \A t \in Threads :
        /\ conn[t] # NoConn => Proc(conn[t]) = Proc(t)
        /\ pc[t] \in {"cascade_lock", "snap_check"} => conn[t] # NoConn

\* The connection that holds a lock belongs to the process of every thread in
\* its section and holds it at least once for each of them: a release that
\* misses the connection leaves the lock held once too often, never too rarely.
HeldForAll(l) ==
    /\ \A t \in Inside(l) : Proc(owner[l]) = Proc(t)
    /\ Cardinality(Inside(l)) <= depth[l]

\* A process does not execute the same job in two threads.
OneInstance ==
    \A t, u \in Threads :
        Proc(t) = Proc(u) /\ task[t] = task[u] /\ task[t] # NoJob => t = u

\* A scheduled generation that runs has seen no record of another one, unless
\* its section has lost the lock.
NoneBefore ==
    "snap" \notin severed =>
        \A t \in Threads :
            pc[t] = "snap_run" /\ task[t] = SnapJob => log["scheduled"] = 0

\* What ScheduledSnapshotOnce says of one step.
OnceMore ==
    log["scheduled"] > 0 /\ log'["scheduled"] > log["scheduled"]
      => "snap" \in severed

IInv ==
    /\ TypeOK /\ PcMatchesTask /\ OwnConnections
    /\ \A l \in Locks \ severed : HeldForAll(l)
    /\ OneInstance /\ NoneBefore

-----------------------------------------------------------------------------
(* Connections and jobs                                                    *)

\* The empty tuple stands for no connection and for no job, and the snapshot
\* job does not synchronise prices.
LEMMA NothingIsNoPair ==
    /\ NoConn \notin Conns
    /\ NoJob \notin Jobs
    /\ SnapJob \notin NavJobs
<1>1. \A a, b : <<a, b>> # << >>
  OBVIOUS
<1> QED
  BY <1>1 DEF NoConn, NoJob, Conns, Jobs, NavJobs, Rechecks, SnapJob, Job

\* There are finitely many threads, so sections can be counted.
LEMMA InsideFinite ==
    ASSUME NEW l
    PROVE  IsFiniteSet(Inside(l)) /\ Inside(l) \subseteq Threads
<1>1. IsFiniteSet(Threads)
  BY FS_Product, FiniteAssumption DEF Threads
<1>2. Inside(l) \subseteq Threads
  BY DEF Inside
<1> QED
  BY <1>1, <1>2, FS_Subset

\* A connection a session may use is one of its process.
LEMMA UsableIsOwn ==
    ASSUME TypeOK, OwnConnections, NEW t \in Threads, NEW c \in Usable(t)
    PROVE  c \in Conns /\ Proc(c) = Proc(t)
BY DEF TypeOK, OwnConnections, Usable

-----------------------------------------------------------------------------
(* Named locks: how a step may change a section and its lock                *)

\* A lock that nobody touches keeps covering a section that nobody enters.
LEMMA Kept ==
    ASSUME TypeOK, NEW l \in Locks, HeldForAll(l),
           Inside(l)' \subseteq Inside(l),
           owner'[l] = owner[l], depth'[l] = depth[l]
    PROVE  HeldForAll(l)'
<1>1. Cardinality(Inside(l)') <= Cardinality(Inside(l))
  BY InsideFinite, FS_Subset
<1>2. Cardinality(Inside(l)) \in Nat /\ Cardinality(Inside(l)') \in Nat
  BY InsideFinite, FS_Subset, FS_CardinalityType
<1>3. depth[l] \in Nat
  BY DEF TypeOK
<1>4. Cardinality(Inside(l)') <= depth'[l]
  BY <1>1, <1>2, <1>3 DEF HeldForAll
<1>5. \A t \in Inside(l)' : Proc(owner'[l]) = Proc(t)
  BY DEF HeldForAll
<1> QED
  BY <1>4, <1>5 DEF HeldForAll

\* Nobody in the section needs no lock.
LEMMA EmptyIsCovered ==
    ASSUME TypeOK', NEW l \in Locks, Inside(l)' = {}
    PROVE  HeldForAll(l)'
<1>1. Cardinality(Inside(l)') = 0
  BY FS_EmptySet
<1>2. depth'[l] \in Nat
  BY DEF TypeOK
<1> QED
  BY <1>1, <1>2 DEF HeldForAll

\* A thread that was granted the lock on a connection of its process may enter.
LEMMA Entered ==
    ASSUME TypeOK, NEW l \in Locks, HeldForAll(l),
           NEW t, NEW c \in Conns, Proc(c) = Proc(t),
           Granted(l, c), Lock(l, c),
           Inside(l)' \subseteq Inside(l) \cup {t}
    PROVE  HeldForAll(l)'
<1>1. IsFiniteSet(Inside(l)) /\ Cardinality(Inside(l)) \in Nat
  BY InsideFinite, FS_CardinalityType
<1>2. /\ IsFiniteSet(Inside(l) \cup {t})
      /\ Cardinality(Inside(l) \cup {t}) <= Cardinality(Inside(l)) + 1
  BY <1>1, FS_AddElement
<1>3. /\ Cardinality(Inside(l)') <= Cardinality(Inside(l) \cup {t})
      /\ Cardinality(Inside(l)') \in Nat /\ Cardinality(Inside(l) \cup {t}) \in Nat
  BY <1>2, FS_Subset, FS_CardinalityType
<1>4. depth[l] \in Nat /\ depth'[l] = depth[l] + 1 /\ owner'[l] = c
  BY DEF TypeOK, Lock
<1>5. Cardinality(Inside(l)') <= depth'[l]
  BY <1>1, <1>2, <1>3, <1>4 DEF HeldForAll
<1>6. \A u \in Inside(l) : Proc(u) = Proc(c)
  <2>1. CASE owner[l] = c
    BY <2>1 DEF HeldForAll
  <2>2. CASE owner[l] = NoConn
    <3>1. Cardinality(Inside(l)) = 0
      BY <1>1, <2>2 DEF HeldForAll, TypeOK
    <3> QED
      BY <1>1, <3>1, FS_EmptySet
  <2> QED
    BY <2>1, <2>2 DEF Granted
<1>7. \A u \in Inside(l)' : Proc(owner'[l]) = Proc(u)
  BY <1>4, <1>6
<1> QED
  BY <1>5, <1>7 DEF HeldForAll

\* A thread of the section may leave it, wherever its release arrives.
LEMMA Left ==
    ASSUME TypeOK, NEW l \in Locks, HeldForAll(l),
           NEW t \in Inside(l), NEW c \in Conns, Unlock(l, c),
           Inside(l)' \subseteq Inside(l) \ {t}
    PROVE  HeldForAll(l)'
<1>1. IsFiniteSet(Inside(l)) /\ Cardinality(Inside(l)) \in Nat
  BY InsideFinite, FS_CardinalityType
<1>2. /\ IsFiniteSet(Inside(l) \ {t})
      /\ Cardinality(Inside(l) \ {t}) = Cardinality(Inside(l)) - 1
  BY <1>1, FS_RemoveElement
<1>3. /\ Cardinality(Inside(l)') <= Cardinality(Inside(l) \ {t})
      /\ IsFiniteSet(Inside(l)') /\ Cardinality(Inside(l)') \in Nat
  BY <1>2, FS_Subset, FS_CardinalityType
<1>4. depth[l] \in Nat /\ Cardinality(Inside(l)) <= depth[l]
  BY DEF TypeOK, HeldForAll
<1>5. /\ Cardinality(Inside(l)') <= depth'[l]
      /\ owner'[l] # owner[l] => depth[l] = 1
  BY <1>1, <1>2, <1>3, <1>4 DEF TypeOK, Unlock
<1>6. \A u \in Inside(l)' : Proc(owner'[l]) = Proc(u)
  <2>1. CASE owner'[l] = owner[l]
    BY <2>1 DEF HeldForAll
  <2>2. CASE owner'[l] # owner[l]
    <3>1. Cardinality(Inside(l)') = 0
      BY <1>1, <1>2, <1>3, <1>4, <1>5, <2>2
    <3> QED
      BY <1>3, <3>1, FS_EmptySet
  <2> QED
    BY <2>1, <2>2
<1> QED
  BY <1>5, <1>6 DEF HeldForAll

-----------------------------------------------------------------------------
(* Type correctness                                                        *)

\* What the types say of connections, locks and what threads do.
ThreadsTyped ==
    /\ pc \in [Threads -> {"idle", "snap_gate", "nav_gate", "snap_check"}
                            \cup Sections["nav"]]
    /\ task \in [Threads -> Jobs \cup {NoJob}]
    /\ conn \in [Threads -> Conns \cup {NoConn}]

LocksTyped ==
    /\ owner \in [Locks -> Conns \cup {NoConn}]
    /\ depth \in [Locks -> Nat]
    /\ \A l \in Locks : owner[l] = NoConn <=> depth[l] = 0

\* Taking a lock keeps its owner and its depth in step.
LEMMA LockTyped ==
    ASSUME LocksTyped, NEW l \in Locks, NEW c \in Conns, Lock(l, c)
    PROVE  LocksTyped'
BY NothingIsNoPair DEF LocksTyped, Lock

\* So does a release, on whichever connection.
LEMMA UnlockTyped ==
    ASSUME LocksTyped, NEW l \in Locks, NEW c \in Conns, Unlock(l, c)
    PROVE  LocksTyped'
BY NothingIsNoPair DEF LocksTyped, Unlock

\* So does closing connections.
LEMMA ClosedTyped ==
    ASSUME LocksTyped, NEW cs, Closed(cs)
    PROVE  LocksTyped'
BY NothingIsNoPair DEF LocksTyped, Closed

\* Where a thread goes, on a connection of the pool or on none.
LEMMA GotoTyped ==
    ASSUME ThreadsTyped, NEW t \in Threads, NEW c \in Conns \cup {NoConn},
           NEW where \in {"idle", "snap_gate", "nav_gate", "snap_check"}
                            \cup Sections["nav"],
           Goto(t, where, c)
    PROVE  ThreadsTyped'
BY DEF ThreadsTyped, Goto

\* The end of a trigger function.
LEMMA FinishTyped ==
    ASSUME ThreadsTyped, NEW t \in Threads, Finish(t)
    PROVE  ThreadsTyped'
BY DEF ThreadsTyped, Finish

\* The end of a cascade.
LEMMA LeaveTyped ==
    ASSUME ThreadsTyped, NEW t \in Threads, NEW c \in Conns, LeaveCascade(t, c)
    PROVE  ThreadsTyped'
BY GotoTyped, FinishTyped DEF LeaveCascade, Sections

\* Every step of a thread keeps the types.
LEMMA StepTyped ==
    ASSUME TypeOK, OwnConnections, NEW t \in Threads, Step(t)
    PROVE  TypeOK'
<1> USE DEF Sections
<1>0. ThreadsTyped /\ LocksTyped
  BY DEF TypeOK, ThreadsTyped, LocksTyped
<1>1. /\ due \in [Jobs -> SUBSET Procs] /\ tradingDay \in [Locks -> BOOLEAN]
      /\ log \in [Triggers -> Nat] /\ owed \in BOOLEAN /\ restarts \in Nat
  BY DEF TypeOK
<1>2. due' \in [Jobs -> SUBSET Procs]
  <2>1. UNCHANGED due \/ \E j : Register(j)
    BY DEF Step, NavGate, NavRun, NavRelease, CascadeCheck, CascadeLock,
           SnapGate, SnapCheck, SnapRun, SnapRelease, CascadeBusy
  <2> QED
    BY <1>1, <2>1 DEF Register
<1>3. log' \in [Triggers -> Nat]
  <2>1. UNCHANGED log \/ SnapRun(t)
    BY DEF Step, NavGate, NavRun, NavRelease, CascadeCheck, CascadeLock,
           SnapGate, SnapCheck, SnapRelease
  <2> QED
    BY <1>1, <2>1 DEF SnapRun
<1>4. owed' \in BOOLEAN
  <2>1. UNCHANGED owed \/ owed' = FALSE \/ \E new \in BOOLEAN : owed' = (owed \/ new)
    BY DEF Step, NavGate, NavRun, NavRelease, CascadeCheck, CascadeLock,
           SnapGate, SnapCheck, SnapRun, SnapRelease, CascadeBusy
  <2> QED
    BY <1>1, <2>1
<1>5. UNCHANGED <<tradingDay, restarts>> /\ severed' \subseteq Locks
  BY DEF Step, NavGate, NavRun, NavRelease, CascadeCheck, CascadeLock,
         SnapGate, SnapCheck, SnapRun, SnapRelease, Settle, TypeOK
<1>6. \A c \in Usable(t) : c \in Conns
  BY UsableIsOwn
<1>7. "nav" \in Locks /\ "snap" \in Locks
  BY DEF Locks
<1>8. pc[t] \in {"cascade_lock", "snap_check"} => conn[t] \in Conns
  BY DEF TypeOK, OwnConnections
<1>9. ThreadsTyped' /\ LocksTyped'
  <2>0. LocksKept => LocksTyped'
    BY <1>0 DEF LocksKept, LocksTyped
  <2>1. CASE NavGate(t)
    BY <1>0, <1>6, <1>7, <2>0, <2>1, LockTyped, GotoTyped, FinishTyped DEF NavGate
  <2>2. CASE NavRun(t)
    BY <1>0, <2>0, <2>2, GotoTyped DEF NavRun
  <2>3. CASE NavRelease(t)
    BY <1>0, <1>6, <1>7, <2>3, UnlockTyped, FinishTyped DEF NavRelease
  <2>4. CASE CascadeCheck(t)
    BY <1>0, <1>6, <2>0, <2>4, GotoTyped, LeaveTyped DEF CascadeCheck
  <2>5. CASE CascadeLock(t)
    BY <1>0, <1>7, <1>8, <2>0, <2>5, LockTyped, GotoTyped, LeaveTyped DEF CascadeLock
  <2>6. CASE SnapGate(t)
    BY <1>0, <1>6, <1>7, <2>0, <2>6, LockTyped, GotoTyped, FinishTyped DEF SnapGate
  <2>7. CASE SnapCheck(t)
    BY <1>0, <1>7, <1>8, <2>0, <2>7, UnlockTyped, GotoTyped, FinishTyped DEF SnapCheck
  <2>8. CASE SnapRun(t)
    BY <1>0, <2>0, <2>8, GotoTyped DEF SnapRun
  <2>9. CASE SnapRelease(t)
    BY <1>0, <1>6, <1>7, <2>9, UnlockTyped, LeaveTyped DEF SnapRelease
  <2> QED
    BY <2>1, <2>2, <2>3, <2>4, <2>5, <2>6, <2>7, <2>8, <2>9 DEF Step
<1> QED
  BY <1>1, <1>2, <1>3, <1>4, <1>5, <1>9 DEF TypeOK, ThreadsTyped, LocksTyped

-----------------------------------------------------------------------------
(* Steps of a thread                                                       *)

\* A step moves one thread and gives it no other job.
Moved(t) ==
    /\ \A u \in Threads \ {t} :
        pc'[u] = pc[u] /\ task'[u] = task[u] /\ conn'[u] = conn[u]
    /\ task'[t] = task[t] \/ (task'[t] = NoJob /\ pc'[t] = "idle")

\* Every step of a thread is of that form.
LEMMA StepMoves ==
    ASSUME TypeOK, NEW t \in Threads, Step(t)
    PROVE  Moved(t)
<1>1. ThreadsTyped
  BY DEF TypeOK, ThreadsTyped
<1>2. \A w, c : Goto(t, w, c) => Moved(t)
  BY <1>1 DEF ThreadsTyped, Goto, Moved
<1>3. Finish(t) => Moved(t)
  BY <1>1 DEF ThreadsTyped, Finish, Moved
<1>4. \A c : LeaveCascade(t, c) => Moved(t)
  BY <1>2, <1>3 DEF LeaveCascade
<1> QED
  BY <1>2, <1>3, <1>4
     DEF Step, NavGate, NavRun, NavRelease, CascadeCheck, CascadeLock,
         SnapGate, SnapCheck, SnapRun, SnapRelease

\* Where each step of a thread leads from where, as far as sections and jobs
\* are concerned.
LEMMA StepTargets ==
    ASSUME TypeOK, OwnConnections, NEW t \in Threads, Step(t)
    PROVE  /\ pc'[t] \notin {"nav_gate", "snap_gate"}
           /\ pc'[t] = "nav_run" => pc[t] = "nav_gate" /\ task'[t] = task[t]
           /\ pc'[t] = "snap_check" => pc[t] = "snap_gate" /\ task'[t] = task[t]
           /\ pc'[t] = "nav_release" => task'[t] \in NavJobs \/ pc[t] = "nav_run"
           /\ pc'[t] \in {"cascade", "cascade_lock"} =>
                pc[t] \in {"nav_run", "cascade"} /\ task'[t] = task[t]
           /\ pc'[t] # "idle" => task'[t] = task[t]
           /\ conn'[t] # NoConn => Proc(conn'[t]) = Proc(t)
           /\ pc'[t] \in {"cascade_lock", "snap_check"} => conn'[t] # NoConn
<1>1. ThreadsTyped
  BY DEF TypeOK, ThreadsTyped
<1>2. \A c \in Usable(t) : c \in Conns /\ Proc(c) = Proc(t) /\ c # NoConn
  BY UsableIsOwn, NothingIsNoPair
<1>3. pc[t] \in {"cascade_lock", "snap_check"} =>
        Proc(conn[t]) = Proc(t) /\ conn[t] # NoConn
  BY DEF OwnConnections
<1>4. \A w, c : Goto(t, w, c) => pc'[t] = w /\ conn'[t] = c /\ task'[t] = task[t]
  BY <1>1 DEF ThreadsTyped, Goto
<1>5. Finish(t) => pc'[t] = "idle" /\ conn'[t] = NoConn
  BY <1>1 DEF ThreadsTyped, Finish
<1>6. \A c : LeaveCascade(t, c) =>
        \/ pc'[t] = "nav_release" /\ conn'[t] = c /\ task'[t] = task[t]
             /\ task[t] \in NavJobs
        \/ pc'[t] = "idle" /\ conn'[t] = NoConn
  BY <1>4, <1>5 DEF LeaveCascade
<1>7. CASE NavGate(t) \/ NavRun(t) \/ NavRelease(t)
  BY <1>2, <1>4, <1>5, <1>7 DEF NavGate, NavRun, NavRelease
<1>8. CASE CascadeCheck(t) \/ CascadeLock(t)
  BY <1>2, <1>3, <1>4, <1>6, <1>8 DEF CascadeCheck, CascadeLock
<1>9. CASE SnapGate(t) \/ SnapCheck(t) \/ SnapRun(t) \/ SnapRelease(t)
  BY <1>2, <1>4, <1>5, <1>6, <1>9 DEF SnapGate, SnapCheck, SnapRun, SnapRelease
<1> QED
  BY <1>7, <1>8, <1>9 DEF Step

\* Steps keep what threads do in line with their jobs and connections.
LEMMA StepKeepsThreads ==
    ASSUME TypeOK, PcMatchesTask, OwnConnections, OneInstance,
           NEW t \in Threads, Step(t)
    PROVE  PcMatchesTask' /\ OwnConnections' /\ OneInstance'
<1>1. Moved(t)
  BY StepMoves
<1>2. PcMatchesTask'
  BY <1>1, StepTargets, NothingIsNoPair DEF PcMatchesTask, Moved
<1>3. OwnConnections'
  BY <1>1, StepTargets DEF OwnConnections, Moved
<1>4. OneInstance'
  BY <1>1 DEF OneInstance, Moved
<1> QED
  BY <1>2, <1>3, <1>4

\* A section gains no other thread than the one that moves.
LEMMA InsideMoved ==
    ASSUME NEW t \in Threads, Moved(t), NEW l \in Locks
    PROVE  /\ Inside(l)' \subseteq Inside(l) \cup {t}
           /\ t \in Inside(l) \/ t \notin Inside(l)' => Inside(l)' \subseteq Inside(l)
           /\ t \notin Inside(l)' => Inside(l)' \subseteq Inside(l) \ {t}
BY DEF Inside, Moved

\* Membership of the moving thread, before and after.
LEMMA InsideOf ==
    ASSUME NEW t \in Threads
    PROVE  /\ t \in Inside("nav") <=> pc[t] \in Sections["nav"] /\ task[t] \in NavJobs
           /\ t \in Inside("snap") <=> pc[t] \in Sections["snap"]
           /\ t \in Inside("nav")' <=> pc'[t] \in Sections["nav"] /\ task'[t] \in NavJobs
           /\ t \in Inside("snap")' <=> pc'[t] \in Sections["snap"]
BY DEF Inside

\* A step that leaves a lock alone does not bring a thread into its section.
LEMMA KeptByMove ==
    ASSUME TypeOK, NEW l \in Locks, HeldForAll(l), NEW t \in Threads, Moved(t),
           t \in Inside(l) \/ t \notin Inside(l)',
           owner'[l] = owner[l], depth'[l] = depth[l]
    PROVE  HeldForAll(l)'
BY InsideMoved, Kept

\* A step of a thread leaves a lock held for all threads in its section: the
\* conjunct the exclusion rests on.
LEMMA StepKeepsLocks ==
    ASSUME TypeOK, PcMatchesTask, OwnConnections, NEW t \in Threads, Step(t)
    PROVE  \A l \in Locks : HeldForAll(l) => HeldForAll(l)'
<1>1. Moved(t)
  BY StepMoves
<1>2. Locks = {"nav", "snap"}
  BY DEF Locks
<1>3. \A c \in Usable(t) : c \in Conns /\ Proc(c) = Proc(t)
  BY UsableIsOwn
<1>4. pc[t] \in {"cascade_lock", "snap_check"} =>
        conn[t] \in Conns /\ Proc(conn[t]) = Proc(t)
  BY DEF TypeOK, OwnConnections
<1>5. \A w, c : Goto(t, w, c) => pc'[t] = w /\ task'[t] = task[t]
  BY DEF Goto, TypeOK
<1>6. /\ Finish(t) => pc'[t] = "idle"
      /\ \A c : LeaveCascade(t, c) =>
           \/ pc'[t] = "nav_release" /\ task'[t] = task[t]
           \/ pc'[t] = "idle"
  BY <1>5 DEF Finish, LeaveCascade, TypeOK
<1>7. ASSUME NEW l \in Locks, NEW m \in Locks, l # m, NEW c,
             Lock(l, c) \/ Unlock(l, c)
      PROVE  owner'[m] = owner[m] /\ depth'[m] = depth[m]
  BY <1>7 DEF Lock, Unlock, TypeOK
<1>8. LocksKept => \A l \in Locks : owner'[l] = owner[l] /\ depth'[l] = depth[l]
  BY DEF LocksKept
<1>9. /\ Sections["nav"] = {"nav_run", "cascade", "cascade_lock", "snap_run",
                            "snap_release", "nav_release"}
      /\ Sections["snap"] = {"snap_check", "snap_run", "snap_release"}
  BY DEF Sections
<1>10. pc[t] \in {"nav_run", "nav_release"} => task[t] \in NavJobs
  BY DEF PcMatchesTask
<1>11. pc[t] = "snap_check" => task[t] \notin NavJobs
  BY DEF PcMatchesTask
<1> DEFINE Keeps(l) == HeldForAll(l) => HeldForAll(l)'
           Stays(l) == t \in Inside(l) \/ t \notin Inside(l)'
           In(l, c) == Granted(l, c) /\ Lock(l, c)
           Out(l, c) == t \in Inside(l) /\ t \notin Inside(l)' /\ Unlock(l, c)
<1>12. ASSUME NEW l \in Locks, Stays(l),
             LocksKept \/ \E m \in Locks \ {l} : \E c : Lock(m, c) \/ Unlock(m, c)
       PROVE  Keeps(l)
  BY <1>1, <1>7, <1>8, <1>12, KeptByMove
<1>13. ASSUME NEW l \in Locks, NEW c \in Conns, Proc(c) = Proc(t), In(l, c)
       PROVE  Keeps(l)
  BY <1>1, <1>13, InsideMoved, Entered
<1>14. ASSUME NEW l \in Locks, NEW c \in Conns, Out(l, c)
       PROVE  Keeps(l)
  BY <1>1, <1>14, InsideMoved, Left
<1>15. ASSUME Stays("nav"), Stays("snap"), LocksKept
       PROVE  Keeps("nav") /\ Keeps("snap")
  BY <1>2, <1>12, <1>15
<1>16. ASSUME NEW c \in Conns, Proc(c) = Proc(t), Stays("snap"),
              In("nav", c) \/ Out("nav", c)
       PROVE  Keeps("nav") /\ Keeps("snap")
  BY <1>2, <1>12, <1>13, <1>14, <1>16
<1>17. ASSUME NEW c \in Conns, Proc(c) = Proc(t), Stays("nav"),
              In("snap", c) \/ Out("snap", c)
       PROVE  Keeps("nav") /\ Keeps("snap")
  BY <1>2, <1>12, <1>13, <1>14, <1>17
<1>18. Keeps("nav") /\ Keeps("snap")
  <2> USE InsideOf, <1>5, <1>6, <1>9
  <2> HIDE DEF Keeps, Stays, In, Out
  <2>1. CASE NavGate(t)
    <3>1. PICK c \in Usable(t) :
            IF Granted("nav", c) /\ tradingDay["nav"]
            THEN Lock("nav", c) /\ Goto(t, "nav_run", NoConn)
            ELSE LocksKept /\ Finish(t)
      BY <2>1 DEF NavGate
    <3> QED
      BY <1>3, <1>15, <1>16, <3>1 DEF Stays, In
  <2>2. CASE NavRun(t)
    <3>1. LocksKept /\ pc'[t] \in Sections["nav"] /\ task'[t] = task[t]
          /\ pc'[t] \notin Sections["snap"] /\ pc[t] = "nav_run"
      BY <2>2 DEF NavRun
    <3> QED
      BY <1>10, <1>15, <3>1 DEF Stays
  <2>3. CASE NavRelease(t)
    <3>1. PICK c \in Usable(t) : Unlock("nav", c)
      BY <2>3 DEF NavRelease
    <3>2. pc'[t] = "idle" /\ pc[t] = "nav_release"
      BY <2>3 DEF NavRelease
    <3> QED
      BY <1>3, <1>10, <1>16, <3>1, <3>2 DEF Stays, Out
  <2>4. CASE CascadeCheck(t)
    <3>1. /\ LocksKept /\ pc[t] = "cascade"
          /\ \/ pc'[t] \in {"nav_release", "cascade_lock"} /\ task'[t] = task[t]
             \/ pc'[t] = "idle"
      BY <2>4 DEF CascadeCheck
    <3> QED
      BY <1>15, <3>1 DEF Stays
  <2>5. CASE CascadeLock(t)
    <3>1. CASE Granted("snap", conn[t])
      <4>1. Lock("snap", conn[t]) /\ pc[t] = "cascade_lock" /\ pc'[t] = "snap_run"
            /\ task'[t] = task[t]
        BY <2>5, <3>1 DEF CascadeLock
      <4> QED
        BY <1>4, <1>17, <3>1, <4>1 DEF Stays, In
    <3>2. CASE ~Granted("snap", conn[t])
      <4>1. /\ LocksKept /\ pc[t] = "cascade_lock"
            /\ \/ pc'[t] = "nav_release" /\ task'[t] = task[t]
               \/ pc'[t] = "idle"
        BY <2>5, <3>2 DEF CascadeLock
      <4> QED
        BY <1>15, <4>1 DEF Stays
    <3> QED
      BY <3>1, <3>2
  <2>6. CASE SnapGate(t)
    <3>1. PICK c \in Usable(t) :
            IF Granted("snap", c) /\ tradingDay["snap"]
            THEN Lock("snap", c) /\ Goto(t, "snap_check", c)
            ELSE LocksKept /\ Finish(t)
      BY <2>6 DEF SnapGate
    <3> QED
      BY <1>3, <1>15, <1>17, <3>1 DEF Stays, In
  <2>7. CASE SnapCheck(t)
    <3>1. CASE SucceededToday
      <4>1. Unlock("snap", conn[t]) /\ pc[t] = "snap_check" /\ pc'[t] = "idle"
        BY <2>7, <3>1 DEF SnapCheck
      <4> QED
        BY <1>4, <1>17, <4>1 DEF Stays, Out
    <3>2. CASE ~SucceededToday
      <4>1. LocksKept /\ pc[t] = "snap_check" /\ pc'[t] = "snap_run"
            /\ task'[t] = task[t]
        BY <2>7, <3>2 DEF SnapCheck
      <4> QED
        BY <1>11, <1>15, <4>1 DEF Stays
    <3> QED
      BY <3>1, <3>2
  <2>8. CASE SnapRun(t)
    <3>1. LocksKept /\ pc[t] = "snap_run" /\ pc'[t] = "snap_release"
          /\ task'[t] = task[t]
      BY <2>8 DEF SnapRun
    <3> QED
      BY <1>15, <3>1 DEF Stays
  <2>9. CASE SnapRelease(t)
    <3>1. PICK c \in Usable(t) : Unlock("snap", c) /\ LeaveCascade(t, c)
      BY <2>9 DEF SnapRelease
    <3>2. pc[t] = "snap_release"
      BY <2>9 DEF SnapRelease
    <3> QED
      BY <1>3, <1>17, <3>1, <3>2 DEF Stays, Out
  <2> QED
    BY <2>1, <2>2, <2>3, <2>4, <2>5, <2>6, <2>7, <2>8, <2>9 DEF Step
<1> QED
  BY <1>2, <1>18

-----------------------------------------------------------------------------
(* Records of the scheduled generation                                     *)

\* A scheduled generation starts after a look at the log under the lock, and
\* while it runs nobody else adds a record of its kind.
LEMMA StepKeepsRecords ==
    ASSUME TypeOK, PcMatchesTask, OwnConnections, OneInstance, NoneBefore,
           NamedLockExcludes, NEW t \in Threads, Step(t)
    PROVE  NoneBefore' /\ OnceMore
<1>0. Settle /\ severed' \subseteq severed
  BY DEF Step, Settle
<1>a. CASE "snap" \in severed
  <2>1. ASSUME "snap" \notin severed', NEW u \in Threads
        PROVE  pc'[u] # "snap_run"
    <3>1. Inside("snap")' = {}
      BY <1>0, <1>a, <2>1 DEF Settle, Locks
    <3> QED
      BY <3>1 DEF Inside, Sections
  <2> QED
    BY <1>a, <2>1 DEF NoneBefore, OnceMore
<1>b. CASE "snap" \notin severed
  <2>1. Moved(t)
    BY StepMoves
  <2>2. SnapJob \in Jobs /\ SnapJob # NoJob
    BY NothingIsNoPair DEF Jobs
  <2>3. ASSUME NEW u \in Threads, pc[u] = "snap_run", task[u] = SnapJob,
               pc[t] = "snap_run", task[t] = SnapJob
        PROVE  u = t
    <3>1. u \in Inside("snap") /\ t \in Inside("snap")
      BY <2>3 DEF Inside, Sections
    <3> QED
      BY <1>b, <2>2, <2>3, <3>1 DEF NamedLockExcludes, OneInstance, Locks
  <2>4. CASE SnapRun(t)
    <3>1. pc[t] = "snap_run" /\ pc'[t] = "snap_release"
      BY <2>4 DEF SnapRun, Goto, TypeOK
    <3>2. CASE task[t] = SnapJob /\ log' = [log EXCEPT !["scheduled"] = @ + 1]
      <4>1. log["scheduled"] = 0 /\ log'["scheduled"] = 1
        BY <1>b, <3>1, <3>2 DEF NoneBefore, TypeOK, Triggers
      <4>2. \A u \in Threads : ~(pc'[u] = "snap_run" /\ task'[u] = SnapJob)
        BY <2>1, <2>3, <3>1, <3>2 DEF Moved
      <4> QED
        BY <4>1, <4>2 DEF NoneBefore, OnceMore
    <3>3. CASE log'["scheduled"] = log["scheduled"]
      BY <1>0, <1>b, <2>1, <3>1, <3>3
         DEF NoneBefore, OnceMore, Moved, TypeOK, Triggers
    <3> QED
      BY <2>4, <3>2, <3>3 DEF SnapRun, TriggerOf, TypeOK, Triggers
  <2>5. CASE ~SnapRun(t)
    <3>1. UNCHANGED log
      BY <2>5 DEF Step, NavGate, NavRun, NavRelease, CascadeCheck, CascadeLock,
                  SnapGate, SnapCheck, SnapRelease
    <3>2. ASSUME pc'[t] = "snap_run", task'[t] = SnapJob
          PROVE  log["scheduled"] = 0
      <4>1. (SnapCheck(t) /\ ~SucceededToday) \/ CascadeLock(t)
        <5>1. \A w, c : Goto(t, w, c) => pc'[t] = w
          BY DEF Goto, TypeOK
        <5>2. Finish(t) => pc'[t] = "idle"
          BY DEF Finish, TypeOK
        <5>3. \A c : LeaveCascade(t, c) => pc'[t] # "snap_run"
          BY <5>1, <5>2 DEF LeaveCascade
        <5> QED
          BY <2>5, <3>2, <5>1, <5>2, <5>3
             DEF Step, NavGate, NavRun, NavRelease, CascadeCheck, SnapGate,
                 SnapCheck, SnapRelease
      <4>2. SnapCheck(t) /\ ~SucceededToday => log["scheduled"] = 0
        BY DEF SucceededToday, TypeOK, Triggers
      <4>3. ~CascadeLock(t)
        BY <2>1, <2>2, <3>2 DEF CascadeLock, PcMatchesTask, Moved
      <4> QED
        BY <4>1, <4>2, <4>3
    <3>3. NoneBefore'
      BY <1>0, <1>b, <2>1, <3>1, <3>2 DEF NoneBefore, Moved
    <3> QED
      BY <3>1, <3>3 DEF OnceMore, TypeOK, Triggers
  <2> QED
    BY <2>4, <2>5
<1> QED
  BY <1>a, <1>b

-----------------------------------------------------------------------------
(* Firing jobs and the environment                                         *)

\* Firing a job puts an idle thread before its gate, outside both sections.
LEMMA FireKeeps ==
    ASSUME IInv, NEW t \in Threads, NEW j \in Jobs, Fire(t, j)
    PROVE  IInv'
<1> USE DEF IInv
<1>1. /\ \A u \in Threads \ {t} : pc'[u] = pc[u] /\ task'[u] = task[u]
      /\ task'[t] = j /\ pc[t] = "idle" /\ conn' = conn
      /\ pc'[t] \in {"nav_gate", "snap_gate", "cascade"}
      /\ pc'[t] = "nav_gate" <=> j \in NavJobs
      /\ pc'[t] = "cascade" => j # SnapJob
  BY DEF Fire, Idle, TypeOK
<1>2. TypeOK'
  <2>1. due' \in [Jobs -> SUBSET Procs]
    BY DEF Fire, TypeOK
  <2>2. pc' \in [Threads -> {"idle", "snap_gate", "nav_gate", "snap_check"}
                            \cup Sections["nav"]]
    BY DEF Fire, TypeOK, Sections
  <2>3. task' \in [Threads -> Jobs \cup {NoJob}]
    BY DEF Fire, TypeOK
  <2> QED
    BY <2>1, <2>2, <2>3 DEF Fire, TypeOK
<1>3. PcMatchesTask'
  BY <1>1 DEF PcMatchesTask
<1>4. OwnConnections'
  BY <1>1 DEF OwnConnections
<1>5. severed' = severed /\ \A l \in Locks \ severed : HeldForAll(l)'
  <2>1. ASSUME NEW l \in Locks
        PROVE  Inside(l)' \subseteq Inside(l) /\ owner'[l] = owner[l] /\ depth'[l] = depth[l]
    BY <1>1 DEF Inside, Fire, Locks, Sections
  <2> QED
    BY <2>1, Kept DEF Fire
<1>6. OneInstance'
  BY <1>1 DEF OneInstance, Fire
<1>7. NoneBefore'
  BY <1>1 DEF NoneBefore, Fire
<1> QED
  BY <1>2, <1>3, <1>4, <1>5, <1>6, <1>7

\* A manual run adds a record of its own kind.
LEMMA ManualKeeps ==
    ASSUME IInv, ManualSnapshot
    PROVE  IInv'
<1> USE DEF IInv
<1>1. log' \in [Triggers -> Nat] /\ log'["scheduled"] = log["scheduled"]
  BY DEF ManualSnapshot, TypeOK, Triggers
<1>2. UNCHANGED <<due, tradingDay, pc, task, conn, owner, depth, owed, restarts,
                 severed>>
  BY DEF ManualSnapshot
<1>3. TypeOK'
  BY <1>1, <1>2 DEF TypeOK
<1>4. PcMatchesTask' /\ OwnConnections' /\ OneInstance'
  BY <1>2 DEF PcMatchesTask, OwnConnections, OneInstance
<1>5. \A l \in Locks \ severed' : HeldForAll(l)'
  BY <1>2 DEF HeldForAll, Inside
<1>6. NoneBefore'
  BY <1>1, <1>2 DEF NoneBefore
<1> QED
  BY <1>3, <1>4, <1>5, <1>6

\* A connection that is replaced takes its locks from sections that are counted
\* as severed, or from nobody.
LEMMA RecycleKeeps ==
    ASSUME IInv, NEW c \in Conns, Recycle(c)
    PROVE  IInv'
<1> USE DEF IInv
<1>1. UNCHANGED <<due, tradingDay, pc, task, conn, log, owed, restarts>> /\ Closed({c})
  BY DEF Recycle
<1>2. TypeOK'
  <2>1. LocksTyped'
    BY <1>1, ClosedTyped DEF TypeOK, LocksTyped
  <2>2. severed' \subseteq Locks /\ severed \subseteq severed'
    BY DEF Recycle, TypeOK
  <2> QED
    BY <1>1, <2>1, <2>2 DEF TypeOK, LocksTyped
<1>3. PcMatchesTask' /\ OwnConnections' /\ OneInstance'
  BY <1>1 DEF PcMatchesTask, OwnConnections, OneInstance
<1>4. \A l \in Locks \ severed' : HeldForAll(l)'
  <2> SUFFICES ASSUME NEW l \in Locks, l \notin severed' PROVE HeldForAll(l)'
    OBVIOUS
  <2>1. Inside(l)' = Inside(l) /\ HeldForAll(l) /\ (owner[l] = c => Inside(l) = {})
    BY <1>1 DEF Inside, Recycle
  <2>2. CASE owner[l] = c
    <3>1. Inside(l)' = {} /\ depth'[l] = 0
      BY <1>1, <2>1, <2>2 DEF Recycle, Closed
    <3>2. Cardinality(Inside(l)') = 0
      BY <3>1, FS_EmptySet
    <3> QED
      BY <3>1, <3>2 DEF HeldForAll
  <2>3. CASE owner[l] # c
    BY <1>1, <2>1, <2>3, Kept DEF Closed
  <2> QED
    BY <2>2, <2>3
<1>5. NoneBefore'
  BY <1>1 DEF NoneBefore, Recycle
<1> QED
  BY <1>2, <1>3, <1>4, <1>5

\* A restart frees the locks of the process together with its threads.
LEMMA RestartKeeps ==
    ASSUME IInv, NEW p \in Procs, Restart(p)
    PROVE  IInv'
<1> USE DEF IInv
<1> DEFINE Gone == {c \in Conns : Proc(c) = p}
<1>1. Closed(Gone) /\ UNCHANGED <<tradingDay, log, owed>>
  BY DEF Restart
<1>2. \A t \in Threads : IF Proc(t) = p
                         THEN pc'[t] = "idle" /\ conn'[t] = NoConn /\ task'[t] = NoJob
                         ELSE pc'[t] = pc[t] /\ conn'[t] = conn[t] /\ task'[t] = task[t]
  BY DEF Restart
<1>3. TypeOK'
  <2>1. LocksTyped'
    BY <1>1, ClosedTyped DEF TypeOK, LocksTyped
  <2>2. ThreadsTyped'
    BY DEF Restart, TypeOK, ThreadsTyped
  <2>3. due' \in [Jobs -> SUBSET Procs] /\ restarts' \in Nat
    BY DEF Restart, TypeOK
  <2>4. severed' \subseteq Locks
    BY DEF Restart, Settle, TypeOK
  <2> QED
    BY <1>1, <2>1, <2>2, <2>3, <2>4 DEF TypeOK, LocksTyped, ThreadsTyped
<1>4. PcMatchesTask'
  BY <1>2 DEF PcMatchesTask
<1>5. OwnConnections'
  BY <1>2 DEF OwnConnections
<1>6. OneInstance'
  BY <1>2 DEF OneInstance
<1>7. NoneBefore'
  <2>1. CASE "snap" \in severed
    <3>1. "snap" \notin severed' => Inside("snap")' = {}
      BY <2>1 DEF Restart, Settle, Locks
    <3> QED
      BY <3>1 DEF NoneBefore, Inside, Sections
  <2>2. CASE "snap" \notin severed
    BY <1>1, <1>2, <2>2 DEF NoneBefore
  <2> QED
    BY <2>1, <2>2
<1>8. \A l \in Locks \ severed' : HeldForAll(l)'
  <2> SUFFICES ASSUME NEW l \in Locks, l \notin severed' PROVE HeldForAll(l)'
    OBVIOUS
  <2>a. CASE l \in severed
    <3>1. Inside(l)' = {}
      BY <2>a DEF Restart, Settle
    <3> QED
      BY <3>1, <1>3, EmptyIsCovered
  <2>b. CASE l \notin severed
    <3>1. /\ Inside(l)' \subseteq Inside(l)
          /\ \A t \in Inside(l)' : Proc(t) # p
      BY <1>2 DEF Inside, Sections, Locks
    <3>2. CASE owner[l] \in Gone
      <4>1. Inside(l)' = {} /\ depth'[l] = 0
        BY <1>1, <2>b, <3>1, <3>2 DEF Closed, HeldForAll
      <4>2. Cardinality(Inside(l)') = 0
        BY <4>1, FS_EmptySet
      <4> QED
        BY <4>1, <4>2 DEF HeldForAll
    <3>3. CASE owner[l] \notin Gone
      BY <1>1, <2>b, <3>1, <3>3, Kept DEF Closed
    <3> QED
      BY <3>2, <3>3
  <2> QED
    BY <2>a, <2>b
<1> QED
  BY <1>3, <1>4, <1>5, <1>6, <1>7, <1>8

-----------------------------------------------------------------------------
(* Theorems                                                                *)

\* Sections that are covered by their locks belong to one process each.
LEMMA CoveredExcludes ==
    ASSUME \A l \in Locks \ severed : HeldForAll(l)
    PROVE  NamedLockExcludes
BY DEF HeldForAll, NamedLockExcludes

\* At the start of the day nothing runs and nothing is locked.
LEMMA InitHolds == Init => IInv
<1> SUFFICES ASSUME Init PROVE IInv
  OBVIOUS
<1>1. TypeOK
  BY NothingIsNoPair DEF Init, TypeOK, Jobs, Locks, Triggers
<1>2. PcMatchesTask /\ OwnConnections /\ OneInstance
  BY DEF Init, PcMatchesTask, OwnConnections, OneInstance
<1>3. NoneBefore
  BY DEF Init, NoneBefore, Triggers
<1>4. \A l \in Locks : HeldForAll(l)
  <2>1. \A l \in Locks : Inside(l) = {} /\ depth[l] = 0
    BY DEF Init, Inside, Sections, Locks
  <2> QED
    BY <2>1, FS_EmptySet DEF HeldForAll
<1> QED
  BY <1>1, <1>2, <1>3, <1>4 DEF IInv

\* Every step keeps the invariant, and a second record of the scheduled
\* generation comes from a section that has lost its lock.
LEMMA NextKeeps ==
    ASSUME IInv, [Next]_vars
    PROVE  IInv' /\ OnceMore
<1>0. log' = log => OnceMore
  BY DEF OnceMore, IInv, TypeOK, Triggers
<1>1. CASE \E t \in Threads, j \in Jobs : Fire(t, j)
  BY <1>0, <1>1, FireKeeps DEF Fire
<1>2. ASSUME NEW t \in Threads, Step(t)
      PROVE  IInv' /\ OnceMore
  <2>1. TypeOK /\ PcMatchesTask /\ OwnConnections /\ OneInstance /\ NoneBefore
        /\ \A l \in Locks \ severed : HeldForAll(l)
    BY DEF IInv
  <2>2. TypeOK' /\ PcMatchesTask' /\ OwnConnections' /\ OneInstance'
    BY <1>2, <2>1, StepTyped, StepKeepsThreads
  <2>3. NoneBefore' /\ OnceMore
    BY <1>2, <2>1, StepKeepsRecords, CoveredExcludes
  <2>4. ASSUME NEW l \in Locks, l \notin severed'
        PROVE  HeldForAll(l)'
    <3>1. l \notin severed \/ Inside(l)' = {}
      BY <1>2, <2>4 DEF Step, Settle
    <3> QED
      BY <1>2, <2>1, <2>2, <3>1, StepKeepsLocks, EmptyIsCovered
  <2> QED
    BY <2>2, <2>3, <2>4 DEF IInv
<1>3. CASE ManualSnapshot
  <2>1. log'["scheduled"] = log["scheduled"] /\ log["scheduled"] \in Nat
    BY <1>3 DEF ManualSnapshot, IInv, TypeOK, Triggers
  <2> QED
    BY <1>3, <2>1, ManualKeeps DEF OnceMore
<1>4. CASE \E c \in Conns : Recycle(c)
  BY <1>0, <1>4, RecycleKeeps DEF Recycle
<1>5. CASE \E p \in Procs : Restart(p)
  BY <1>0, <1>5, RestartKeeps DEF Restart
<1>6. CASE UNCHANGED vars
  BY <1>0, <1>6 DEF vars, IInv, TypeOK, PcMatchesTask, OwnConnections, HeldForAll,
              Inside, OneInstance, NoneBefore
<1> QED
  BY <1>1, <1>2, <1>3, <1>4, <1>5, <1>6 DEF Next

\* The invariant holds throughout the day, connections replaced under running
\* tasks included.
THEOREM SchedulerInvariant == Spec => []IInv
<1>1. IInv /\ [Next]_vars => IInv'
  BY NextKeeps
<1> QED
  BY <1>1, InitHolds, PTL DEF Spec

\* Every variable keeps its type, and the depth of a lock is zero exactly when
\* no connection holds it.
THEOREM SchedulerTypeCorrect == Spec => []TypeOK
<1>1. IInv => TypeOK
  BY DEF IInv
<1> QED
  BY <1>1, SchedulerInvariant, PTL

\* Named locks keep the processes apart, for any number of processes, threads
\* and pooled connections, misdirected releases and re-entrant locks included,
\* except while a section runs on whose lock was lost with its connection.
THEOREM LocksExcludeProcesses == Spec => []NamedLockExcludes
<1>1. IInv => NamedLockExcludes
  BY CoveredExcludes DEF IInv
<1> QED
  BY <1>1, SchedulerInvariant, PTL

\* The scheduled generation succeeds at most once a day over all processes and
\* restarts, unless the lock was lost with its connection while one ran.
THEOREM ScheduledAtMostOnce == Spec => ScheduledSnapshotOnce
<1>1. IInv /\ [Next]_vars => [OnceMore]_vars
  BY NextKeeps
<1> QED
  BY <1>1, SchedulerInvariant, PTL DEF Spec, ScheduledSnapshotOnce, OnceMore

=============================================================================
