----------------------------- MODULE Scheduler -----------------------------
(***************************************************************************)
(* One business day of scheduler_service in a deployment of several worker *)
(* processes.  Every process runs its own scheduler over one shared job    *)
(* store; MySQL named locks (GET_LOCK, RELEASE_LOCK) are to let one        *)
(* process at a time run the price synchronisation ("nav") and the         *)
(* snapshot generation ("snap").                                           *)
(*                                                                         *)
(* A named lock belongs to a CONNECTION and is re-entrant on it, while a   *)
(* session gives its connection back to the pool at each commit and takes  *)
(* any idle one for its next statement.  So each action below is what a    *)
(* thread does between two commits, on one connection.                     *)
(*                                                                         *)
(* Time is left out: a job that is due fires at any later moment.          *)
(***************************************************************************)
EXTENDS Integers, FiniteSets

CONSTANTS
    Procs,          \* worker processes
    ThreadIds,      \* threads of a process's scheduler, 2 in the code
    ConnIds,        \* pooled connections of a process
    MaxRetries,     \* NAV_RETRY_MAX_ATTEMPTS, 3 in the code
    MaxRechecks,    \* SNAPSHOT_CASCADE_RECHECK_MAX_ATTEMPTS, 3 in the code
    MaxRestarts,    \* bound on process restarts
    MaxManual       \* bound on successful manual snapshot runs

ASSUME FiniteAssumption == IsFiniteSet(Procs) /\ IsFiniteSet(ThreadIds)

ASSUME BoundsAssumption ==
    /\ MaxRetries \in Nat /\ MaxRechecks \in Nat
    /\ MaxRestarts \in Nat /\ MaxManual \in Nat

Threads == Procs \X ThreadIds
Conns == Procs \X ConnIds
NoConn == <<>>
Proc(x) == x[1]     \* the process of a thread or of a connection

Locks == {"nav", "snap"}
Triggers == {"scheduled", "cascade", "manual"}

\* the two cron jobs and the date jobs, which are identified by their number
Job(kind, n) == <<kind, n>>
NavJobs == {Job("nav", 0)} \cup {Job("retry", n) : n \in 1..MaxRetries}
SnapJob == Job("snapshot", 0)
Rechecks == {Job("recheck", n) : n \in 1..MaxRechecks}
Jobs == NavJobs \cup Rechecks \cup {SnapJob}
NoJob == <<>>

VARIABLES
    due,        \* job store: the processes that may still fire a job
    tradingDay, \* whether the gate date of each lock is a trading day
    pc,         \* where each thread is in its trigger function
    task,       \* the job each thread executes
    conn,       \* the connection a thread's session has checked out
    owner,      \* the connection that holds each named lock
    depth,      \* how many times it holds it
    log,        \* task_execution_log: successful snapshot runs by trigger
    owed,       \* history: new prices landed, their cascade is not settled
    restarts,   \* history: process restarts so far
    severed     \* history: locks lost with a replaced connection by threads
                \* that were executing, until their section is empty again

vars == <<due, tradingDay, pc, task, conn, owner, depth, log, owed, restarts,
          severed>>

-----------------------------------------------------------------------------
(* Sessions and named locks                                                *)

Idle(t) == pc[t] = "idle"

\* the connections the session of t may use for its next statement
Usable(t) ==
    IF conn[t] # NoConn THEN {conn[t]}
    ELSE {c \in Conns : Proc(c) = Proc(t) /\ \A u \in Threads : conn[u] # c}

Granted(l, c) == owner[l] \in {NoConn, c}   \* GET_LOCK(l, 0) on c answers 1

Lock(l, c) ==
    /\ owner' = [owner EXCEPT ![l] = c]
    /\ depth' = [depth EXCEPT ![l] = @ + 1]

\* Mutant: one release gives up every level (RELEASE_ALL_LOCKS)
UnlockAll(l, c) ==
    IF owner[l] = c
    THEN /\ depth' = [depth EXCEPT ![l] = 0]
         /\ owner' = [owner EXCEPT ![l] = NoConn]
    ELSE UNCHANGED <<owner, depth>>

\* Mutant: giving up the last level does not free the lock
UnlockOneLevel(l, c) ==
    /\ depth' = [depth EXCEPT ![l] = IF owner[l] = c THEN @ - 1 ELSE @]
    /\ UNCHANGED owner

\* RELEASE_LOCK gives up one level on the connection that holds the lock and
\* does nothing on any other
Unlock(l, c) ==
    IF owner[l] = c
    THEN /\ depth' = [depth EXCEPT ![l] = @ - 1]
         /\ owner' = [owner EXCEPT ![l] = IF depth[l] = 1 THEN NoConn ELSE @]
    ELSE UNCHANGED <<owner, depth>>

LocksKept == UNCHANGED <<owner, depth>>

Goto(t, where, c) ==
    /\ pc' = [pc EXCEPT ![t] = where]
    /\ conn' = [conn EXCEPT ![t] = c]
    /\ UNCHANGED task

Finish(t) ==    \* the trigger function returns, its session is closed
    /\ pc' = [pc EXCEPT ![t] = "idle"]
    /\ conn' = [conn EXCEPT ![t] = NoConn]
    /\ task' = [task EXCEPT ![t] = NoJob]

\* _maybe_cascade_snapshot returns to its caller
LeaveCascade(t, c) ==
    IF task[t] \in NavJobs THEN Goto(t, "nav_release", c) ELSE Finish(t)

\* Mutant: only records of the cascade count
CascadedToday == log["cascade"] > 0

SucceededToday == \E k \in Triggers : log[k] > 0

-----------------------------------------------------------------------------
(* The job store                                                           *)

Attempt(j) == j[2]
Register(j) == due' = [due EXCEPT ![j] = Procs]     \* replace_existing

\* A process that has read the store before the first one updates it fires
\* the job as well.
Fire(t, j) ==
    /\ Idle(t) /\ Proc(t) \in due[j]
    /\ \A u \in Threads : Proc(u) = Proc(t) => task[u] # j   \* max_instances
    /\ \E rest \in SUBSET (due[j] \ {Proc(t)}) : due' = [due EXCEPT ![j] = rest]
    /\ task' = [task EXCEPT ![t] = j]
    /\ pc' = [pc EXCEPT ![t] = IF j \in NavJobs THEN "nav_gate"
                               ELSE IF j = SnapJob THEN "snap_gate"
                               ELSE "cascade"]
    /\ UNCHANGED <<tradingDay, conn, owner, depth, log, owed, restarts, severed>>

-----------------------------------------------------------------------------
(* Price synchronisation: first run and retries                            *)

\* a refused gate and a day off leave the locks as they were: the release in
\* the finally clause uses the connection of the GET_LOCK
NavGate(t) ==
    /\ pc[t] = "nav_gate"
    /\ \E c \in Usable(t) :
        IF Granted("nav", c) /\ tradingDay["nav"]
        THEN Lock("nav", c) /\ Goto(t, "nav_run", NoConn)
        ELSE LocksKept /\ Finish(t)
    /\ UNCHANGED <<due, tradingDay, log, owed, restarts>>

\* failed: run_task raised, and what it had synchronised is not counted
NavRun(t) ==
    /\ pc[t] = "nav_run"
    /\ \E status \in {"success", "partial_success", "failed"}, new \in BOOLEAN :
        /\ status = "failed" => ~new
        /\ LET n == Attempt(task[t]) + 1
           IN  IF status # "success" /\ n <= MaxRetries
               THEN Register(Job("retry", n)) ELSE UNCHANGED due
        /\ Goto(t, IF new THEN "cascade" ELSE "nav_release", NoConn)
        /\ owed' = (owed \/ new)
    /\ LocksKept /\ UNCHANGED <<tradingDay, log, restarts>>

NavRelease(t) ==
    /\ pc[t] = "nav_release"
    /\ \E c \in Usable(t) : Unlock("nav", c)
    /\ Finish(t)
    /\ UNCHANGED <<due, tradingDay, log, owed, restarts>>

-----------------------------------------------------------------------------
(* Snapshots cascaded from new prices                                      *)

CascadeCheck(t) ==
    /\ pc[t] = "cascade"
    /\ \E c \in Usable(t) :
        IF SucceededToday
        THEN LeaveCascade(t, c) /\ owed' = FALSE
        ELSE Goto(t, "cascade_lock", c) /\ UNCHANGED owed
    /\ LocksKept /\ UNCHANGED <<due, tradingDay, log, restarts>>

CascadeNumber(t) == IF task[t] \in Rechecks THEN Attempt(task[t]) ELSE 0

\* Mutant: a busy lock ends the cascade
CascadeDropped(t) == UNCHANGED <<due, owed>>

\* a busy lock registers a recheck, up to the bound, where the day is given up
CascadeBusy(t) ==
    LET n == CascadeNumber(t) + 1
    IN  IF n <= MaxRechecks THEN Register(Job("recheck", n)) /\ UNCHANGED owed
        ELSE owed' = FALSE /\ UNCHANGED due

CascadeLock(t) ==
    /\ pc[t] = "cascade_lock"
    /\ LET c == conn[t]
       IN  IF Granted("snap", c)
           THEN /\ Lock("snap", c) /\ Goto(t, "snap_run", NoConn)
                /\ owed' = FALSE /\ UNCHANGED due
           ELSE /\ CascadeBusy(t) /\ LeaveCascade(t, c) /\ LocksKept
    /\ UNCHANGED <<tradingDay, log, restarts>>

-----------------------------------------------------------------------------
(* Snapshot generation                                                     *)

SnapGate(t) ==
    /\ pc[t] = "snap_gate"
    /\ \E c \in Usable(t) :
        IF Granted("snap", c) /\ tradingDay["snap"]
        THEN Lock("snap", c) /\ Goto(t, "snap_check", c)
        ELSE LocksKept /\ Finish(t)
    /\ UNCHANGED <<due, tradingDay, log, owed, restarts>>

SnapCheck(t) ==
    /\ pc[t] = "snap_check"
    /\ IF SucceededToday
       THEN Unlock("snap", conn[t]) /\ Finish(t) /\ UNCHANGED owed
       ELSE LocksKept /\ Goto(t, "snap_run", NoConn) /\ owed' = FALSE
    /\ UNCHANGED <<due, tradingDay, log, restarts>>

TriggerOf(t) == IF task[t] = SnapJob THEN "scheduled" ELSE "cascade"

SnapRun(t) ==
    /\ pc[t] = "snap_run"
    /\ \/ log' = [log EXCEPT ![TriggerOf(t)] = @ + 1]
       \/ UNCHANGED log     \* partial_success or failed
    /\ Goto(t, "snap_release", NoConn)
    /\ LocksKept /\ UNCHANGED <<due, tradingDay, owed, restarts>>

SnapRelease(t) ==
    /\ pc[t] = "snap_release"
    /\ \E c \in Usable(t) : Unlock("snap", c) /\ LeaveCascade(t, c)
    /\ UNCHANGED <<due, tradingDay, log, owed, restarts>>

-----------------------------------------------------------------------------
(* The environment                                                         *)

\* POST /system/tasks/snapshot_generate/run takes no named lock
ManualSnapshot ==
    /\ log["manual"] < MaxManual
    /\ log' = [log EXCEPT !["manual"] = @ + 1]
    /\ UNCHANGED <<due, tradingDay, pc, task, conn, owner, depth, owed, restarts,
                   severed>>

Closed(cs) ==
    /\ owner' = [l \in Locks |-> IF owner[l] \in cs THEN NoConn ELSE owner[l]]
    /\ depth' = [l \in Locks |-> IF owner[l] \in cs THEN 0 ELSE depth[l]]

Sections == [nav |-> {"nav_run", "cascade", "cascade_lock", "snap_run",
                      "snap_release", "nav_release"},
             snap |-> {"snap_check", "snap_run", "snap_release"}]

\* threads that execute what lock l is to protect
Inside(l) ==
    {t \in Threads : pc[t] \in Sections[l]
                     /\ (l = "nav" => task[t] \in NavJobs)}

\* a lock that was lost counts as lost until nobody is in its section any more
Settle == severed' = {l \in severed : Inside(l)' # {}}

\* pool_recycle, pool_pre_ping: an old connection is replaced when it is taken
\* from the pool, and MySQL frees its locks, also under a running task
Recycle(c) ==
    /\ \A t \in Threads : conn[t] # c
    /\ \E l \in Locks : owner[l] = c
    /\ severed' = severed \cup {l \in Locks : owner[l] = c /\ Inside(l) # {}}
    /\ Closed({c})
    /\ UNCHANGED <<due, tradingDay, pc, task, conn, log, owed, restarts>>

\* the job store survives, what the process had read from it does not
Restart(p) ==
    /\ restarts < MaxRestarts
    /\ restarts' = restarts + 1
    /\ Closed({c \in Conns : Proc(c) = p})
    /\ pc' = [t \in Threads |-> IF Proc(t) = p THEN "idle" ELSE pc[t]]
    /\ conn' = [t \in Threads |-> IF Proc(t) = p THEN NoConn ELSE conn[t]]
    /\ task' = [t \in Threads |-> IF Proc(t) = p THEN NoJob ELSE task[t]]
    /\ due' = [j \in Jobs |-> IF due[j] = Procs THEN Procs ELSE due[j] \ {p}]
    /\ Settle
    /\ UNCHANGED <<tradingDay, log, owed>>

-----------------------------------------------------------------------------
Init ==
    /\ due = [j \in Jobs |-> IF j \in {Job("nav", 0), SnapJob} THEN Procs ELSE {}]
    /\ tradingDay \in [Locks -> BOOLEAN]
    /\ pc = [t \in Threads |-> "idle"]
    /\ task = [t \in Threads |-> NoJob]
    /\ conn = [t \in Threads |-> NoConn]
    /\ owner = [l \in Locks |-> NoConn]
    /\ depth = [l \in Locks |-> 0]
    /\ log = [k \in Triggers |-> 0]
    /\ owed = FALSE
    /\ restarts = 0
    /\ severed = {}

Step(t) ==
    /\ \/ NavGate(t) \/ NavRun(t) \/ NavRelease(t)
       \/ CascadeCheck(t) \/ CascadeLock(t)
       \/ SnapGate(t) \/ SnapCheck(t) \/ SnapRun(t) \/ SnapRelease(t)
    /\ Settle

Next ==
    \/ \E t \in Threads, j \in Jobs : Fire(t, j)
    \/ \E t \in Threads : Step(t)
    \/ ManualSnapshot
    \/ \E c \in Conns : Recycle(c)
    \/ \E p \in Procs : Restart(p)

\* A running thread goes on, and date jobs have no misfire limit: they are
\* fired by some process once a thread of its pool is free.
Fairness ==
    /\ \A t \in Threads : WF_vars(Step(t))
    /\ \A j \in Jobs \ {Job("nav", 0), SnapJob} :
           WF_vars(\E t \in Threads : Fire(t, j))

Spec == Init /\ [][Next]_vars /\ Fairness

-----------------------------------------------------------------------------
(* Properties                                                              *)

\* Every variable has its type; a lock is held as often as it was taken and
\* not released, which is zero times exactly when nobody holds it.
TypeOK ==
    /\ due \in [Jobs -> SUBSET Procs]
    /\ tradingDay \in [Locks -> BOOLEAN]
    /\ pc \in [Threads -> {"idle", "snap_gate", "nav_gate", "snap_check"}
                            \cup Sections["nav"]]
    /\ task \in [Threads -> Jobs \cup {NoJob}]
    /\ conn \in [Threads -> Conns \cup {NoConn}]
    /\ owner \in [Locks -> Conns \cup {NoConn}]
    /\ depth \in [Locks -> Nat]
    /\ log \in [Triggers -> Nat]
    /\ owed \in BOOLEAN /\ restarts \in Nat /\ severed \subseteq Locks
    /\ \A l \in Locks : owner[l] = NoConn <=> depth[l] = 0

\* Of several processes only the one that got the lock executes: no two
\* threads of different processes are in the section of a named lock, though
\* releases may miss the connection and the lock is re-entrant on it.  The
\* exception is a lock whose connection the pool replaced (pool_recycle,
\* pool_pre_ping) under a running section: the lock is free then, and nothing
\* keeps the processes apart until the section is empty again.
NamedLockExcludes ==
    \A l \in Locks \ severed : \A t, u \in Inside(l) : Proc(t) = Proc(u)

\* The scheduled generation produces a day's snapshots at most once, whichever
\* processes fire it, restarts included: the second one gets the lock only
\* after the first one's record is there to be seen.  A second success takes a
\* connection that was replaced while a generation ran.
ScheduledSnapshotOnce ==
    [][log["scheduled"] > 0 /\ log'["scheduled"] > log["scheduled"]
         => "snap" \in severed]_vars

\* New prices are not forgotten: unless a process restarts, their cascade
\* leads to a snapshot run, to a success record that makes it superfluous or
\* to the bound on rechecks, also when the lock is busy at first.
NewNavIsHandled == (owed /\ restarts = 0) ~> (~owed \/ restarts > 0)

\* What _should_run_today and the finally clauses say: the lock is taken in
\* one function and released by the other, so it is free when nobody is in
\* its section.  (Fails: the release may run on another connection.)
LockFreeWhenIdle ==
    \A l \in Locks : Inside(l) = {} => owner[l] = NoConn
=============================================================================
