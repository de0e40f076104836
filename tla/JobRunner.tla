----------------------------- MODULE JobRunner -----------------------------
(***************************************************************************)
(* Background jobs: price synchronisations and recalculations of snapshots *)
(* (rows of sync_job) and manually started tasks (rows of                  *)
(* task_execution_log), executed by the thread pool of the worker process  *)
(* that took the request.                                                  *)
(*                                                                         *)
(* "One active job of a kind" is kept by counting active rows before one   *)
(* is inserted, in two statements without a lock.  A process that starts   *)
(* marks every active row as interrupted, its own or not.  An executor     *)
(* never looks at the status of its row again.                             *)
(***************************************************************************)
EXTENDS Integers, FiniteSets, Sequences

CONSTANTS
    Jobs,           \* submissions
    Kinds,          \* the kinds of jobs that are submitted
    Procs,          \* worker processes, 2 in the Dockerfile
    PoolSize,       \* threads of a process's pool: sync_worker_count, 2 in the code
    MaxRestarts,    \* bound on process restarts
    MaxFaults       \* bound on failing statements and refused submissions

AllKinds == {"price", "recalc", "task"}

ASSUME KindAssumption == Kinds \subseteq AllKinds
ASSUME ProcAssumption == Procs # {}
ASSUME BoundAssumption ==
    PoolSize \in Nat \ {0} /\ MaxRestarts \in Nat /\ MaxFaults \in Nat

VARIABLES
    kind,       \* what each submission asks for
    row,        \* the status of each job's row
    pc,         \* where the submission, then the execution of a job stands
    home,       \* the process that took the submission
    queue,      \* the work queue of each process's pool
    verdict,    \* the status an execution is about to write
    effect,     \* whether the transaction of the job was committed
    boot,       \* the recovery a starting process is at, 0 when it serves requests
    orphans,    \* the active rows that recovery has read
    restarts, faults,
    raced,      \* history: submissions that had counted when another was inserted
    disowned,   \* history: jobs interrupted while alive
    lost        \* history: jobs whose last write failed, or that were never enqueued

vars == <<kind, row, pc, home, queue, verdict, effect, boot, orphans, restarts, faults,
          raced, disowned, lost>>
history == <<raced, disowned, lost>>

Active == {"pending", "running"}
\* sync_job and task_execution_log name a run with failed items differently
Verdicts(k) == {"success", "failed"} \cup (CASE k = "price"  -> {"partial"}
                                             [] k = "recalc" -> {}
                                             [] k = "task"   -> {"partial_success"})
Statuses(k) == {"none", "interrupted"} \cup Active \cup Verdicts(k)

Executing == {"started", "running", "settling", "rescue"}
Alive(j) == pc[j] \in {"stored", "queued"} \cup Executing

OfKind(k) == {j \in Jobs : kind[j] = k}
ActiveRows(k) == {j \in OfKind(k) : row[j] \in Active}

Goto(j, step) == pc' = [pc EXCEPT ![j] = step]
Write(j, status) == row' = [row EXCEPT ![j] = status]

-----------------------------------------------------------------------------
(* Submission                                                              *)

\* Mutant: a job that still waits for a thread is not counted
CountRunning(j, p) ==
    /\ pc[j] = "new" /\ boot[p] = 0 /\ \A i \in OfKind(kind[j]) : row[i] # "running"
    /\ Goto(j, "counted") /\ home' = [home EXCEPT ![j] = p]
    /\ UNCHANGED <<kind, row, queue, verdict, effect, boot, orphans, restarts, faults, history>>

\* the count of active rows, ConflictError if there are any
Count(j, p) ==
    /\ pc[j] = "new" /\ boot[p] = 0 /\ ActiveRows(kind[j]) = {}
    /\ Goto(j, "counted") /\ home' = [home EXCEPT ![j] = p]
    /\ UNCHANGED <<kind, row, queue, verdict, effect, boot, orphans, restarts, faults, history>>

Insert(j) ==
    /\ pc[j] = "counted"
    /\ Write(j, "pending") /\ Goto(j, "stored")
    /\ raced' = raced \cup {i \in OfKind(kind[j]) \ {j} : pc[i] = "counted"}
    /\ UNCHANGED <<kind, home, queue, verdict, effect, boot, orphans, restarts, faults,
                   disowned, lost>>

Enqueue(j) ==
    /\ pc[j] = "stored"
    /\ Goto(j, "queued") /\ queue' = [queue EXCEPT ![home[j]] = Append(@, j)]
    /\ UNCHANGED <<kind, row, home, verdict, effect, boot, orphans, restarts, faults, history>>

\* Mutant: the row of a submission the pool refuses stays pending
LeavePending(j) ==
    /\ pc[j] = "stored" /\ faults < MaxFaults /\ faults' = faults + 1
    /\ Goto(j, "over")
    /\ UNCHANGED <<kind, row, home, queue, verdict, effect, boot, orphans, restarts, history>>

\* the pool refuses the submission
EnqueueFails(j) ==
    /\ pc[j] = "stored" /\ faults < MaxFaults /\ faults' = faults + 1
    /\ Write(j, "failed") /\ Goto(j, "over")
    /\ UNCHANGED <<kind, home, queue, verdict, effect, boot, orphans, restarts, history>>

\* reading the row back fails before the job is enqueued, or the pool refuses it and
\* that cannot be written either: a row stays that nobody executes
Strand(j) ==
    /\ pc[j] = "stored" /\ faults < MaxFaults /\ faults' = faults + 1
    /\ Goto(j, "over") /\ lost' = lost \cup {j}
    /\ UNCHANGED <<kind, row, home, queue, verdict, effect, boot, orphans, restarts, raced, disowned>>

-----------------------------------------------------------------------------
(* Execution                                                               *)

HasThread(p) ==
    Cardinality({i \in Jobs : home[i] = p /\ pc[i] \in Executing}) < PoolSize

\* Mutant: a job stays in the queue while it is executed
PeekQueue(j) ==
    LET p == home[j]
    IN  /\ pc[j] \in {"queued", "over"} /\ queue[p] # <<>> /\ Head(queue[p]) = j /\ HasThread(p)
        /\ Goto(j, "started")
        /\ UNCHANGED <<kind, row, home, queue, verdict, effect, boot, orphans, restarts, faults, history>>

\* a thread of the pool takes the job that waits longest
Take(j) ==
    LET p == home[j]
    IN  /\ pc[j] = "queued" /\ queue[p] # <<>> /\ Head(queue[p]) = j /\ HasThread(p)
        /\ Goto(j, "started") /\ queue' = [queue EXCEPT ![p] = Tail(@)]
        /\ UNCHANGED <<kind, row, home, verdict, effect, boot, orphans, restarts, faults, history>>

\* whatever its status is by now
Start(j) ==
    /\ pc[j] = "started" /\ Write(j, "running") /\ Goto(j, "running")
    /\ UNCHANGED <<kind, home, queue, verdict, effect, boot, orphans, restarts, faults, history>>

\* Mutant: a recalculation with failed days ends like the other jobs
WorkAlike(j) ==
    /\ pc[j] = "running" /\ Goto(j, "settling")
    /\ \E v \in {"success", "partial", "failed"} :
          /\ verdict' = [verdict EXCEPT ![j] = v]
          /\ effect' = [effect EXCEPT ![j] = kind[j] = "recalc" /\ v = "success"]
    /\ UNCHANGED <<kind, row, home, queue, boot, orphans, restarts, faults, history>>

\* A recalculation commits all its days or rolls them back; the others commit as
\* they go and count what failed.
Work(j) ==
    /\ pc[j] = "running" /\ Goto(j, "settling")
    /\ \E v \in Verdicts(kind[j]) :
          /\ verdict' = [verdict EXCEPT ![j] = v]
          /\ effect' = [effect EXCEPT ![j] = kind[j] = "recalc" /\ v = "success"]
    /\ UNCHANGED <<kind, row, home, queue, boot, orphans, restarts, faults, history>>

\* the verdict is a transaction of its own, after that of the work
Settle(j) ==
    /\ pc[j] = "settling" /\ Write(j, verdict[j]) /\ Goto(j, "over")
    /\ verdict' = [verdict EXCEPT ![j] = "none"]
    /\ UNCHANGED <<kind, home, queue, effect, boot, orphans, restarts, faults, history>>

\* a write of the executor fails: a recalculation rolls back and tries once more,
\* the others commit the broken session again, which fails and is swallowed
Fault(j) ==
    /\ pc[j] \in {"started", "running", "settling"}
    /\ faults < MaxFaults /\ faults' = faults + 1
    /\ verdict' = [verdict EXCEPT ![j] = "none"]
    /\ IF kind[j] = "recalc" THEN Goto(j, "rescue") /\ UNCHANGED lost
       ELSE Goto(j, "over") /\ lost' = lost \cup {j}
    /\ UNCHANGED <<kind, row, home, queue, effect, boot, orphans, restarts, raced, disowned>>

\* Mutant: the rescue writes the verdict it could not write
RescueVerdict(j) ==
    /\ pc[j] = "rescue" /\ Write(j, "success") /\ Goto(j, "over")
    /\ UNCHANGED <<kind, home, queue, verdict, effect, boot, orphans, restarts, faults, history>>

Rescue(j) ==
    /\ pc[j] = "rescue" /\ Write(j, "failed") /\ Goto(j, "over")
    /\ UNCHANGED <<kind, home, queue, verdict, effect, boot, orphans, restarts, faults, history>>

RescueFails(j) ==
    /\ pc[j] = "rescue" /\ faults < MaxFaults /\ faults' = faults + 1
    /\ Goto(j, "over") /\ lost' = lost \cup {j}
    /\ UNCHANGED <<kind, row, home, queue, verdict, effect, boot, orphans, restarts, raced, disowned>>

-----------------------------------------------------------------------------
(* Processes                                                               *)

\* what recover_orphan_jobs, recover_orphan_task_executions and init_scheduler
\* (which calls the first again) look for
Recoveries == <<{"price", "recalc"}, {"task"}, {"price", "recalc"}>>
Stages == 0..2 * Len(Recoveries)    \* 2k - 1: the kth one reads, 2k: it writes

\* what a process was doing ends, what it had not committed is gone
Crash(p) ==
    /\ restarts < MaxRestarts /\ restarts' = restarts + 1
    /\ boot' = [boot EXCEPT ![p] = 1] /\ queue' = [queue EXCEPT ![p] = <<>>]
    /\ pc' = [j \in Jobs |->
                IF home[j] = p /\ (Alive(j) \/ pc[j] = "counted") THEN "over" ELSE pc[j]]
    /\ verdict' = [j \in Jobs |-> IF home[j] = p THEN "none" ELSE verdict[j]]
    /\ UNCHANGED <<kind, row, home, effect, orphans, faults, history>>

ReadOrphans(p) ==
    /\ boot[p] \in Stages /\ boot[p] % 2 = 1
    /\ boot' = [boot EXCEPT ![p] = @ + 1]
    /\ orphans' = [orphans EXCEPT ![p] =
                     {j \in Jobs : /\ kind[j] \in Recoveries[(boot[p] + 1) \div 2]
                                   /\ row[j] \in Active}]
    /\ UNCHANGED <<kind, row, pc, home, queue, verdict, effect, restarts, faults, history>>

\* the rows as they were read, not as they are
WriteOrphans(p) ==
    /\ boot[p] # 0 /\ boot[p] % 2 = 0
    /\ boot' = [boot EXCEPT ![p] = IF @ = 2 * Len(Recoveries) THEN 0 ELSE @ + 1]
    /\ orphans' = [orphans EXCEPT ![p] = {}]
    /\ row' = [j \in Jobs |-> IF j \in orphans[p] THEN "interrupted" ELSE row[j]]
    /\ disowned' = disowned \cup {j \in orphans[p] : Alive(j)}
    /\ UNCHANGED <<kind, pc, home, queue, verdict, effect, restarts, faults, raced, lost>>

-----------------------------------------------------------------------------
Init ==
    /\ kind \in [Jobs -> Kinds]
    /\ row = [j \in Jobs |-> "none"] /\ pc = [j \in Jobs |-> "new"]
    /\ home = [j \in Jobs |-> CHOOSE p \in Procs : TRUE]   \* set by Count
    /\ queue = [p \in Procs |-> <<>>] /\ verdict = [j \in Jobs |-> "none"]
    /\ effect = [j \in Jobs |-> FALSE]
    /\ boot = [p \in Procs |-> 0] /\ orphans = [p \in Procs |-> {}]
    /\ restarts = 0 /\ faults = 0
    /\ raced = {} /\ disowned = {} /\ lost = {}

Execute(j) == Take(j) \/ Start(j) \/ Work(j) \/ Settle(j) \/ Rescue(j)

Next ==
    \/ \E j \in Jobs, p \in Procs : Count(j, p)
    \/ \E j \in Jobs : \/ Insert(j) \/ Enqueue(j) \/ EnqueueFails(j) \/ Strand(j)
                     \/ Fault(j) \/ RescueFails(j) \/ Execute(j)
    \/ \E p \in Procs : Crash(p) \/ ReadOrphans(p) \/ WriteOrphans(p)

\* A request and a thread of the pool run on, a job's work ends, and a process
\* that crashed is started again.
Fairness ==
    /\ \A j \in Jobs : WF_vars(Enqueue(j) \/ EnqueueFails(j) \/ Strand(j)) /\ WF_vars(Execute(j))
    /\ \A p \in Procs : WF_vars(ReadOrphans(p) \/ WriteOrphans(p))

Spec == Init /\ [][Next]_vars /\ Fairness

-----------------------------------------------------------------------------
(* Properties                                                              *)

\* Rows carry the statuses of their table, and a starting process recovers what
\* the tables hold.
TypeOK ==
    /\ kind \in [Jobs -> Kinds]
    /\ DOMAIN row = Jobs /\ \A j \in Jobs : row[j] \in Statuses(kind[j])
    /\ pc \in [Jobs -> {"new", "counted", "stored", "queued", "over"} \cup Executing]
    /\ home \in [Jobs -> Procs] /\ queue \in [Procs -> Seq(Jobs)]
    /\ DOMAIN verdict = Jobs /\ \A j \in Jobs : verdict[j] \in {"none"} \cup Verdicts(kind[j])
    /\ effect \in [Jobs -> BOOLEAN]
    /\ boot \in [Procs -> Stages] /\ orphans \in [Procs -> SUBSET Jobs]
    /\ restarts \in 0..MaxRestarts /\ faults \in 0..MaxFaults
    /\ raced \subseteq Jobs /\ disowned \subseteq Jobs /\ lost \subseteq Jobs

\* Two jobs of a kind are only ever in progress together because two submissions
\* counted before either inserted, or because the start of a process interrupted
\* one that was alive: no other order of counting, failing, recovering and
\* finishing lets a second one in.
OverlapExplained ==
    \A i, j \in Jobs :
        i # j /\ kind[i] = kind[j] /\ Alive(i) /\ Alive(j) => {i, j} \cap (raced \cup disowned) # {}

\* A recalculation that reports success was committed, whatever its executor, its
\* rescue and the recoveries of other processes wrote in which order.
SuccessIsTrue ==
    \A j \in OfKind("recalc") : row[j] = "success" => effect[j]

\* A row leaves the active statuses, in which it blocks the submissions of its kind,
\* through failures, crashes and recoveries, unless the write that ends it was itself
\* lost or its submission failed after the row was stored; the next start of a process
\* frees such a row too ("only a restart clears it", submit_task).
EveryJobEnds ==
    \A j \in Jobs :
        /\ row[j] \in Active ~> (row[j] \notin Active \/ j \in lost)
        /\ \A p \in Procs : row[j] \in Active /\ boot[p] = 1 ~> row[j] \notin Active

\* A submission is taken from its queue once and takes effect at most once, and
\* only before its execution ends: crashes, recoveries and the reuse of its row
\* never run it again.
Phase(j) == CASE pc[j] \in {"new", "counted"} -> "new"
              [] pc[j] = "over"               -> "ended"
              [] OTHER                        -> "open"
Promise == INSTANCE OneShot WITH phase <- [j \in Jobs |-> Phase(j)]
OneShotRefined == Promise!Spec
=============================================================================
