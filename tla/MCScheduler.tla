---------------------------- MODULE MCScheduler ----------------------------
(* Small instances of Scheduler for TLC: processes, their threads and their  *)
(* connections are interchangeable, which the runs of invariants use.      *)
EXTENDS Scheduler, TLC

MCSymmetry ==
    Permutations(Procs) \cup Permutations(ThreadIds) \cup Permutations(ConnIds)
=============================================================================
