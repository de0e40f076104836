---------------------------- MODULE MCJobRunner ----------------------------
(* Two submissions of any kinds, alike or not, on two workers.              *)
EXTENDS JobRunner

CONSTANTS j1, j2, a, b

MCJobs == {j1, j2}
MCProcs == {a, b}
=============================================================================
