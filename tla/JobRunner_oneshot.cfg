SPECIFICATION Spec
CONSTANTS
    j1 = j1  j2 = j2  a = a  b = b
    Jobs <- MCJobs
    Procs <- MCProcs
    Kinds = {"price", "recalc", "task"}
    PoolSize = 1
    MaxRestarts = 1
    MaxFaults = 2
CHECK_DEADLOCK FALSE
INVARIANTS TypeOK OverlapExplained SuccessIsTrue
PROPERTIES EveryJobEnds OneShotRefined
