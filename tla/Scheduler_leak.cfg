SPECIFICATION Spec
CONSTANTS
    p1 = p1
    p2 = p2
    t1 = t1
    c1 = c1
    c2 = c2
    Procs = {p1, p2}
    ThreadIds = {t1}
    ConnIds = {c1, c2}
    MaxRetries = 1
    MaxRechecks = 1
    MaxRestarts = 0
    MaxManual = 0
INVARIANTS
    LockFreeWhenIdle
CHECK_DEADLOCK FALSE
