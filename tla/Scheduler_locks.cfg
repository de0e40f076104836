SPECIFICATION Spec
CONSTANTS
    p1 = p1
    p2 = p2
    t1 = t1
    t2 = t2
    c1 = c1
    c2 = c2
    Procs = {p1, p2}
    ThreadIds = {t1, t2}
    ConnIds = {c1, c2}
    MaxRetries = 0
    MaxRechecks = 0
    MaxRestarts = 1
    MaxManual = 1
SYMMETRY MCSymmetry
INVARIANTS
    TypeOK
    NamedLockExcludes
PROPERTIES
    ScheduledSnapshotOnce
CHECK_DEADLOCK FALSE
