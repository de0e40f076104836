SPECIFICATION Spec
CONSTANTS
    p1 = p1
    p2 = p2
    t1 = t1
    c1 = c1
    Procs = {p1, p2}
    ThreadIds = {t1}
    ConnIds = {c1}
    MaxRetries = 1
    MaxRechecks = 1
    MaxRestarts = 0
    MaxManual = 0
PROPERTIES
    NewNavIsHandled
CHECK_DEADLOCK FALSE
