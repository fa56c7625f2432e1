SPECIFICATION Spec
CONSTANTS
    None = None
    m = m
    t1 = t1
    s1 = s1
    x = x
    b1 = b1
    b2 = b2
    d = d
    Turn = {t1}
    Old = {m}
    Sweep = {s1}
    Manual = {x}
    Batch = {b1, b2}
    Deletion = {d}
    Erasing = {d}
    Unstable = {m}
    Faults = {"raises", "refuses", "blank"}
    Attempts = 2
    Worker <- MCWorker
    Scenarios <- MCScenarios
CHECK_DEADLOCK FALSE
INVARIANTS
    SourceHasOutput
    DerivedOnce
    NoTurnForgotten
