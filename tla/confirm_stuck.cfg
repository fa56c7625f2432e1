SPECIFICATION Spec
CONSTANTS
    d1 = d1
    d2 = d2
    d3 = d3
    w1 = w1
    w2 = w2
    None = None
    Delivery = {d1, d2, d3}
    Writer = {w1, w2}
    Crashing = {d1}
    Stalling = {d1}
    After <- MCAfter
    Route = {"trusted"}
CHECK_DEADLOCK FALSE
INVARIANTS
    ResumedPlanEnds
