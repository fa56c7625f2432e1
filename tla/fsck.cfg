SPECIFICATION Spec
CONSTANTS
    w1 = w1
    w2 = w2
    o1 = o1
    None = none
    Applier = {w1, w2}
    Operator = {o1}
    Issue <- MCIssue
    Faulty = {w1}
    Lease = 1
    MaxAttempts = 1
    MaxTime = 2
CHECK_DEADLOCK FALSE
INVARIANTS
    RowTellsTruth
    PendingIsUntouched
PROPERTIES
    OutcomeIsFinal
