SPECIFICATION FairSpec
CONSTANTS
    a = a
    b = b
    e1 = e1
    e2 = e2
    None = None
    Worker <- MCWorker
    Event <- MCEvent
    EventOf <- MCEventOf
    Crashing = {a}
    Changing = {e1}
    MaxRevision = 1
    Turn = {0, 1, 2}
CHECK_DEADLOCK FALSE
INVARIANTS
    NoDuplicateFact
    BoundPredecessorFirst
PROPERTIES
    SealedPlanRecovers
