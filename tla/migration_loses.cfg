SPECIFICATION Spec
CONSTANTS
    i1 = i1
    i2 = i2
    Pod <- MCPod
    Known <- MCKnown
    Memories = 3
    Sessions = 2
    BatchSize = 2
    Userless <- MCUserless
    LinkOf <- MCLinkOf
    BackLink <- MCBackLink
    FailedOnes <- MCFailedOnes
    Deployments <- MCOverlapping
CHECK_DEADLOCK FALSE
INVARIANT NothingIsLost
