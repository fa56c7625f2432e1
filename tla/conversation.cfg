SPECIFICATION Spec
CONSTANTS
    p1 = p1
    p2 = p2
    s1 = s1
    s2 = s2
    s3 = s3
    None = None
    Proc = {p1, p2}
    Session = {s1, s2, s3}
    Revision <- MCRevision
    Fact <- MCFact
    Call <- MCCall
    Turn <- MCCall
    IdleTTL = 1
    MaxFacts = 3
    Persistent = TRUE
    Unsaved = {p2}
    TopicOf <- MCTopicOf
    RoleOf <- MCRoleOf
    TTLOf <- MCTTLOf
    JobOf <- MCJobOf
    LineageOf <- MCLineageOf
    RootOf <- MCRootOf
    Prior <- MCPrior
    Opened <- MCOpened
    MaxLocks = 4
    CacheTTL = 1
    Scenarios <- MCScenarios
CHECK_DEADLOCK FALSE
INVARIANTS
    NoDuplicateFact
    NoTurnLost
    EditSurvives
    FreshCore
    StaleCoreEnds
    EchoSuppressed
    AcceptedIsStored
PROPERTIES
    EveryCallEnds
    LiveCopyKept
