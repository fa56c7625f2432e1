SPECIFICATION FairScenarioSpec
CONSTANTS
    t1 = t1
    t2 = t2
    u1 = u1
    u2 = u2
    d1 = d1
    s1 = s1
    g0 = g0
    g1 = g1
    a = a
    b = b
    request = request
    key_a = key_a
    key_b = key_b
    e1 = e1
    Root = root
    None = none
    Rivals = {u1, u2}
    Retracters = {d1}
    Sourcers = {s1}
    Readers = {g0, g1}
    Late = {g1}
    Scenarios = {{u1, u2, g0}, {u1, d1, g0}, {u1, u2, d1, g1}, {t1, t2, s1, g0}}
    OwnKey = FALSE
    Expected = 0
    Crashing = {u1, t1}
    Guarded = {u2}
    Call <- MCCall
    Token <- MCToken
    KeyHash <- MCKeyHash
    Request <- MCRequest
    Artifact <- MCNoArtifacts
    Evidence <- MCRootEvidence
    KindOf <- MCKindOf
    RequestOf <- MCRequestOf
    ExpectedOf <- MCExpectedOf
    TokenOf <- MCTokenOf
    TokenKey <- MCTokenKey
    TokenRequest <- MCTokenRequest
    After <- MCAfter
    RootArtifacts <- MCNoArtifacts
    RootEvidence <- MCRootEvidence
CHECK_DEADLOCK FALSE
INVARIANTS
    LinearHistory
    SingleHead
    RecoveryNeverStuck
    AckedUpdateIsPublished
    AckedUpdateIsOwn
    ReadSeesAckedUpdate
    ReadHonoursRetract
    RetryAppliesOnce
PROPERTIES
    ImplementsMemory
    HeadClaimsComplete
