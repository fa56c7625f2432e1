SPECIFICATION ScenarioSpec
CONSTANTS
    t1 = t1
    t2 = t2
    u1 = u1
    a = a
    b = b
    request = request
    key_a = key_a
    key_b = key_b
    e1 = e1
    Root = root
    None = none
    Rivals = {u1}
    Retracters = {}
    Sourcers = {}
    Readers = {}
    Late = {}
    Scenarios = {{t1, t2, u1}}
    OwnKey = TRUE
    Expected = 0
    Crashing = {}
    Guarded = {}
    Call <- MCCall
    Token <- MCToken
    KeyHash <- MCKeyHash
    Request <- MCRequest
    Artifact <- MCNoArtifacts
    Evidence <- MCRootEvidence
    KindOf <- MCKindOf
    RequestOf <- MCRequestOf
    ExpectedOf <- MCExpectedOf
    TokenOf <- MCTokenOf
    TokenKey <- MCTokenKey
    TokenRequest <- MCTokenRequest
    After <- MCAfter
    RootArtifacts <- MCNoArtifacts
    RootEvidence <- MCRootEvidence
CHECK_DEADLOCK FALSE
INVARIANT AckedUpdateIsPublished
