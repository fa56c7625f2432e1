SPECIFICATION AnnotationSpec
CONSTANTS
    u = u
    d = d
    g = g
    s1 = s1
    s2 = s2
    x0 = x0
    x1 = x1
    k1 = k1
    k2 = k2
    k3 = k3
    a0 = a0
    a1 = a1
    a2 = a2
    e1 = e1
    f1 = f1
    f2 = f2
    Root = root
    None = none
    Attempts = 1
    Crashing = {}
    Guarded = {}
    Faulty = {s1}
    Annotator <- MCAnnotator
    TaskOf <- MCTaskOf
    ArtifactOf <- MCArtifactOf
    RootOf <- MCRootOf
    Scenarios <- MCScenarios
    Call <- MCCall
    Token <- MCToken
    KeyHash <- MCToken
    Request <- MCRequest
    Artifact <- MCArtifact
    Evidence <- MCEvidence
    KindOf <- MCKindOf
    RequestOf <- MCRequestOf
    ExpectedOf <- MCExpectedOf
    TokenOf <- MCTokenOf
    TokenKey <- MCTokenKey
    TokenRequest <- MCTokenRequest
    After <- MCAfter
    RootArtifacts <- MCRootArtifacts
    RootEvidence <- MCRootEvidence
CHECK_DEADLOCK FALSE
INVARIANTS
    AckedChangeHolds
    ListedArtifactIsStored
    AckedRootIsCounted
    ClaimsAreReleased
