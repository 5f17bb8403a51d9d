SPECIFICATION Spec
CONSTANTS
    m1 = m1
    m2 = m2
    fk = fk
    Endpoints <- MCEndpoints
    FakeEndpoints = {fk}
    ProviderOf <- MCProviderOf
    Chain <- MCChain
    Requests = {r1, r2}
    Asks <- MCImages
    CacheTTL = 1
    FailureThreshold = 2
    SuccessThreshold = 1
    OpenDuration = 1
    HalfOpenMaxCalls = 1
INVARIANTS AnswersItsOwnImage
