SPECIFICATION FairSpec
CONSTANTS
    m1 = m1
    m2 = m2
    fk = fk
    Endpoints <- MCEndpoints
    FakeEndpoints = {fk}
    ProviderOf <- MCProviderOf
    Chain <- MCChain
    Requests = {r1, r2}
    Asks <- MCAsks
    CacheTTL = 0
    FailureThreshold = 2
    SuccessThreshold = 1
    OpenDuration = 1
    HalfOpenMaxCalls = 1
INVARIANTS NothingPassesAsNominal EndpointsAnswerForThemselves GivesUpOnlyWhenExhausted RepliesOwnUp
PROPERTIES EveryRequestEnds
