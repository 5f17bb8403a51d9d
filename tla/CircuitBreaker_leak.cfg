\* The configured breaker: one trial slot (config/models.yaml).
CONSTANTS
    FailureThreshold = 2
    SuccessThreshold = 2
    OpenDuration = 2
    HalfOpenMaxCalls = 1
    Calls = {c1, c2}
    CallTimeout = 1
    MayAbandon = TRUE
    FaultInjection = FALSE
SPECIFICATION FairSpec
PROPERTIES Recovers
