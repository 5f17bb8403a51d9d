\* Four callers against a breaker with two trial slots: a trial can succeed while
\* another fails, vanishes or reports late.  CallTimeout < OpenDuration, as the
\* configured budgets (6 and 8 s) are to the open window (30 s).
CONSTANTS
    FailureThreshold = 2
    SuccessThreshold = 2
    OpenDuration = 3
    HalfOpenMaxCalls = 2
    Calls = {c1, c2, c3, c4}
    CallTimeout = 2
    MayAbandon = TRUE
    FaultInjection = TRUE
SPECIFICATION FairSpec
INVARIANTS StatesAgree TrialsLimited
PROPERTIES NoSecondTrialInWindow KeepsPromise RecoversUnlessWedged
