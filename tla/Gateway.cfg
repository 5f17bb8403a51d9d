SPECIFICATION GateFairSpec
CONSTANTS
    Subjects = {ravi, priya}
    Admins = {priya}
    Limits = {1, 2}
    Window = 3
    Second = 2
    PruneEvery = 2
    ProbeTTL = 1
INVARIANTS RetryAfterKept ProbesAreBounded
PROPERTIES AdmitsWithinLimit DenialDeserved PageIsHonest ComesBack
