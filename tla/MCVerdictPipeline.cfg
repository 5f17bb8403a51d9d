SPECIFICATION Spec
CONSTANTS
    FullScore = 100
    AnomalyThreshold = 45
    Supervisor = 5000000
    OneUnit = 100
    Positions = {1, 2}
    Scores = {0, 44, 45, 60, 100}
    Markets <- MCMarkets
    Customs = {"none", "fail"}
INVARIANTS PassesOnlyOnEvidence NeverAcceptsAlone AloneAtItsOwnPrice AgreesWithUseCase WorseIsNeverMilder
