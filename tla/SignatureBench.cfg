SPECIFICATION BenchSpec
CONSTANTS
    MinSegment = 3
    Grain = 126000
    SensorNoise = 1
    Sigma = 3
    MinRuns = 3
    MinGoodRuns = 3
    SpecLo = 1000
    SpecHi = 1200
    RawCurves <- MCRawCurves
    GivenFeatures <- MCGivenFeatures
    CleanRuns <- MCCleanRuns
    Nudges <- MCNudges
INVARIANTS
    KneeFound
    GenericAgrees
    EvidenceOnlyAdds
    ClassesAreMeasured
    FarFromCleanIsScored
