--------------------------- MODULE TorqueSignature ---------------------------
(***************************************************************************)
(* The torque-angle signature of one fastener run                          *)
(* (src/src/forge/domain/torque.py): the curve's own validation, the two-  *)
(* segment fit and the features, the baseline learned from clean runs, the *)
(* noisy-OR score of the deviations and the ranked classes.                *)
(*                                                                         *)
(* A feature is in hundredths of its unit, rounded down; a weight is in    *)
(* hundredths, a strength and a confidence in thousandths, a score in      *)
(* ten-thousandths.  One hundredth stands for the 1e-6 that keeps a        *)
(* tolerance from being zero.  Sentences are left out, and so are the      *)
(* features that nothing scores (r2, the run-down slope, the knee torque,  *)
(* the span and the peak).                                                 *)
(***************************************************************************)
EXTENDS LeastSquares, FiniteSets

CONSTANTS
    SensorNoise,    \* the 0.05 Nm of the noise floor, in the samples' units
    MinRuns,        \* min_runs
    SpecLo, SpecHi  \* the specification's endpoint limits, in hundredths

ASSUME TorqueAssumption ==
    /\ SensorNoise \in Nat
    /\ MinRuns \in Nat \ {0, 1}
    /\ SpecLo \in Int /\ SpecHi \in Int

\* __post_init__(): enough samples, all finite, angles that never go back.
CurveIsValid(c) ==
    /\ Len(c.xs) >= 2 * MinSegment
    /\ c.finite
    /\ \A i \in 2 .. Len(c.xs) : c.xs[i - 1] <= c.xs[i]

\* Mutant of BestSplit: a later split that is as good replaces the earlier one.
BestSplitLast(pre) ==
    CHOOSE k \in Splits(pre.n) :
        /\ \A j \in Splits(pre.n) : SplitError(pre, k) <= SplitError(pre, j)
        /\ \A j \in Splits(pre.n) : j > k => SplitError(pre, k) < SplitError(pre, j)

\* The sweep for the knee: the first split of least error.
BestSplit(pre) ==
    CHOOSE k \in Splits(pre.n) :
        /\ \A j \in Splits(pre.n) : SplitError(pre, k) <= SplitError(pre, j)
        /\ \A j \in Splits(pre.n) : j < k => SplitError(pre, k) < SplitError(pre, j)

Peak(ys) == CHOOSE y \in {ys[i] : i \in DOMAIN ys} : \A i \in DOMAIN ys : ys[i] <= y

\* Steps backwards by more than sensor noise: 1% of the peak, at least SensorNoise.
Reversals(ys) ==
    Cardinality({i \in 2 .. Len(ys) :
        100 * (ys[i - 1] - ys[i]) > Larger(Peak(ys), 100 * SensorNoise)})

\* How much the elastic region flattens: its last quarter against its first half.
LateToEarly(pre, k) ==
    LET n == pre.n - k
    IN  IF n < 2 * MinSegment THEN 100
        ELSE SlopeRatio(LineFit(pre, k + (3 * n) \div 4, pre.n),
                        LineFit(pre, k, k + n \div 2))

ExtractFeatures(c) ==
    LET pre     == PrefixSums(c.xs, c.ys)
        k       == BestSplit(pre)
        elastic == LineFit(pre, k, pre.n)
    IN  [knee      |-> 100 * c.xs[k + 1],
         slope     |-> Slope(elastic),
         residual  |-> Variance(elastic),
         rundown   |-> (100 * pre.y[k]) \div k,
         ratio     |-> LateToEarly(pre, k),
         final     |-> 100 * c.ys[pre.n],
         reversals |-> 100 * Reversals(c.ys)]

-----------------------------------------------------------------------------
(* The baseline, learned from clean runs; the spec limits are given.       *)

\* Mutant of Tolerance: a perfectly repeatable process has no tolerance.
ToleranceUnfloored(values) == Spread(values)

\* tol(): never less than a small fraction of the mean.
Tolerance(values) == Larger(Spread(values), Larger(Magnitude(Mean(values)) \div 50, 1))

Knee(f) == f.knee
ElasticSlope(f) == f.slope

YieldFlattening == 60

EnoughRuns(runs) == Len(runs) >= MinRuns

FromCleanRuns(runs) ==
    LET Each(Of(_)) == [i \in DOMAIN runs |-> Of(runs[i])]
        residuals == Each(LAMBDA f : f.residual)
        rundowns  == Each(LAMBDA f : f.rundown)
        reversals == Each(LAMBDA f : f.reversals)
    IN  [knee           |-> Mean(Each(Knee)),
         kneeTolerance  |-> Tolerance(Each(Knee)),
         slope          |-> Mean(Each(ElasticSlope)),
         slopeTolerance |-> Tolerance(Each(ElasticSlope)),
         residualMax    |-> Mean(residuals) + Spread(residuals),
         rundownMax     |-> Mean(rundowns) + Spread(rundowns),
         reversalsMax   |-> Larger(Mean(reversals) + Spread(reversals), 100)]

-----------------------------------------------------------------------------
(* Scoring.                                                                *)

\* A deviation of 1 + excess / tolerance tolerance units.
Deviates(feature, excess, tolerance, weight) ==
    <<[feature |-> feature, excess |-> excess, tolerance |-> tolerance, weight |-> weight]>>

\* _deviation(): nothing, or the one departure; direction 1 is above only, -1 below.
Deviation(feature, observed, expected, tolerance, weight, direction) ==
    LET delta == observed - expected
    IN  IF \/ tolerance <= 0
           \/ direction > 0 /\ delta <= 0
           \/ direction < 0 /\ delta >= 0
           \/ Magnitude(delta) <= tolerance
        THEN <<>>
        ELSE Deviates(feature, Magnitude(delta) - tolerance, tolerance, weight)

\* Mutant of Flattening: a slope that grew counts as one that decayed.
FlatteningInverted(f) ==
    IF f.ratio <= YieldFlattening THEN <<>>
    ELSE Deviates("ratio", f.ratio - YieldFlattening, YieldFlattening, 45)

\* The yield signature: the elastic region flattens.
Flattening(f) ==
    IF f.ratio >= YieldFlattening THEN <<>>
    ELSE Deviates("ratio", YieldFlattening - f.ratio, YieldFlattening, 45)

\* A ceiling is its own tolerance.
Deviations(f, b) ==
    Deviation("knee", f.knee, b.knee, b.kneeTolerance, 35, 1)
    \o Deviation("slope", f.slope, b.slope, b.slopeTolerance, 40, -1)
    \o Deviation("residual", f.residual, b.residualMax, Larger(b.residualMax, 1), 25, 1)
    \o Deviation("reversals", f.reversals, b.reversalsMax, Larger(b.reversalsMax, 100), 20, 1)
    \o Deviation("rundown", f.rundown, b.rundownMax, Larger(b.rundownMax, 1), 30, 1)
    \o Flattening(f)

\* How strongly a deviation counts: fully from 1.5 tolerances past the edge.
Strength(d) == Smaller((2000 * d.excess) \div (3 * d.tolerance), 1000)

\* Mutant of NoisyOr: the average of the contributions.
Averaged(deviations) ==
    LET S[i \in 0 .. Len(deviations)] ==
            IF i = 0 THEN 0
            ELSE S[i - 1] + (deviations[i].weight * Strength(deviations[i])) \div 10
    IN  S[Len(deviations)] \div Larger(Len(deviations), 1)

\* score = 1 - PROD (1 - weight * strength), in the order of the deviations.
NoisyOr(deviations) ==
    LET Complement[i \in 0 .. Len(deviations)] ==
            IF i = 0 THEN Full
            ELSE (Complement[i - 1]
                    * (Whole - deviations[i].weight * Strength(deviations[i]))) \div Whole
    IN  Full - Complement[Len(deviations)]

-----------------------------------------------------------------------------
(* The classes, each from named measurements; the list is sorted by        *)
(* confidence.                                                             *)

Class(name, confidence) == [class |-> name, confidence |-> confidence]

\* min(ratio, 3) times a weight, the ratio being part / whole.
Graded(weight, part, whole) == (weight * Smaller(part, 3 * whole)) \div whole

Contamination(f, b) ==
    LET late     == f.knee - b.knee
        shallow  == b.slope - f.slope
        kneeTol  == Larger(b.kneeTolerance, 1)
        slopeTol == Larger(b.slopeTolerance, 1)
    IN  IF late > kneeTol /\ shallow > slopeTol
        THEN {Class("thread_contamination",
                    Smaller(950, 450 + Graded(150, late, kneeTol)
                                     + Graded(150, shallow, slopeTol)))}
        ELSE {}

CrossThreading(f, b) ==
    LET ceiling == Larger(b.residualMax, 1)
    IN  IF /\ f.residual > ceiling
           /\ f.rundown > Larger(b.rundownMax, 1) \/ f.reversals >= 300
        THEN {Class("cross_threading",
                    Smaller(920, 400 + Graded(180, f.residual, ceiling) + f.reversals \div 2))}
        ELSE {}

OverTorque(f, b) ==
    IF f.ratio < YieldFlattening
    THEN {Class("over_torque", Smaller(930, 500 + 10 * (YieldFlattening - f.ratio)))}
    ELSE IF f.final > SpecHi THEN {Class("over_torque", 850)} ELSE {}

UnderTorque(f, b) == IF f.final < SpecLo THEN {Class("under_torque", 880)} ELSE {}

Classify(f, b) ==
    Contamination(f, b) \cup CrossThreading(f, b) \cup OverTorque(f, b) \cup UnderTorque(f, b)

DefaultThreshold == 4500

\* score_signature(); the list of deviations is sorted for display only.
ScoreSignature(f, b) ==
    LET score == NoisyOr(Deviations(f, b))
    IN  [score     |-> score,
         inSpec    |-> SpecLo <= f.final /\ f.final <= SpecHi,
         anomalous |-> score >= DefaultThreshold,
         classes   |-> Classify(f, b)]

\* fusion_only and severity of the verdict.
FusionOnlyVerdict(v) == v.inSpec /\ v.anomalous
VerdictSeverity(v) ==
    IF ~v.anomalous THEN "minor" ELSE IF v.score >= 6000 THEN "critical" ELSE "major"
=============================================================================
