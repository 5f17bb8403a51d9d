------------------------------- MODULE Signals -------------------------------
(***************************************************************************)
(* The generic signal analyser (src/src/forge/domain/signals.py), meant to *)
(* take the place of the torque analyser: a series of any channel, its     *)
(* extractors, a baseline learned per feature and a score by declared      *)
(* rules and limits.                                                       *)
(*                                                                         *)
(* A feature's key is the pair <<extractor, name>>; units and scales are   *)
(* those of TorqueSignature.  The extractors distribution and spectral     *)
(* (moments, percentiles, Goertzel powers) are left out.                   *)
(***************************************************************************)
EXTENDS LeastSquares, FiniteSets

CONSTANTS
    MinGoodRuns     \* min_runs

ASSUME SignalsAssumption == MinGoodRuns \in Nat \ {0, 1}

\* __post_init__(): only a sweep must advance.
SeriesIsValid(c, kind) ==
    /\ Len(c.xs) >= 2 * MinSegment
    /\ c.finite
    /\ kind = "sweep" => \A i \in 2 .. Len(c.xs) : c.xs[i - 1] <= c.xs[i]

-----------------------------------------------------------------------------
(* The extractors: a function from names to values.                        *)

\* Mutant of Breakpoint: the last sample of the sweep is never tried.
BreakpointShort(pre) ==
    CHOOSE k \in Splits(pre.n - 1) \cup {MinSegment} :
        \A j \in Splits(pre.n - 1) :
            \/ SplitError(pre, k) < SplitError(pre, j)
            \/ SplitError(pre, k) = SplitError(pre, j) /\ k <= j

\* The first split of least error.
Breakpoint(pre) ==
    CHOOSE k \in Splits(pre.n) :
        \A j \in Splits(pre.n) :
            \/ SplitError(pre, k) < SplitError(pre, j)
            \/ SplitError(pre, k) = SplitError(pre, j) /\ k <= j

LateEarlyRatio(pre, k) ==
    LET n == pre.n - k
    IN  IF n < 2 * MinSegment THEN 100
        ELSE SlopeRatio(LineFit(pre, k + (3 * n) \div 4, pre.n),
                        LineFit(pre, k, k + n \div 2))

PiecewiseLinear(c) ==
    LET pre   == PrefixSums(c.xs, c.ys)
        k     == Breakpoint(pre)
        after == LineFit(pre, k, pre.n)
    IN  [breakpoint_x           |-> 100 * c.xs[k + 1],
         slope_before           |-> Slope(LineFit(pre, 0, k)),
         slope_after            |-> Slope(after),
         mean_before            |-> (100 * pre.y[k]) \div k,
         residual_variance      |-> Variance(after),
         r2                     |-> Explained(after, TotalSquares(pre, k, pre.n)),
         span_after             |-> 100 * (c.xs[pre.n] - c.xs[k + 1]),
         late_early_slope_ratio |-> LateEarlyRatio(pre, k)]

Highest(S) == CHOOSE y \in S : \A z \in S : z <= y
Values(ys) == {ys[i] : i \in DOMAIN ys}

Endpoint(c) ==
    [final_y |-> 100 * c.ys[Len(c.ys)],
     peak_y  |-> 100 * Highest(Values(c.ys)),
     min_y   |-> -100 * Highest({-y : y \in Values(c.ys)}),
     span_x  |-> 100 * (c.xs[Len(c.xs)] - c.xs[1])]

\* The noise floor is 1% of the largest magnitude, and else next to nothing.
Stability(c) ==
    LET ys    == c.ys
        steps == 2 .. Len(ys)
        floor == Highest({Magnitude(y) : y \in Values(ys)})
    IN  [reversal_count     |->
             100 * Cardinality({i \in steps : 100 * (ys[i - 1] - ys[i]) > floor}),
         monotonic_fraction |->
             (100 * Cardinality({i \in steps : ys[i - 1] <= ys[i]})) \div (Len(ys) - 1)]

\* One line through everything.
Trend(c) ==
    LET pre == PrefixSums(c.xs, c.ys)
        fit == LineFit(pre, 0, pre.n)
    IN  [slope             |-> Slope(fit),
         r2                |-> Explained(fit, TotalSquares(pre, 0, pre.n)),
         drift             |-> (100 * fit.rise * (c.xs[pre.n] - c.xs[1])) \div fit.run,
         residual_variance |-> Variance(fit)]

Extractors == {"piecewise_linear", "endpoint", "stability", "trend"}

RunExtractor(name, c) ==
    CASE name = "piecewise_linear" -> PiecewiseLinear(c)
      [] name = "endpoint"         -> Endpoint(c)
      [] name = "stability"        -> Stability(c)
      [] name = "trend"            -> Trend(c)

\* extract(): the features of the named extractors, each under its own name.
Extract(c, names) ==
    LET keys == UNION {{<<e, f>> : f \in DOMAIN RunExtractor(e, c)} : e \in names}
    IN  [key \in keys |-> RunExtractor(key[1], c)[key[2]]]

-----------------------------------------------------------------------------
(* What normal looks like.                                                 *)

\* The tolerance is floored: no variance must not mean no tolerance.
ToleranceOf(values) == Larger(Spread(values), Larger(Magnitude(Mean(values)) \div 50, 1))

EnoughGoodRuns(runs) == Len(runs) >= MinGoodRuns

\* The values of a feature, of the runs that report it.
Reported(runs, key) ==
    LET Taken[i \in 0 .. Len(runs)] ==
            IF i = 0 THEN <<>>
            ELSE IF key \in DOMAIN runs[i] THEN Append(Taken[i - 1], runs[i][key])
            ELSE Taken[i - 1]
    IN  Taken[Len(runs)]

\* A feature that fewer than two runs report is not learned.
LearnBaseline(runs) ==
    LET keys == {key \in UNION {DOMAIN runs[i] : i \in DOMAIN runs} :
                   Len(Reported(runs, key)) >= 2}
    IN  [means      |-> [key \in keys |-> Mean(Reported(runs, key))],
         tolerances |-> [key \in keys |-> ToleranceOf(Reported(runs, key))]]

-----------------------------------------------------------------------------
(* Rules, limits and the score.                                            *)

Rule(feature, weight, direction) ==
    [feature |-> feature, weight |-> weight, direction |-> direction]

\* A limit's lo and hi hold the bound, or nothing.  A missing feature satisfies none.
SatisfiedBy(limit, features) ==
    /\ limit.feature \in DOMAIN features
    /\ \A bound \in limit.lo : bound <= features[limit.feature]
    /\ \A bound \in limit.hi : features[limit.feature] <= bound

\* The feature was measured and learned, and departs the way the rule looks.
RuleDeviates(rule, features, b) ==
    /\ rule.feature \in DOMAIN features \cap DOMAIN b.means
    /\ b.tolerances[rule.feature] # 0
    /\ LET delta == features[rule.feature] - b.means[rule.feature]
       IN  /\ rule.direction > 0 => delta > 0
           /\ rule.direction < 0 => delta < 0
           /\ Magnitude(delta) > b.tolerances[rule.feature]

Contribution(rule, features, b) ==
    LET tolerance == b.tolerances[rule.feature]
        excess    == Magnitude(features[rule.feature] - b.means[rule.feature]) - tolerance
    IN  rule.weight * Smaller((2000 * excess) \div (3 * tolerance), 1000)

ScoreFeatures(features, b, rules, limits, threshold) ==
    LET Complement[i \in 0 .. Len(rules)] ==
            IF i = 0 THEN Full
            ELSE IF RuleDeviates(rules[i], features, b)
            THEN (Complement[i - 1] * (Whole - Contribution(rules[i], features, b))) \div Whole
            ELSE Complement[i - 1]
        score == Full - Complement[Len(rules)]
    IN  [score     |-> score,
         inSpec    |-> \A limit \in limits : SatisfiedBy(limit, features),
         anomalous |-> score >= threshold]
=============================================================================
