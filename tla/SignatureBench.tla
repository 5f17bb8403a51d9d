--------------------------- MODULE SignatureBench ---------------------------
(***************************************************************************)
(* One fastener run on its way through both analysers: the curve is        *)
(* constructed or refused, its features are extracted, and they are scored *)
(* against baselines learned from the same clean runs (process_sentinel    *)
(* in src/src/forge/agents/graph.py does the torque half for every curve). *)
(***************************************************************************)
EXTENDS TorqueSignature, Signals, TLC

CONSTANTS
    RawCurves,      \* the samples that arrive: xs, ys and whether all are finite
    GivenFeatures,  \* features of runs longer than RawCurves can hold
    CleanRuns,      \* the clean runs a baseline may be learned from, as sequences
    Nudges          \* how much worse a feature may get

FeaturesType ==
    [knee : Int, slope : Int, residual : Int, rundown : Int, ratio : Int, final : Int,
     reversals : Nat]

\* An arriving curve has as many angles as torques.
CurveType ==
    {c \in [xs : Seq(Int), ys : Seq(Int), finite : BOOLEAN] : Len(c.xs) = Len(c.ys)}

ASSUME BenchAssumption ==
    /\ RawCurves \subseteq CurveType
    /\ GivenFeatures \subseteq FeaturesType
    /\ CleanRuns \subseteq Seq(FeaturesType)
    /\ Nudges \subseteq Nat

\* Grain is fine enough for the curves: the squared error of every slice that a
\* segment is fitted to is a whole number of Grain-ths.
ASSUME GrainAssumption ==
    \A xs \in {c.xs : c \in RawCurves} : \A lo, hi \in 0 .. Len(xs) :
        lo + 2 <= hi /\ hi - lo <= Len(xs) - MinSegment =>
            Grain % ((hi - lo) * LineFit(PrefixSums(xs, xs), lo, hi).run) = 0

VARIABLES
    stage,      \* learning, received, measured, scored or refused
    curve,      \* the raw samples, or NoCurve
    clean,      \* the clean runs
    baselines,  \* the torque baseline and the generic one
    features,   \* what extract_features() measured
    generic,    \* what extract() measured
    verdict,    \* what score_signature() says
    result      \* what score_features() says

benchVars == <<stage, curve, clean, baselines, features, generic, verdict, result>>

NoCurve == [xs |-> <<>>, ys |-> <<>>, finite |-> TRUE]
Nothing == [nothing |-> TRUE]

\* Where the generic analyser keeps what the torque analyser calls by name.
NamedKeys ==
    ({"piecewise_linear"} \X {"breakpoint_x", "slope_after", "residual_variance",
                              "mean_before", "late_early_slope_ratio"})
    \cup {<<"stability", "reversal_count">>, <<"endpoint", "final_y">>}

Named(f) ==
    [key \in NamedKeys |->
        CASE key[2] = "breakpoint_x"           -> f.knee
          [] key[2] = "slope_after"            -> f.slope
          [] key[2] = "residual_variance"      -> f.residual
          [] key[2] = "mean_before"            -> f.rundown
          [] key[2] = "late_early_slope_ratio" -> f.ratio
          [] key[2] = "reversal_count"         -> f.reversals
          [] key[2] = "final_y"                -> f.final]

\* The rules and the limit of the wheel, in the generic analyser's terms.
WheelRules ==
    <<Rule(<<"piecewise_linear", "breakpoint_x">>, 35, 1),
      Rule(<<"piecewise_linear", "slope_after">>, 40, -1),
      Rule(<<"piecewise_linear", "residual_variance">>, 35, 1),
      Rule(<<"piecewise_linear", "mean_before">>, 30, 1),
      Rule(<<"piecewise_linear", "late_early_slope_ratio">>, 45, -1),
      Rule(<<"stability", "reversal_count">>, 20, 1)>>

WheelLimits ==
    {[feature |-> <<"endpoint", "final_y">>, lo |-> {SpecLo}, hi |-> {SpecHi}]}

-----------------------------------------------------------------------------
BenchInit ==
    /\ stage = "learning"
    /\ clean \in CleanRuns
    /\ curve \in RawCurves \cup (IF GivenFeatures = {} THEN {} ELSE {NoCurve})
    /\ features \in IF curve = NoCurve THEN GivenFeatures ELSE {Nothing}
    /\ baselines = Nothing
    /\ generic = Nothing
    /\ verdict = Nothing
    /\ result = Nothing

\* A baseline is learned from enough runs, or not at all.
Learn ==
    /\ stage = "learning"
    /\ stage' = IF ~EnoughRuns(clean) \/ ~EnoughGoodRuns(clean)
                THEN "refused"
                ELSE IF curve = NoCurve THEN "measured" ELSE "received"
    /\ baselines' = IF stage' = "refused" THEN Nothing
                    ELSE [torque  |-> FromCleanRuns(clean),
                          generic |-> LearnBaseline([i \in DOMAIN clean |-> Named(clean[i])])]
    /\ generic' = IF features = Nothing THEN Nothing ELSE Named(features)
    /\ UNCHANGED <<curve, clean, features, verdict, result>>

\* The constructor raises: nothing is measured.
Refuse ==
    /\ stage = "received"
    /\ ~CurveIsValid(curve)
    /\ stage' = "refused"
    /\ UNCHANGED <<curve, clean, baselines, features, generic, verdict, result>>

Measure ==
    /\ stage = "received"
    /\ CurveIsValid(curve) /\ SeriesIsValid(curve, "sweep")
    /\ stage' = "measured"
    /\ features' = ExtractFeatures(curve)
    /\ generic' = Extract(curve, Extractors)
    /\ UNCHANGED <<curve, clean, baselines, verdict, result>>

Score ==
    /\ stage = "measured"
    /\ stage' = "scored"
    /\ verdict' = ScoreSignature(features, baselines.torque)
    /\ result' = ScoreFeatures(generic, baselines.generic, WheelRules, WheelLimits,
                               DefaultThreshold)
    /\ UNCHANGED <<curve, clean, baselines, features, generic>>

BenchFinished == stage \in {"scored", "refused"} /\ UNCHANGED benchVars

BenchNext == Learn \/ Refuse \/ Measure \/ Score \/ BenchFinished

BenchSpec == BenchInit /\ [][BenchNext]_benchVars

-----------------------------------------------------------------------------
Measured == stage \in {"measured", "scored"}
Scored == stage = "scored"

Level(ys, i) == ys[i + 1] - ys[i]

\* Two straight lines of different slope that meet in sample j, over even steps.
MeetAt(c, j) ==
    /\ \A i \in 1 .. (Len(c.xs) - 1) : c.xs[i + 1] - c.xs[i] = 1
    /\ \A i \in 1 .. (j - 1) : Level(c.ys, i) = Level(c.ys, 1)
    /\ \A i \in j .. (Len(c.ys) - 1) : Level(c.ys, i) = Level(c.ys, j)
    /\ Level(c.ys, 1) # Level(c.ys, j)

\* The sweep finds the knee of every run that has one: where two lines meet with
\* enough samples on both sides, the knee is the sample they share, the elastic
\* slope is the second line's own, and nothing is left over as residual.  The fit
\* is as good with the shared sample on either side; a sweep that kept the later of
\* two equal splits would report every knee one sample late.
KneeFound ==
    Measured /\ curve # NoCurve =>
        \A j \in (MinSegment + 1) .. (Len(curve.xs) - MinSegment + 1) :
            MeetAt(curve, j) =>
                /\ features.knee = 100 * curve.xs[j]
                /\ features.slope = 100 * Level(curve.ys, j)
                /\ features.residual = 0

StepsBack(c) == {c.ys[i - 1] - c.ys[i] : i \in 2 .. Len(c.ys)} \cap (Nat \ {0})

\* The generic analyser measures what the torque analyser does, on any curve: it
\* differs at most in the reversals, where it may count more, because it has no
\* sensor noise to allow for, and only if some step back lies within that noise.
\* (Of torques below zero the two take different magnitudes as the scale of noise.)
GenericAgrees ==
    Measured /\ curve # NoCurve =>
        LET old == Named(features)
            rev == <<"stability", "reversal_count">>
        IN  /\ \A key \in DOMAIN old \ {rev} : generic[key] = old[key]
            /\ (\A y \in Values(curve.ys) : y >= 0) =>
                 /\ old[rev] <= generic[rev]
                 /\ (\A d \in StepsBack(curve) : d > SensorNoise) => old[rev] = generic[rev]

\* The same run with one feature further on the side that counts.
Worse(f) ==
    {[f EXCEPT !.knee = @ + d] : d \in Nudges}
    \cup {[f EXCEPT !.slope = @ - d] : d \in Nudges}
    \cup {[f EXCEPT !.residual = @ + d] : d \in Nudges}
    \cup {[f EXCEPT !.reversals = @ + 100] : d \in Nudges}
    \cup {[f EXCEPT !.rundown = @ + d] : d \in Nudges}
    \cup {[f EXCEPT !.ratio = @ - d] : d \in Nudges}

\* No evidence speaks for a fastener: the score is at least what its strongest
\* deviation alone would give, however many features are nominal, a feature that
\* gets worse never lowers it, in either analyser, and it stays below the full score.
EvidenceOnlyAdds ==
    Scored =>
        LET deviations == Deviations(features, baselines.torque)
        IN  /\ verdict.score \in 0 .. Full
            /\ \A i \in DOMAIN deviations :
                 10 * verdict.score >= deviations[i].weight * Strength(deviations[i])
            /\ \A f \in Worse(features) :
                 /\ ScoreSignature(f, baselines.torque).score >= verdict.score
                 /\ curve = NoCurve =>
                      ScoreFeatures(Named(f), baselines.generic, WheelRules, WheelLimits,
                                    DefaultThreshold).score >= result.score

Counts(feature) ==
    \E i \in DOMAIN Deviations(features, baselines.torque) :
        Deviations(features, baselines.torque)[i].feature = feature

\* The two engines inside the analyser, the score and the classes, tell one story:
\* contamination is ranked exactly when knee and slope both count in the score, and
\* makes the run critical once both count fully; a class named for a run whose
\* endpoint is in spec is named for its shape, over-torque only if the yield counts.
ClassesAreMeasured ==
    Scored =>
        LET classes == {c.class : c \in verdict.classes}
            far(excess, tolerance) == 2 * excess >= 5 * tolerance
            b == baselines.torque
        IN  /\ "thread_contamination" \in classes <=> Counts("knee") /\ Counts("slope")
            /\ /\ far(features.knee - b.knee, b.kneeTolerance)
               /\ far(b.slope - features.slope, b.slopeTolerance)
               => VerdictSeverity(verdict) = "critical"
            /\ FusionOnlyVerdict(verdict) =>
                 /\ "under_torque" \notin classes
                 /\ "over_torque" \in classes => Counts("ratio")

Extent(Of(_)) ==
    LET values == {Of(clean[i]) : i \in DOMAIN clean}
    IN  [lo |-> CHOOSE v \in values : \A w \in values : v <= w,
         hi |-> CHOOSE v \in values : \A w \in values : w <= v]

\* Far outside everything clean is not normal, whatever the clean runs were like: a
\* knee later than all of them, or a slope below all of them, by more than sigma
\* times their range and a fiftieth of the mean counts in both analysers.  A
\* perfectly repeatable process must not leave a tolerance that blinds them.  (The
\* last five-hundredth is the grain of a strength, which is counted in thousandths.)
FarFromCleanIsScored ==
    Scored =>
        LET knees  == Extent(Knee)
            slopes == Extent(ElasticSlope)
            most(e)   == Sigma * (e.hi - e.lo) + Magnitude(e.hi) \div 50 + 1
            margin(e) == most(e) + most(e) \div 500 + 1
        IN  \/ features.knee > knees.hi + margin(knees)
            \/ features.slope < slopes.lo - margin(slopes)
            => verdict.score > 0 /\ result.score > 0
=============================================================================
