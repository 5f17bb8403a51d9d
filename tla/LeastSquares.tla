---------------------------- MODULE LeastSquares ----------------------------
(***************************************************************************)
(* Straight lines fitted to slices of a series in constant time, from      *)
(* prefix sums (_PrefixSums in src/src/forge/domain/torque.py, and again,  *)
(* word for word, in src/src/forge/domain/signals.py).                     *)
(*                                                                         *)
(* The code computes with floats; the module computes exactly.  A sample   *)
(* has integer coordinates, a slope is a fraction and a sum of squared     *)
(* errors is counted in Grain-ths, where Grain is a multiple of every      *)
(* denominator the series of a run can give rise to.  What rounding does   *)
(* to a tie between two splits is outside the model.                       *)
(***************************************************************************)
EXTENDS Integers, Sequences

CONSTANTS
    MinSegment,     \* MIN_SEGMENT_POINTS
    Grain,          \* one unit of squared error, divided in so many parts
    Sigma           \* sigma, how many standard deviations are tolerated

ASSUME LeastSquaresAssumption ==
    /\ MinSegment \in Nat \ {0, 1}
    /\ Grain \in Nat /\ Grain >= 100
    /\ Sigma \in Nat \ {0}

Smaller(a, b) == IF a <= b THEN a ELSE b
Larger(a, b) == IF a >= b THEN a ELSE b
Magnitude(a) == Larger(a, -a)

\* The full score, and a weight times a strength at their most.
Full == 10000
Whole == 10 * Full

\* The cumulative sums of a sequence, from 0.
Cumulative(f) ==
    LET S[i \in 0 .. Len(f)] == IF i = 0 THEN 0 ELSE S[i - 1] + f[i] IN S

PrefixSums(xs, ys) ==
    [n   |-> Len(xs),
     x   |-> Cumulative(xs),
     y   |-> Cumulative(ys),
     xx  |-> Cumulative([i \in 1 .. Len(xs) |-> xs[i] * xs[i]]),
     xy  |-> Cumulative([i \in 1 .. Len(xs) |-> xs[i] * ys[i]]),
     yy  |-> Cumulative([i \in 1 .. Len(xs) |-> ys[i] * ys[i]])]

\* A line of slope rise / run through the slice's mean, and its squared error.
Line(rise, run, sse, n) == [rise |-> rise, run |-> run, sse |-> sse, n |-> n]

\* fit(lo, hi): samples lo + 1 to hi.  Without spread in x, the mean.
LineFit(pre, lo, hi) ==
    LET n     == hi - lo
        x     == pre.x[hi] - pre.x[lo]
        y     == pre.y[hi] - pre.y[lo]
        yy    == pre.yy[hi] - pre.yy[lo]
        denom == n * (pre.xx[hi] - pre.xx[lo]) - x * x
        rise  == n * (pre.xy[hi] - pre.xy[lo]) - x * y
    IN  IF n < 2 THEN Line(0, 1, 0, n)
        ELSE IF denom = 0 THEN Line(0, 1, (Grain \div n) * (n * yy - y * y), n)
        ELSE Line(rise, denom,
                  (Grain \div (n * denom)) * ((n * yy - y * y) * denom - rise * rise), n)

\* total_sum_squares(lo, hi), in Grain-ths.
TotalSquares(pre, lo, hi) ==
    LET n == hi - lo
        y == pre.y[hi] - pre.y[lo]
    IN  IF n < 2 THEN 0 ELSE (Grain \div n) * (n * (pre.yy[hi] - pre.yy[lo]) - y * y)

\* The splits with enough samples on either side.
Splits(n) == MinSegment .. (n - MinSegment)

SplitError(pre, k) == LineFit(pre, 0, k).sse + LineFit(pre, k, pre.n).sse

\* slope_of(late) / slope_of(early), in hundredths; 1 when early is level.
SlopeRatio(late, early) ==
    LET up == IF early.rise > 0 THEN 1 ELSE -1
    IN  IF early.rise = 0 THEN 100
        ELSE (100 * up * late.rise * early.run) \div (late.run * up * early.rise)

\* A slope and a residual variance, in hundredths.
Slope(line) == (100 * line.rise) \div line.run
Variance(line) ==
    IF line.n > 2 THEN (line.sse \div (Grain \div 100)) \div (line.n - 2) ELSE 0

\* r2 of a slice, in hundredths: 1 when there is nothing to explain.
Explained(line, total) ==
    LET part == Grain \div 1000
    IN  IF total = 0 THEN 100
        ELSE 100 - (100 * (line.sse \div part)) \div (total \div part)

-----------------------------------------------------------------------------
(* Statistics of the clean runs, rounded down to whole units.              *)

Root(v) == CHOOSE r \in 0 .. v : r * r <= v /\ v < (r + 1) * (r + 1)

Total(values) == Cumulative(values)[Len(values)]

Mean(values) == Total(values) \div Len(values)

\* sigma times the standard deviation.
Spread(values) ==
    LET squares == [i \in 1 .. Len(values) |->
                      (values[i] - Mean(values)) * (values[i] - Mean(values))]
    IN  Root((Sigma * Sigma * Total(squares)) \div (Len(values) - 1))
=============================================================================
