-------------------------- MODULE MCSignatureBench --------------------------
(***************************************************************************)
(* Curves of six to nine samples.  Every curve over three torque values    *)
(* with seven samples or fewer, six samples over uneven angles, and longer *)
(* runs of two lines with at most one sample off; a segment needs three.   *)
(***************************************************************************)
EXTENDS SignatureBench

Even(n) == [i \in 1 .. n |-> i - 1]

Curve(xs, ys) == [xs |-> xs, ys |-> ys, finite |-> TRUE]

AnyCurve(n) == {Curve(Even(n), ys) : ys \in [1 .. n -> 0 .. 2]}

Uneven == {<<0, 0, 0, 1, 2, 3>>, <<0, 1, 2, 2, 2, 2>>, <<0, 2, 3, 3, 4, 6>>}

Bent(n, j, a, b) == [i \in 1 .. n |-> IF i <= j THEN a * i ELSE a * j + b * (i - j)]

TwoLines ==
    {Curve(Even(n), [Bent(n, j, a, b) EXCEPT ![i] = @ + off]) :
        n \in 7 .. 9, j \in 2 .. 8, a \in {0, 1}, b \in {-1, 0, 2, 3}, i \in 1 .. 6,
        off \in {-1, 0, 2}}

Broken ==
    {Curve(<<0, 1, 2, 1, 3, 4>>, [i \in 1 .. 6 |-> i]),
     Curve(Even(5), [i \in 1 .. 5 |-> i]),
     [xs |-> Even(6), ys |-> [i \in 1 .. 6 |-> i], finite |-> FALSE]}

MCRawCurves ==
    UNION {AnyCurve(n) : n \in 6 .. 7}
    \cup {Curve(xs, ys) : xs \in Uneven, ys \in [1 .. 6 -> 0 .. 2]}
    \cup TwoLines
    \cup Broken

Run(knee, slope, residual) ==
    [knee |-> knee, slope |-> slope, residual |-> residual, rundown |-> 100, ratio |-> 95,
     final |-> 1100, reversals |-> 0]

\* A perfectly repeatable process, one that varies, and too few runs.
MCCleanRuns ==
    {<<Run(300, 200, 0), Run(300, 200, 0), Run(300, 200, 0)>>,
     <<Run(280, 190, 2), Run(310, 200, 5), Run(300, 216, 4)>>,
     <<Run(300, 200, 0)>>}

MCGivenFeatures ==
    [knee : {250, 305, 340, 500}, slope : {20, 150, 197, 230}, residual : {0, 3, 12, 40},
     rundown : {90, 150, 420}, ratio : {10, 45, 60, 100}, final : {900, 1100, 1300},
     reversals : {0, 200, 300}]

MCNudges == {0, 3, 60, 300}
=============================================================================
