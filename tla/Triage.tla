------------------------------- MODULE Triage -------------------------------
(***************************************************************************)
(* The pure functions that a verdict is computed with: the adjudication of *)
(* signals that disagree (src/src/forge/domain/adjudication.py) and the    *)
(* expected-cost triage (src/src/forge/domain/cost.py).                    *)
(*                                                                         *)
(* Numbers are exact integers: a score is in hundredths, a probability and *)
(* a confidence in ten-thousandths, and an expected cost is a probability  *)
(* times a cost.  Costs are counted in hundreds of the plant's currency,   *)
(* so an expected cost of 100 stands for one rupee.  The rationale and     *)
(* reasoning texts are left out.                                           *)
(***************************************************************************)
EXTENDS Integers, FiniteSets

CONSTANTS
    FullScore,          \* the score 1.0, in hundredths
    AnomalyThreshold,   \* anomaly_threshold of score_signature
    Supervisor,         \* high_consequence_threshold, an expected cost
    OneUnit             \* the expected cost 1.0, in max(best.expected_cost, 1.0)

ASSUME TriageAssumption ==
    /\ FullScore = 100
    /\ AnomalyThreshold \in 0 .. FullScore
    /\ Supervisor \in Nat
    /\ OneUnit \in Nat \ {0}

Certain == 10000

Least(a, b) == IF a <= b THEN a ELSE b
Greatest(a, b) == IF a >= b THEN a ELSE b

-----------------------------------------------------------------------------
(* One inspection point: what score_signature() says of its curve.         *)

Outcome == [position : Nat, score : 0 .. FullScore, inSpec : BOOLEAN]

Anomalous(o) == o.score >= AnomalyThreshold

\* The endpoint passes but the shape does not.
FusionOnly(o) == o.inSpec /\ Anomalous(o)

SeverityOf(o) ==
    IF ~Anomalous(o) THEN "minor" ELSE IF o.score >= 60 THEN "critical" ELSE "major"

Worst(outcomes) == CHOOSE o \in outcomes : \A p \in outcomes : p.score <= o.score

Adjudication(verdict, severity, confidence, primary, fusionOnly, conflict) ==
    [verdict |-> verdict, severity |-> severity, confidence |-> confidence,
     primary |-> primary, fusionOnly |-> fusionOnly, conflict |-> conflict]

FusionConfidence(s) == Least(6000 + 35 * s, 9700)

NoSignals    == Adjudication("escalate", "major", 0, "none", FALSE, FALSE)
VerifierSays == Adjudication("defect", "critical", 9900, "vision", FALSE, FALSE)
FusionSays(worst) ==
    Adjudication("defect", "critical", FusionConfidence(worst.score), "fusion", TRUE, TRUE)
EndpointSays == Adjudication("defect", "critical", 9500, "process", FALSE, FALSE)
SignatureSays(worst) ==
    Adjudication("escalate", SeverityOf(worst), 4500 + 20 * worst.score, "process",
                 FALSE, TRUE)
AllNominal   == Adjudication("pass", "minor", 9400, "fusion", FALSE, FALSE)

\* Mutant of Adjudicate: a signature counts only when most points agree with it.
AdjudicateByVote(outcomes, verifiersPassed) ==
    LET fusion == {o \in outcomes : FusionOnly(o)}
    IN  IF outcomes = {} THEN NoSignals
        ELSE IF ~verifiersPassed THEN VerifierSays
        ELSE IF 2 * Cardinality(fusion) > Cardinality(outcomes)
        THEN FusionSays(Worst(fusion))
        ELSE IF \E o \in outcomes : ~o.inSpec THEN EndpointSays
        ELSE AllNominal

\* Mutant of Adjudicate: the decisive endpoint is looked at first.
AdjudicateEndpointFirst(outcomes, verifiersPassed) ==
    LET fusion == {o \in outcomes : FusionOnly(o)}
    IN  IF outcomes = {} THEN NoSignals
        ELSE IF ~verifiersPassed THEN VerifierSays
        ELSE IF \E o \in outcomes : ~o.inSpec THEN EndpointSays
        ELSE IF fusion # {} THEN FusionSays(Worst(fusion))
        ELSE AllNominal

\* Mutant of Adjudicate: an anomalous signature is looked at before the endpoint.
AdjudicateSignatureFirst(outcomes, verifiersPassed) ==
    LET fusion    == {o \in outcomes : FusionOnly(o)}
        anomalous == {o \in outcomes : Anomalous(o)}
    IN  IF outcomes = {} THEN NoSignals
        ELSE IF ~verifiersPassed THEN VerifierSays
        ELSE IF fusion # {} THEN FusionSays(Worst(fusion))
        ELSE IF anomalous # {} THEN SignatureSays(Worst(anomalous))
        ELSE IF \E o \in outcomes : ~o.inSpec THEN EndpointSays
        ELSE AllNominal

\* adjudicate(): the first rule that applies.
Adjudicate(outcomes, verifiersPassed) ==
    LET fusion    == {o \in outcomes : FusionOnly(o)}
        anomalous == {o \in outcomes : Anomalous(o)}
    IN  IF outcomes = {} THEN NoSignals
        ELSE IF ~verifiersPassed THEN VerifierSays
        ELSE IF fusion # {} THEN FusionSays(Worst(fusion))
        ELSE IF \E o \in outcomes : ~o.inSpec THEN EndpointSays
        ELSE IF anomalous # {} THEN SignatureSays(Worst(anomalous))
        ELSE AllNominal

\* HITL_CONFIDENCE_BAND
InUncertaintyBand(adj) ==
    adj.verdict # "pass" /\ adj.confidence \in 4500 .. 7000

\* needs_human(): two independent triggers.
NeedsHuman(adj, triageRequiresHuman) ==
    triageRequiresHuman \/ InUncertaintyBand(adj)

-----------------------------------------------------------------------------
(* The expected-cost triage.  The economics are those of one decision: the *)
(* cost of each component at the plant's rates for the units in scope, and *)
(* of halting the line for the expected hours, or NoHalt.                  *)

NoHalt == -1

Autonomous == {"accept", "rework", "quarantine", "scrap"}

\* The order _action_costs() lists the actions in; the sort is stable.
Rank(action) ==
    CASE action = "accept"     -> 1
      [] action = "rework"     -> 2
      [] action = "quarantine" -> 3
      [] action = "scrap"      -> 4
      [] action = "halt_line"  -> 5

Economics ==
    [rework : Nat, scrap : Nat, escape : Nat, hold : Nat, halt : {NoHalt} \cup Nat]

Actions(m) == Autonomous \cup (IF m.halt # NoHalt THEN {"halt_line"} ELSE {})

CostIfDefective(m, action) ==
    CASE action = "accept"     -> m.escape
      [] action = "rework"     -> m.rework
      [] action = "quarantine" -> m.hold + m.rework
      [] action = "scrap"      -> m.scrap
      [] action = "halt_line"  -> m.halt + m.rework

CostIfFine(m, action) ==
    CASE action = "accept"     -> 0
      [] action = "rework"     -> m.rework
      [] action = "quarantine" -> m.hold
      [] action = "scrap"      -> m.scrap
      [] action = "halt_line"  -> m.halt

Expected(m, action, p) ==
    p * CostIfDefective(m, action) + (Certain - p) * CostIfFine(m, action)

\* a stands before b once the rows are sorted by expected cost.
Before(m, p, a, b) ==
    \/ Expected(m, a, p) < Expected(m, b, p)
    \/ Expected(m, a, p) = Expected(m, b, p) /\ Rank(a) <= Rank(b)

Cheapest(m, p, actions) ==
    CHOOSE a \in actions : \A b \in actions : Before(m, p, a, b)

IntervalWidth(m, action, p, u) ==
    LET lo == Expected(m, action, Greatest(p - u, 0))
        hi == Expected(m, action, Least(p + u, Certain))
    IN  Greatest(lo, hi) - Least(lo, hi)

\* Mutant of HumanReasons: nobody is asked when halting would be cheapest.
HumanReasonsButHalt(m, p, u, safetyCritical) ==
    LET best     == Cheapest(m, p, Autonomous)
        second   == Cheapest(m, p, Autonomous \ {best})
        bestCost == Expected(m, best, p)
        base     == Greatest(bestCost, OneUnit)
    IN  {r \in {"threshold", "safety", "indifferent", "interval"} :
          \/ r = "threshold"   /\ bestCost > Supervisor
          \/ r = "safety"      /\ safetyCritical /\ best = "accept"
          \/ r = "indifferent" /\ 10 * (Expected(m, second, p) - bestCost) < base
          \/ r = "interval"    /\ 2 * IntervalWidth(m, best, p, u) > base}

\* Mutant of HumanReasons: the interval around the estimate is not looked at.
HumanReasonsButInterval(m, p, u, safetyCritical) ==
    HumanReasonsButHalt(m, p, 0, safetyCritical)
    \cup (IF Cheapest(m, p, Actions(m)) = "halt_line" THEN {"halt"} ELSE {})

\* Why triage() asks for a human; the empty set when it does not.
HumanReasons(m, p, u, safetyCritical) ==
    LET best     == Cheapest(m, p, Autonomous)
        second   == Cheapest(m, p, Autonomous \ {best})
        bestCost == Expected(m, best, p)
        base     == Greatest(bestCost, OneUnit)
    IN  {r \in {"halt", "threshold", "safety", "indifferent", "interval"} :
          \/ r = "halt"        /\ Cheapest(m, p, Actions(m)) = "halt_line"
          \/ r = "threshold"   /\ bestCost > Supervisor
          \/ r = "safety"      /\ safetyCritical /\ best = "accept"
          \/ r = "indifferent" /\ 10 * (Expected(m, second, p) - bestCost) < base
          \/ r = "interval"    /\ 2 * IntervalWidth(m, best, p, u) > base}

\* triage(): the best autonomous action, the cost of the cheapest row of all,
\* and the reasons to ask a human.
Triage(m, p, u, safetyCritical) ==
    [recommended  |-> Cheapest(m, p, Autonomous),
     expectedCost |-> Expected(m, Cheapest(m, p, Actions(m)), p),
     reasons      |-> HumanReasons(m, p, u, safetyCritical)]

Uncertainty == 600

TriageOf(m, adj) ==
    Triage(m, adj.confidence, Uncertainty, adj.severity = "critical")
=============================================================================
