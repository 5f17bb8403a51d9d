------------------------ MODULE VerdictPipelineProofs ------------------------
(***************************************************************************)
(* Proofs about the verdict and about the scores that it is made from:     *)
(* VerdictPipeline for any inspection points, scores, thresholds and       *)
(* economics, and SignatureBench for any curves, clean runs and scales.    *)
(***************************************************************************)
EXTENDS VerdictPipeline, SignatureBench, WellFoundedInduction, SequenceTheorems,
        FiniteSetTheorems, TLAPS

(***************************************************************************)
(* The verdict as a function of the evidence.  The rules are read in an    *)
(* order, and confidence and severity depend on it; the verdict does not.  *)
(***************************************************************************)
Suspicious(o) == ~o.inSpec \/ Anomalous(o)

LEMMA VerdictOfEvidence ==
    ASSUME NEW points, points \subseteq Outcome, NEW passed \in BOOLEAN
    PROVE  Adjudicate(points, passed).verdict =
             IF points = {} THEN "escalate"
             ELSE IF ~passed \/ (\E o \in points : Suspicious(o)) THEN "defect"
             ELSE "pass"
<1>. DEFINE Pure      == {o \in points : FusionOnly(o)}
            Abnormal  == {o \in points : Anomalous(o)}
            AnyBad    == \E o \in points : Suspicious(o)
<1>1. CASE points = {}
  BY <1>1 DEF Adjudicate, NoSignals, Adjudication
<1>2. CASE points # {} /\ ~passed
  BY <1>2 DEF Adjudicate, VerifierSays, Adjudication
<1>3. CASE points # {} /\ passed /\ Pure # {}
  <2>1. Adjudicate(points, passed) = FusionSays(Worst(Pure))
    BY <1>3 DEF Adjudicate
  <2>2. FusionSays(Worst(Pure)).verdict = "defect"
    BY DEF FusionSays, Adjudication
  <2>3. AnyBad
    BY <1>3 DEF Suspicious, FusionOnly
  <2>. HIDE DEF AnyBad, Pure
  <2>4. Adjudicate(points, passed).verdict
          = IF points = {} THEN "escalate" ELSE IF ~passed \/ AnyBad THEN "defect" ELSE "pass"
    BY <1>3, <2>1, <2>2, <2>3
  <2>. QED
    BY <2>4 DEF AnyBad
<1>4. CASE points # {} /\ passed /\ Pure = {} /\ \E o \in points : ~o.inSpec
  BY <1>4 DEF Adjudicate, EndpointSays, Adjudication, Suspicious
<1>5. CASE points # {} /\ passed /\ Pure = {} /\ \A o \in points : o.inSpec
  <2>1. Abnormal = {} /\ ~AnyBad
    BY <1>5 DEF FusionOnly, Suspicious
  <2>2. Adjudicate(points, passed) = AllNominal
    BY <1>5, <2>1 DEF Adjudicate
  <2>3. AllNominal.verdict = "pass"
    BY DEF AllNominal, Adjudication
  <2>. HIDE DEF AnyBad, Pure
  <2>4. Adjudicate(points, passed).verdict
          = IF points = {} THEN "escalate" ELSE IF ~passed \/ AnyBad THEN "defect" ELSE "pass"
    BY <1>5, <2>1, <2>2, <2>3
  <2>. QED
    BY <2>4 DEF AnyBad
<1>. QED
  BY <1>1, <1>2, <1>3, <1>4, <1>5

\* The evidence of one point, replaced by another.
Worsened(o, s, inSpec) == [o EXCEPT !.score = s, !.inSpec = inSpec]
With(points, o, p) == (points \ {o}) \cup {p}

\* Worse evidence at one point leaves a verdict that is not a pass as it is.
LEMMA WorseKeepsVerdict ==
    ASSUME NEW points, points \subseteq Outcome, NEW passed \in BOOLEAN,
           NEW o \in points, NEW s \in 0 .. FullScore, s >= o.score,
           NEW inSpec \in {o.inSpec, FALSE},
           Adjudicate(points, passed).verdict # "pass"
    PROVE  Adjudicate(With(points, o, Worsened(o, s, inSpec)), passed).verdict
             = Adjudicate(points, passed).verdict
<1>. DEFINE worse == Worsened(o, s, inSpec)
            after == With(points, o, worse)
<1>1. o \in Outcome /\ inSpec \in BOOLEAN
  BY DEF Outcome
<1>2. worse \in Outcome /\ worse.score = s /\ worse.inSpec = inSpec
  BY <1>1 DEF Outcome, Worsened
<1>. HIDE DEF worse
<1>3. after \subseteq Outcome /\ after # {} /\ points # {}
  BY <1>2 DEF With
<1>4. Suspicious(o) => Suspicious(worse)
  <2>1. ~o.inSpec => ~worse.inSpec
    BY <1>2
  <2>2. s \in Int /\ o.score \in Int /\ AnomalyThreshold \in Int
    BY <1>1, TriageAssumption DEF Outcome
  <2>3. o.score >= AnomalyThreshold => worse.score >= AnomalyThreshold
    BY <1>2, <2>2
  <2>. QED
    BY <2>1, <2>3 DEF Suspicious, Anomalous
<1>5. Adjudicate(points, passed).verdict = "defect"
  BY <1>3, VerdictOfEvidence
<1>6. ~passed \/ \E p \in points : Suspicious(p)
  BY <1>3, VerdictOfEvidence
<1>7. ~passed \/ \E p \in after : Suspicious(p)
  BY <1>4, <1>6 DEF With
<1>. HIDE DEF after
<1>8. Adjudicate(after, passed).verdict = "defect"
  BY <1>3, <1>7, VerdictOfEvidence
<1>. QED
  BY <1>5, <1>8 DEF after, worse

\* The use case's copy of the rules, on the points it is given.
LEMMA SameRules ==
    ASSUME NEW points, points # {}, NEW passed
    PROVE  UseCaseAdjudicate(points, passed) = Adjudicate(points, passed)
BY DEF UseCaseAdjudicate, Adjudicate

\* A defect is critical, whichever rule finds it, and with any curve to look at
\* what does not pass is a defect.
LEMMA DefectsAreCritical ==
    ASSUME NEW points, points \subseteq Outcome, NEW passed \in BOOLEAN, points # {},
           Adjudicate(points, passed).verdict # "pass"
    PROVE  Adjudicate(points, passed).severity = "critical"
<1>. DEFINE Pure     == {o \in points : FusionOnly(o)}
            Abnormal == {o \in points : Anomalous(o)}
            adj      == Adjudicate(points, passed)
<1>1. \/ adj \in {VerifierSays, EndpointSays, AllNominal}
      \/ adj = FusionSays(Worst(Pure))
      \/ adj = SignatureSays(Worst(Abnormal))
  BY DEF Adjudicate
<1>2. adj.verdict = "defect"
  BY VerdictOfEvidence
<1>. HIDE DEF adj, Pure, Abnormal
<1>3. adj \in {VerifierSays, EndpointSays, AllNominal} => adj.severity = "critical"
  BY <1>2 DEF VerifierSays, EndpointSays, AllNominal, Adjudication
<1>4. adj = FusionSays(Worst(Pure)) => adj.severity = "critical"
  BY DEF FusionSays, Adjudication
<1>5. adj # SignatureSays(Worst(Abnormal))
  BY <1>2 DEF SignatureSays, Adjudication
<1>6. adj.severity = "critical"
  BY <1>1, <1>3, <1>4, <1>5
<1>. QED
  BY <1>6 DEF adj

(***************************************************************************)
(* The price of a decision.  The rows are sorted by expected cost, and the *)
(* order they were listed in breaks a tie; what the proofs need is that    *)
(* the first of the sorted rows exists and that none is cheaper.           *)
(***************************************************************************)

\* A set of numbers that is not empty has a least one.
LEMMA LeastNumber ==
    ASSUME NEW S, S \subseteq Nat, S # {}
    PROVE  \E n \in S : \A m \in S : n <= m
<1>1. PICK n \in S : \A m \in S : ~(<<m, n>> \in OpToRel(<, Nat))
  BY NatLessThanWellFounded, WFMin
<1>2. \A m \in S : ~(m < n)
  BY <1>1 DEF OpToRel
<1>. QED
  BY <1>2

\* The cost of an action is a natural number, whatever the probability.
LEMMA ExpectedType ==
    ASSUME NEW m \in Economics, NEW a \in Actions(m), NEW p \in 0 .. Certain
    PROVE  Expected(m, a, p) \in Nat
<1>1. CostIfDefective(m, a) \in Nat /\ CostIfFine(m, a) \in Nat
  BY DEF Economics, Actions, Autonomous, NoHalt, CostIfDefective, CostIfFine
<1>. DEFINE cd == CostIfDefective(m, a)
            cf == CostIfFine(m, a)
<1>2. cd \in Nat /\ cf \in Nat /\ p \in Nat /\ Certain - p \in Nat
  BY <1>1 DEF Certain
<1>. HIDE DEF cd, cf
<1>3. p * cd \in Nat /\ (Certain - p) * cf \in Nat
  BY <1>2, Z3
<1>4. p * cd + (Certain - p) * cf \in Nat
  BY <1>3
<1>. QED
  BY <1>4 DEF Expected, cd, cf

LEMMA RankType == \A m \in Economics : \A a \in Actions(m) : Rank(a) \in 1 .. 5
BY DEF Rank, Actions, Autonomous

\* The first of the sorted rows is one of them, and no other is cheaper.
LEMMA CheapestFacts ==
    ASSUME NEW m \in Economics, NEW p \in 0 .. Certain,
           NEW actions, actions \subseteq Actions(m), actions # {}
    PROVE  /\ Cheapest(m, p, actions) \in actions
           /\ \A b \in actions : Expected(m, Cheapest(m, p, actions), p) <= Expected(m, b, p)
<1>. DEFINE E(a) == Expected(m, a, p)
            costs == {E(a) : a \in actions}
<1>1. \A a \in actions : E(a) \in Nat /\ Rank(a) \in Nat
  BY ExpectedType, RankType
<1>. HIDE DEF E
<1>2. PICK least \in costs : \A c \in costs : least <= c
  <2>1. costs \subseteq Nat /\ costs # {}
    BY <1>1
  <2>. HIDE DEF costs
  <2>. QED
    BY <2>1, LeastNumber
<1>. DEFINE first == {a \in actions : E(a) = least}
            ranks == {Rank(a) : a \in first}
<1>3. PICK r \in ranks : \A q \in ranks : r <= q
  <2>1. ranks \subseteq Nat /\ ranks # {}
    BY <1>1, <1>2
  <2>. HIDE DEF ranks
  <2>. QED
    BY <2>1, LeastNumber
<1>4. PICK a \in actions : E(a) = least /\ Rank(a) = r
  BY <1>3
<1>5. ASSUME NEW b \in actions
      PROVE  E(a) < E(b) \/ (E(a) = E(b) /\ Rank(a) <= Rank(b))
  <2>1. least <= E(b) /\ E(b) \in Nat /\ E(a) \in Nat
    BY <1>1, <1>2
  <2>2. CASE E(b) = least
    <3>1. r <= Rank(b)
      BY <1>3, <2>2
    <3>. QED
      BY <1>4, <2>2, <3>1
  <2>. QED
    BY <1>4, <2>1, <2>2
<1>6. \A b \in actions : Before(m, p, a, b)
  BY <1>5 DEF Before, E
<1>7. /\ Cheapest(m, p, actions) \in actions
      /\ \A b \in actions : Before(m, p, Cheapest(m, p, actions), b)
  BY <1>6 DEF Cheapest
<1>. DEFINE c == Cheapest(m, p, actions)
<1>8. \A b \in actions : E(c) < E(b) \/ E(c) = E(b)
  BY <1>7 DEF Before, E
<1>. HIDE DEF c
<1>9. c \in actions /\ \A b \in actions : E(c) <= E(b)
  BY <1>1, <1>7, <1>8 DEF c
<1>. QED
  BY <1>9 DEF c, E

\* Without a reason to ask a human, the cheapest row of all is an autonomous action's.
LEMMA AloneIsCheapest ==
    ASSUME NEW m \in Economics, NEW p \in 0 .. Certain, NEW u, NEW critical,
           Triage(m, p, u, critical).reasons = {}
    PROVE  LET decision == Triage(m, p, u, critical)
           IN  /\ decision.expectedCost = Expected(m, decision.recommended, p)
               /\ \A a \in Actions(m) : decision.expectedCost <= Expected(m, a, p)
<1>. DEFINE alone == Cheapest(m, p, Autonomous)
            any   == Cheapest(m, p, Actions(m))
<1>1. Autonomous # {} /\ Autonomous \subseteq Actions(m) /\ Actions(m) # {}
  BY DEF Autonomous, Actions
<1>2. alone \in Autonomous /\ \A b \in Autonomous : Expected(m, alone, p) <= Expected(m, b, p)
  BY <1>1, CheapestFacts
<1>3. any \in Actions(m) /\ \A b \in Actions(m) : Expected(m, any, p) <= Expected(m, b, p)
  BY <1>1, CheapestFacts
<1>4. /\ Triage(m, p, u, critical).recommended = alone
      /\ Triage(m, p, u, critical).expectedCost = Expected(m, any, p)
      /\ HumanReasons(m, p, u, critical) = {}
  BY DEF Triage
<1>5. any # "halt_line"
  BY <1>4 DEF HumanReasons
<1>. HIDE DEF alone, any
<1>6. any \in Autonomous /\ alone \in Actions(m)
  BY <1>1, <1>2, <1>3, <1>5 DEF Actions
<1>7. Expected(m, any, p) <= Expected(m, alone, p) /\ Expected(m, alone, p) <= Expected(m, any, p)
  BY <1>2, <1>3, <1>6
<1>8. Expected(m, any, p) \in Nat /\ Expected(m, alone, p) \in Nat
  BY <1>3, <1>6, ExpectedType
<1>9. Expected(m, any, p) = Expected(m, alone, p)
  BY <1>7, <1>8
<1>. QED
  BY <1>3, <1>4, <1>9

\* A confidence is a probability, whichever rule applies.
LEMMA WorstFacts ==
    ASSUME NEW points, points \subseteq Outcome, points # {}
    PROVE  Worst(points) \in points
<1>. DEFINE below == {FullScore - o.score : o \in points}
<1>1. \A o \in points : o.score \in 0 .. FullScore
  BY DEF Outcome
<1>2. PICK least \in below : \A n \in below : least <= n
  <2>1. below \subseteq Nat /\ below # {}
    BY <1>1, TriageAssumption
  <2>. HIDE DEF below
  <2>. QED
    BY <2>1, LeastNumber
<1>3. PICK o \in points : least = FullScore - o.score
  BY <1>2
<1>4. ASSUME NEW p \in points
      PROVE  p.score <= o.score
  <2>1. FullScore - o.score <= FullScore - p.score
    BY <1>2, <1>3
  <2>2. p.score \in Int /\ o.score \in Int /\ FullScore \in Int
    BY <1>1, TriageAssumption
  <2>. QED
    BY <2>1, <2>2
<1>. QED
  BY <1>4 DEF Worst

LEMMA ConfidenceType ==
    ASSUME NEW points, points \subseteq Outcome, NEW passed
    PROVE  Adjudicate(points, passed).confidence \in 0 .. Certain
<1>. DEFINE Pure     == {o \in points : FusionOnly(o)}
            Abnormal == {o \in points : Anomalous(o)}
            adj      == Adjudicate(points, passed)
<1>1. \/ adj \in {NoSignals, VerifierSays, EndpointSays, AllNominal}
      \/ Pure # {} /\ adj = FusionSays(Worst(Pure))
      \/ Abnormal # {} /\ adj = SignatureSays(Worst(Abnormal))
  BY DEF Adjudicate
<1>2. ASSUME NEW o \in Outcome
      PROVE  /\ FusionSays(o).confidence \in 0 .. Certain
             /\ SignatureSays(o).confidence \in 0 .. Certain
  <2>. DEFINE s == o.score
  <2>1. s \in 0 .. 100
    BY TriageAssumption DEF Outcome
  <2>2. /\ FusionSays(o).confidence = FusionConfidence(s)
        /\ SignatureSays(o).confidence = 4500 + 20 * s
    BY DEF FusionSays, SignatureSays, Adjudication
  <2>. HIDE DEF s
  <2>3. FusionConfidence(s) \in 0 .. Certain /\ 4500 + 20 * s \in 0 .. Certain
    BY <2>1 DEF FusionConfidence, Least, Certain
  <2>. QED
    BY <2>2, <2>3
<1>3. \A a \in {NoSignals, VerifierSays, EndpointSays, AllNominal} : a.confidence \in 0 .. Certain
  BY DEF NoSignals, VerifierSays, EndpointSays, AllNominal, Adjudication, Certain
<1>4. /\ Pure # {} => Worst(Pure) \in Outcome
      /\ Abnormal # {} => Worst(Abnormal) \in Outcome
  BY WorstFacts
<1>. HIDE DEF Pure, Abnormal, adj
<1>5. adj.confidence \in 0 .. Certain
  BY <1>1, <1>2, <1>3, <1>4
<1>. QED
  BY <1>5 DEF adj

\* A unit that nothing is known of is accepted, and a human is asked.
LEMMA UnknownIsAsked ==
    ASSUME NEW m \in Economics, 2 * Uncertainty * m.escape > OneUnit, NEW critical,
           Triage(m, 0, Uncertainty, critical).recommended = "accept"
    PROVE  Triage(m, 0, Uncertainty, critical).reasons # {}
<1>. DEFINE width == IntervalWidth(m, "accept", 0, Uncertainty)
            base  == Greatest(Expected(m, "accept", 0), OneUnit)
<1>1. m.escape \in Nat
  BY DEF Economics
<1>2. \A p : Expected(m, "accept", p) = p * m.escape + (Certain - p) * 0
  BY DEF Expected, CostIfDefective, CostIfFine
<1>3. Expected(m, "accept", 0) = 0 /\ Expected(m, "accept", Uncertainty) = Uncertainty * m.escape
  BY <1>1, <1>2 DEF Uncertainty, Certain
<1>4. Greatest(0 - Uncertainty, 0) = 0 /\ Least(0 + Uncertainty, Certain) = Uncertainty
  BY DEF Greatest, Least, Uncertainty, Certain
<1>5. width = Uncertainty * m.escape
  BY <1>1, <1>3, <1>4 DEF IntervalWidth, Greatest, Least, Uncertainty
<1>6. base = OneUnit
  BY <1>3, TriageAssumption DEF Greatest
<1>7. 2 * width > base
  BY <1>1, <1>5, <1>6 DEF Uncertainty
<1>8. Cheapest(m, 0, Autonomous) = "accept"
  BY DEF Triage
<1>. HIDE DEF width, base
<1>9. "interval" \in HumanReasons(m, 0, Uncertainty, critical)
  BY <1>7, <1>8 DEF HumanReasons, width, base
<1>. QED
  BY <1>9 DEF Triage

(***************************************************************************)
(* The inductive invariant: what each node left is what it computes from   *)
(* what the nodes before it left, whatever the others did in between.      *)
(***************************************************************************)
InputOK ==
    /\ input.curves \in [Positions -> Curves]
    /\ input.verifiersPassed \in BOOLEAN
    /\ input.market \in Markets

Analysable == {p \in Positions : input.curves[p].kind = "curve"}

QualityTold == "ingestion" \in done => (quality = "rejected" <=> curves = {})

OutcomesScored ==
    "process_sentinel" \in done =>
        "ingestion" \in done /\ outcomes = {OutcomeAt(p) : p \in curves}

Adjudicated ==
    "adjudicator" \in done =>
        /\ "process_sentinel" \in done
        /\ fusion = Adjudicate(outcomes, input.verifiersPassed)

PricedAfter ==
    "cost_triage" \in done =>
        /\ "adjudicator" \in done
        /\ triage = IF fusion.verdict = "pass" THEN Shipped ELSE Priced(input.market, fusion)

VInv == InputOK /\ curves = Analysable /\ QualityTold /\ OutcomesScored /\ Adjudicated /\ PricedAfter

\* A run starts with every curve it is given.
LEMMA InitVInv == Init => VInv
<1>. SUFFICES ASSUME Init PROVE VInv
  OBVIOUS
<1>1. InputOK
  BY DEF Init, InputOK
<1>2. \A p \in Positions : input.curves[p].kind \in {"absent", "curve"}
  BY <1>1 DEF InputOK, Curves
<1>3. curves = Analysable
  BY <1>2 DEF Init, Analysable
<1>4. done = {}
  BY DEF Init
<1>. QED
  BY <1>1, <1>3, <1>4 DEF VInv, QualityTold, OutcomesScored, Adjudicated, PricedAfter

\* Every node keeps the invariant.
LEMMA StepKeepsVInv == VInv /\ [Next]_vars => VInv'
<1>. SUFFICES ASSUME VInv, [Next]_vars PROVE VInv'
  OBVIOUS
<1>1. input' = input
  BY DEF Next, vars, Ingestion, VisionInspector, ProcessSentinel, MesContext, Adjudicator,
         CostTriage, Finished, Runs
<1>2. InputOK' /\ Analysable' = Analysable /\ \A p : OutcomeAt(p)' = OutcomeAt(p)
  BY <1>1 DEF VInv, InputOK, Analysable, OutcomeAt
<1>3. CASE Ingestion
  <2>1. /\ "ingestion" \notin done /\ done' = done \cup {"ingestion"}
        /\ UNCHANGED <<outcomes, fusion, triage>>
    BY <1>3 DEF Ingestion, Runs, slots
  <2>2. curves' = Analysable /\ (quality' = "rejected" <=> curves' = {})
    BY <1>3 DEF Ingestion, VInv, InputOK, Analysable
  <2>3. {"process_sentinel", "adjudicator", "cost_triage"} \cap done' = {}
    BY <2>1 DEF VInv, OutcomesScored, Adjudicated, PricedAfter
  <2>. QED
    BY <1>2, <2>2, <2>3 DEF VInv, QualityTold, OutcomesScored, Adjudicated, PricedAfter
<1>4. CASE VisionInspector \/ MesContext
  <2>1. /\ UNCHANGED <<curves, quality, outcomes, fusion, triage>>
        /\ \A n \in {"ingestion", "process_sentinel", "adjudicator", "cost_triage"} :
             n \in done' <=> n \in done
    BY <1>4 DEF VisionInspector, MesContext, Runs, slots
  <2>. QED
    BY <1>1, <1>2, <2>1 DEF VInv, QualityTold, OutcomesScored, Adjudicated, PricedAfter
<1>5. CASE ProcessSentinel
  <2>1. /\ "process_sentinel" \notin done /\ done' = done \cup {"process_sentinel"}
        /\ "ingestion" \in done
        /\ outcomes' = {OutcomeAt(p) : p \in curves}
        /\ UNCHANGED <<curves, quality, fusion, triage>>
    BY <1>5 DEF ProcessSentinel, Runs
  <2>2. {"adjudicator", "cost_triage"} \cap done' = {}
    BY <2>1 DEF VInv, Adjudicated, PricedAfter
  <2>3. OutcomesScored'
    BY <1>2, <2>1 DEF OutcomesScored
  <2>. QED
    BY <1>2, <2>1, <2>2, <2>3 DEF VInv, QualityTold, Adjudicated, PricedAfter
<1>6. CASE Adjudicator
  <2>1. /\ "adjudicator" \notin done /\ done' = done \cup {"adjudicator"}
        /\ "process_sentinel" \in done
        /\ fusion' = Adjudicate(outcomes, input.verifiersPassed)
        /\ UNCHANGED <<curves, quality, outcomes, triage>>
    BY <1>6 DEF Adjudicator, Runs, Specialists
  <2>2. "cost_triage" \notin done'
    BY <2>1 DEF VInv, PricedAfter
  <2>3. OutcomesScored'
    BY <1>2, <2>1 DEF VInv, OutcomesScored
  <2>. QED
    BY <1>1, <1>2, <2>1, <2>2, <2>3 DEF VInv, QualityTold, Adjudicated, PricedAfter
<1>7. CASE CostTriage
  <2>1. /\ done' = done \cup {"cost_triage"} /\ "adjudicator" \in done
        /\ triage' = IF fusion.verdict = "pass" THEN Shipped ELSE Priced(input.market, fusion)
        /\ UNCHANGED <<curves, quality, outcomes, fusion>>
    BY <1>7 DEF CostTriage, Runs
  <2>2. OutcomesScored'
    BY <1>2, <2>1 DEF VInv, OutcomesScored
  <2>. QED
    BY <1>1, <1>2, <2>1, <2>2 DEF VInv, QualityTold, Adjudicated, PricedAfter
<1>8. CASE Finished \/ UNCHANGED vars
  <2>1. UNCHANGED <<done, curves, quality, outcomes, fusion, triage>>
    BY <1>8 DEF Finished, vars, slots
  <2>. QED
    BY <1>1, <1>2, <2>1 DEF VInv, QualityTold, OutcomesScored, Adjudicated, PricedAfter
<1>. QED
  BY <1>3, <1>4, <1>5, <1>6, <1>7, <1>8 DEF Next

\* The invariant always holds.
LEMMA VerdictInvariant == Spec => []VInv
BY InitVInv, StepKeepsVInv, PTL DEF Spec

\* What is decided is decided on the points that could be analysed.
LEMMA DecidedOnEvidence ==
    ASSUME VInv, Decided
    PROVE  /\ outcomes = {OutcomeAt(p) : p \in Analysable} /\ outcomes \subseteq Outcome
           /\ fusion = Adjudicate(outcomes, input.verifiersPassed)
           /\ triage = IF fusion.verdict = "pass" THEN Shipped ELSE Priced(input.market, fusion)
           /\ quality = "rejected" <=> Analysable = {}
           /\ outcomes = {} <=> Analysable = {}
<1>1. /\ outcomes = {OutcomeAt(p) : p \in Analysable}
      /\ fusion = Adjudicate(outcomes, input.verifiersPassed)
      /\ triage = IF fusion.verdict = "pass" THEN Shipped ELSE Priced(input.market, fusion)
      /\ quality = "rejected" <=> Analysable = {}
  BY DEF VInv, Decided, PricedAfter, Adjudicated, OutcomesScored, QualityTold
<1>2. ASSUME NEW p \in Analysable
      PROVE  OutcomeAt(p) \in Outcome
  <2>1. input.curves[p] \in [kind : {"curve"}, score : Scores, inSpec : BOOLEAN]
    BY DEF VInv, InputOK, Analysable, Curves
  <2>. QED
    BY <2>1, PipelineAssumption DEF OutcomeAt, Outcome, Analysable
<1>. QED
  BY <1>1, <1>2

(***************************************************************************)
(* What an inspection promises, always.                                    *)
(***************************************************************************)

\* Nothing passes without evidence, or against any of it.
THEOREM AlwaysPassesOnlyOnEvidence == Spec => []PassesOnlyOnEvidence
<1>1. VInv => PassesOnlyOnEvidence
  <2>. SUFFICES ASSUME VInv, Decided, fusion.verdict = "pass"
                PROVE  /\ quality # "rejected"
                       /\ input.verifiersPassed
                       /\ \E p \in Positions : input.curves[p].kind = "curve"
                       /\ \A p \in Positions : input.curves[p].kind = "curve" =>
                            input.curves[p].inSpec /\ input.curves[p].score < AnomalyThreshold
    BY DEF PassesOnlyOnEvidence
  <2>1. /\ outcomes # {} /\ input.verifiersPassed
        /\ \A o \in outcomes : ~Suspicious(o)
    BY DecidedOnEvidence, VerdictOfEvidence DEF VInv, InputOK
  <2>2. Analysable # {} /\ quality # "rejected"
    BY <2>1, DecidedOnEvidence
  <2>3. ASSUME NEW p \in Positions, input.curves[p].kind = "curve"
        PROVE  input.curves[p].inSpec /\ input.curves[p].score < AnomalyThreshold
    <3>1. OutcomeAt(p) \in outcomes
      BY <2>3, DecidedOnEvidence DEF Analysable
    <3>2. ~Suspicious(OutcomeAt(p)) /\ OutcomeAt(p) \in Outcome
      BY <2>1, <3>1, DecidedOnEvidence
    <3>3. /\ OutcomeAt(p).score = input.curves[p].score
          /\ OutcomeAt(p).inSpec = input.curves[p].inSpec
      BY DEF OutcomeAt
    <3>4. input.curves[p].score \in Int /\ AnomalyThreshold \in Int
      BY <3>2, <3>3, TriageAssumption DEF Outcome
    <3>5. input.curves[p].inSpec /\ ~(input.curves[p].score >= AnomalyThreshold)
      BY <3>2, <3>3 DEF Suspicious, Anomalous
    <3>. QED
      BY <3>4, <3>5
  <2>. QED
    BY <2>1, <2>2, <2>3 DEF Analysable
<1>. QED
  BY <1>1, VerdictInvariant, PTL

\* The graph and the use case are one decision.
THEOREM AlwaysAgreesWithUseCase == Spec => []AgreesWithUseCase
<1>1. VInv => AgreesWithUseCase
  <2>. SUFFICES ASSUME VInv, Decided
                PROVE  /\ fusion = UseCase.fusion
                       /\ quality # "rejected" => triage = UseCase.triage
    BY DEF AgreesWithUseCase
  <2>1. CASE Analysable = {}
    <3>1. outcomes = {} /\ quality = "rejected"
      BY <2>1, DecidedOnEvidence
    <3>2. fusion = NoSignals
      BY <3>1, DecidedOnEvidence DEF Adjudicate
    <3>3. UseCase.fusion = NoSignals
      BY <2>1 DEF UseCase, Analysable
    <3>. QED
      BY <3>1, <3>2, <3>3
  <2>2. CASE Analysable # {}
    <3>. DEFINE adj == UseCaseAdjudicate(outcomes, input.verifiersPassed)
    <3>1. /\ UseCase.fusion = adj
          /\ UseCase.triage = IF adj.verdict = "pass" THEN Shipped
                              ELSE Priced(input.market, adj)
      <4>1. outcomes = {OutcomeAt(p) : p \in {q \in Positions : input.curves[q].kind = "curve"}}
        BY DecidedOnEvidence DEF Analysable
      <4>. QED
        BY <2>2, <4>1 DEF UseCase, Analysable
    <3>2. adj = fusion
      BY <2>2, SameRules, DecidedOnEvidence
    <3>. QED
      BY <3>1, <3>2, DecidedOnEvidence
  <2>. QED
    BY <2>1, <2>2
<1>. QED
  BY <1>1, VerdictInvariant, PTL

\* No second signal makes a verdict milder.
THEOREM WorseIsAlwaysNoMilder == Spec => []WorseIsNeverMilder
<1>1. VInv => WorseIsNeverMilder
  <2>. SUFFICES ASSUME VInv, Decided, fusion.verdict # "pass",
                       NEW o \in outcomes, NEW s \in Scores, NEW inSpec \in {o.inSpec, FALSE},
                       s >= o.score
                PROVE  Adjudicate((outcomes \ {o})
                                    \cup {[o EXCEPT !.score = s, !.inSpec = inSpec]},
                                  input.verifiersPassed).verdict = fusion.verdict
    BY DEF WorseIsNeverMilder
  <2>. DEFINE passed == input.verifiersPassed
  <2>1. /\ outcomes \subseteq Outcome
        /\ fusion = Adjudicate(outcomes, input.verifiersPassed)
    BY DecidedOnEvidence
  <2>2. s \in 0 .. FullScore /\ passed \in BOOLEAN
    BY PipelineAssumption DEF VInv, InputOK
  <2>3. Adjudicate(outcomes, passed).verdict # "pass"
    BY <2>1
  <2>. HIDE DEF passed
  <2>4. Adjudicate(With(outcomes, o, Worsened(o, s, inSpec)), passed).verdict
          = Adjudicate(outcomes, passed).verdict
    BY <2>1, <2>2, <2>3, WorseKeepsVerdict
  <2>. QED
    BY <2>1, <2>4 DEF passed, With, Worsened
<1>. QED
  BY <1>1, VerdictInvariant, PTL

\* No decision without a human but at its own price.
THEOREM AlwaysAloneAtItsOwnPrice == Spec => []AloneAtItsOwnPrice
<1>1. VInv => AloneAtItsOwnPrice
  <2>. SUFFICES ASSUME VInv, Decided, fusion.verdict # "pass", ~triage.requiresHuman
                PROVE  /\ triage.expectedCost
                            = Expected(input.market, triage.recommended, fusion.confidence)
                       /\ \A a \in Actions(input.market) :
                            triage.expectedCost <= Expected(input.market, a, fusion.confidence)
    BY DEF AloneAtItsOwnPrice
  <2>. DEFINE m        == input.market
              p        == fusion.confidence
              critical == fusion.severity = "critical"
              decision == Triage(m, p, Uncertainty, critical)
  <2>1. triage = Priced(m, fusion) /\ m \in Economics
    BY DecidedOnEvidence, PipelineAssumption DEF VInv, InputOK
  <2>2. p \in 0 .. Certain
    BY DecidedOnEvidence, ConfidenceType
  <2>3. /\ triage.recommended = decision.recommended
        /\ triage.expectedCost = decision.expectedCost
        /\ decision.reasons = {}
    BY <2>1 DEF Priced, TriageOf, NeedsHuman
  <2>. HIDE DEF m, p, critical
  <2>4. /\ decision.expectedCost = Expected(m, decision.recommended, p)
        /\ \A a \in Actions(m) : decision.expectedCost <= Expected(m, a, p)
    BY <2>1, <2>2, <2>3, AloneIsCheapest
  <2>. HIDE DEF decision
  <2>. QED
    BY <2>3, <2>4 DEF m, p
<1>. QED
  BY <1>1, VerdictInvariant, PTL

\* An escaped defect costs enough that the uncertainty about a unit that nothing is
\* known of is worth asking about: twice 0.06 of it is more than one rupee.  The
\* demo plant's escapes cost a thousand times that; where one costs less, triage()
\* has no reason to ask anybody about a unit without a curve, and accepts it.
EscapesMatter == \A m \in Markets : 2 * Uncertainty * m.escape > OneUnit

\* No unit that did not pass is accepted without a human: a defect because it is
\* critical, and a unit without evidence because of the interval around nothing.
THEOREM NeverAcceptsAloneWhereEscapesMatter ==
    ASSUME EscapesMatter
    PROVE  Spec => []NeverAcceptsAlone
<1>1. VInv => NeverAcceptsAlone
  <2>. SUFFICES ASSUME VInv, Decided, fusion.verdict # "pass",
                       triage.recommended = "accept"
                PROVE  triage.requiresHuman
    BY DEF NeverAcceptsAlone
  <2>. DEFINE m == input.market
  <2>1. triage = Priced(m, fusion) /\ m \in Economics /\ 2 * Uncertainty * m.escape > OneUnit
    BY DecidedOnEvidence, PipelineAssumption DEF EscapesMatter, VInv, InputOK
  <2>. HIDE DEF m
  <2>2. TriageOf(m, fusion).recommended = "accept"
    BY <2>1 DEF Priced
  <2>3. TriageOf(m, fusion).reasons # {} => triage.requiresHuman
    BY <2>1 DEF Priced, NeedsHuman
  <2>4. CASE outcomes = {}
    <3>1. fusion.confidence = 0
      BY <2>4, DecidedOnEvidence DEF Adjudicate, NoSignals, Adjudication
    <3>2. TriageOf(m, fusion).reasons # {}
      BY <2>1, <2>2, <3>1, UnknownIsAsked DEF TriageOf
    <3>. QED
      BY <2>3, <3>2
  <2>5. CASE outcomes # {}
    <3>1. fusion.severity = "critical"
      BY <2>5, DecidedOnEvidence, DefectsAreCritical DEF VInv, InputOK
    <3>2. "safety" \in TriageOf(m, fusion).reasons
      BY <2>2, <3>1 DEF TriageOf, Triage, HumanReasons
    <3>. QED
      BY <2>3, <3>2
  <2>. QED
    BY <2>4, <2>5
<1>. QED
  BY <1>1, VerdictInvariant, PTL

\* A set of indices that holds 0, and with each index the next, holds them all.
LEMMA IntervalInduction ==
    ASSUME NEW N \in Nat, NEW good, 0 \in good,
           \A i \in 1 .. N : i - 1 \in good => i \in good
    PROVE  0 .. N \subseteq good
<1>. DEFINE bad == (0 .. N) \ good
<1>. SUFFICES ASSUME bad # {} PROVE FALSE
  OBVIOUS
<1>1. bad \subseteq Nat
  OBVIOUS
<1>2. PICK n \in bad : \A m \in bad : ~(<<m, n>> \in OpToRel(<, Nat))
  <2>. HIDE DEF bad
  <2>. QED
    BY <1>1, NatLessThanWellFounded, WFMin
<1>3. \A m \in bad : ~(m < n)
  BY <1>1, <1>2 DEF OpToRel
<1>4. n \in 1 .. N
  <2>1. n \in 0 .. N /\ n # 0
    BY <1>2
  <2>. QED
    BY <2>1
<1>5. n - 1 \in 0 .. N /\ n - 1 < n
  BY <1>4
<1>6. n - 1 \in good
  BY <1>3, <1>5
<1>. QED
  BY <1>2, <1>4, <1>6

\* f starts at a and takes each step with the function that G has for its index.
Follows(f, N, a, G) == f[0] = a /\ \A i \in 1 .. N : f[i] = G[i][f[i - 1]]

\* A value for 0 and a function for each later index determine a function.
LEMMA StepsDefine ==
    ASSUME NEW N \in Nat, NEW S, NEW a \in S, NEW G \in [1 .. N -> [S -> S]]
    PROVE  \E f \in [0 .. N -> S] : Follows(f, N, a, G)
<1>. DEFINE Upto(k, f) == Follows(f, k, a, G)
            good == {k \in 0 .. N : \E f \in [0 .. k -> S] : Upto(k, f)}
<1>1. 0 \in good
  <2>. DEFINE f == [k \in 0 .. 0 |-> a]
  <2>1. f \in [0 .. 0 -> S] /\ f[0] = a
    OBVIOUS
  <2>2. \A i \in 1 .. 0 : FALSE
    OBVIOUS
  <2>. HIDE DEF f
  <2>3. Upto(0, f)
    BY <2>1, <2>2 DEF Follows
  <2>. QED
    BY <2>1, <2>3
<1>2. ASSUME NEW i \in 1 .. N, i - 1 \in good
      PROVE  i \in good
  <2>1. PICK f \in [0 .. (i - 1) -> S] : Upto(i - 1, f)
    BY <1>2
  <2>. DEFINE g == [k \in 0 .. i |-> IF k = i THEN G[i][f[i - 1]] ELSE f[k]]
  <2>2. f[i - 1] \in S /\ G[i] \in [S -> S]
    BY <2>1
  <2>3. g \in [0 .. i -> S]
    BY <2>1, <2>2
  <2>4. g[0] = a
    BY <2>1 DEF Follows
  <2>5. ASSUME NEW k \in 1 .. i
        PROVE  g[k] = G[k][g[k - 1]]
    BY <2>1 DEF Follows
  <2>. HIDE DEF g
  <2>6. Upto(i, g)
    BY <2>4, <2>5 DEF Follows
  <2>. QED
    BY <2>3, <2>6
<1>3. N \in good
  <2>. HIDE DEF good
  <2>1. 0 .. N \subseteq good
    BY <1>1, <1>2, IntervalInduction
  <2>. QED
    BY <2>1
<1>. QED
  BY <1>3

(***************************************************************************)
(* What is left of the full score after factors that can only lower it.    *)
(***************************************************************************)

\* One factor, x being a weight times a strength.
Lowered(c, x) == (c * (Whole - x)) \div Whole

Weighed(d) == d.weight * Strength(d)

FeatureNames == {"knee", "slope", "residual", "reversals", "rundown", "ratio"}

DeviationType ==
    [feature : FeatureNames, excess : Nat, tolerance : Nat \ {0}, weight : 0 .. 100]

\* The full score is a whole number of tenths.
LEMMA Scales == Full \in Nat \ {0} /\ Whole \in Nat \ {0} /\ Whole = 10 * Full
BY SMT DEF Full, Whole

\* Rounding down keeps the order.
LEMMA DivMonotone ==
    ASSUME NEW a \in Int, NEW b \in Int, NEW d \in Nat \ {0}, a <= b
    PROVE  a \div d <= b \div d
<1>. DEFINE q == a \div d
            p == b \div d
<1>1. q \in Int /\ p \in Int /\ d * q <= a /\ a < d * q + d /\ d * p <= b /\ b < d * p + d
  OBVIOUS
<1>. HIDE DEF p, q
<1>2. SUFFICES ASSUME p < q PROVE FALSE
  BY <1>1 DEF p, q
<1>3. d * (p + 1) <= d * q
  BY <1>1, <1>2
<1>4. d * p + d = d * (p + 1)
  BY <1>1
<1>. QED
  BY <1>1, <1>3, <1>4

\* What rounding down loses is less than one.
LEMMA DivBounds ==
    ASSUME NEW a \in Int, NEW d \in Nat \ {0}
    PROVE  a \div d \in Int /\ d * (a \div d) <= a /\ a < d * (a \div d) + d
OBVIOUS

\* A factor never raises what is left, and alone leaves at most its complement.
LEMMA LoweredBounds ==
    ASSUME NEW c \in 0 .. Full, NEW x \in 0 .. Whole
    PROVE  /\ Lowered(c, x) \in 0 .. Full
           /\ Lowered(c, x) <= c
           /\ 10 * Lowered(c, x) <= Whole - x
           /\ Lowered(c, 0) = c
<1>. DEFINE y == Whole - x
            q == (c * y) \div Whole
<1>1. y \in Nat /\ y <= Whole /\ c \in Nat /\ c <= Full
  BY Scales
<1>. HIDE DEF y
<1>2. c * y \in Nat /\ q \in Int /\ Whole * q <= c * y /\ c * y < Whole * q + Whole
  <2>. DEFINE z == c * y
  <2>1. z \in Nat
    BY <1>1
  <2>. HIDE DEF z
  <2>2. Whole \in Nat \ {0} /\ z \in Int
    BY <2>1, Scales
  <2>3. z \div Whole \in Int /\ Whole * (z \div Whole) <= z /\ z < Whole * (z \div Whole) + Whole
    BY <2>2, DivBounds
  <2>. QED
    BY <2>1, <2>3 DEF z
<1>3. c * y <= c * Whole /\ c * y <= Full * y
  BY <1>1, Scales
<1>. HIDE DEF q
<1>4. q >= 0
  <2>. SUFFICES ASSUME q <= -1 PROVE FALSE
    BY <1>2
  <2>1. Whole * (q + 1) <= 0
    BY <1>2, Scales
  <2>2. Whole * (q + 1) = Whole * q + Whole
    BY <1>2, Scales
  <2>. QED
    BY <1>1, <1>2, <2>1, <2>2, Scales
<1>5. q <= c
  <2>. SUFFICES ASSUME q >= c + 1 PROVE FALSE
    BY <1>1, <1>2
  <2>1. Whole * q >= Whole * (c + 1)
    BY <1>1, <1>2, Scales
  <2>. QED
    BY <1>1, <1>2, <1>3, <2>1, Scales
<1>6. 10 * q <= y
  <2>. SUFFICES ASSUME 10 * q >= y + 1 PROVE FALSE
    BY <1>1, <1>2
  <2>1. Full * (10 * q) >= Full * (y + 1)
    BY <1>1, <1>2, Scales
  <2>2. Full * (10 * q) = Whole * q
    BY <1>2, Scales
  <2>. QED
    BY <1>1, <1>2, <1>3, <2>1, <2>2, Scales
<1>7. Lowered(c, 0) = c
  <2>1. Whole - 0 = Whole /\ c * Whole \in Nat
    BY <1>1, Scales
  <2>. DEFINE p == (c * Whole) \div Whole
  <2>2. p \in Int /\ Whole * p <= c * Whole /\ c * Whole < Whole * p + Whole
    BY <2>1, Scales, DivBounds
  <2>. HIDE DEF p
  <2>3. p <= c
    <3>. SUFFICES ASSUME p >= c + 1 PROVE FALSE
      BY <1>1, <2>2
    <3>1. Whole * p >= Whole * (c + 1)
      BY <1>1, <2>2, Scales
    <3>. QED
      BY <1>1, <2>2, <3>1, Scales
  <2>4. p >= c
    <3>. SUFFICES ASSUME p + 1 <= c PROVE FALSE
      BY <1>1, <2>2
    <3>1. Whole * (p + 1) <= Whole * c
      BY <1>1, <2>2, Scales
    <3>. QED
      BY <1>1, <2>2, <3>1, Scales
  <2>. QED
    BY <1>1, <2>1, <2>2, <2>3, <2>4 DEF Lowered, p
<1>. QED
  BY <1>1, <1>2, <1>4, <1>5, <1>6, <1>7, Scales DEF Lowered, q, y

\* More left before, or less of a factor, is more left after.
LEMMA LoweredMonotone ==
    ASSUME NEW c \in 0 .. Full, NEW d \in 0 .. Full, c <= d,
           NEW x \in 0 .. Whole, NEW y \in 0 .. Whole, y <= x
    PROVE  Lowered(c, x) <= Lowered(d, y)
<1>. DEFINE u == Whole - x
            v == Whole - y
<1>1. u \in Nat /\ v \in Nat /\ u <= v /\ c \in Nat /\ d \in Nat
  BY Scales
<1>. HIDE DEF u, v
<1>2. c * u <= d * u /\ d * u <= d * v /\ c * u \in Nat /\ d * v \in Nat /\ d * u \in Nat
  BY <1>1
<1>3. (c * u) \div Whole <= (d * v) \div Whole
  BY <1>2, Scales, DivMonotone
<1>. QED
  BY <1>3 DEF Lowered, u, v

\* Each factor is applied to what the one before has left.
Chain(f, w, N) == \A i \in 1 .. N : f[i] = Lowered(f[i - 1], w[i])

\* f is what is left after each of the factors w.
Lowers(f, w, N) ==
    /\ f \in [0 .. N -> 0 .. Full]
    /\ f[0] = Full
    /\ Chain(f, w, N)

\* The chain of factors is defined.
LEMMA LowersExists ==
    ASSUME NEW N \in Nat, NEW w \in [1 .. N -> 0 .. Whole]
    PROVE  \E f : Lowers(f, w, N)
<1>. DEFINE S == 0 .. Full
            G == [i \in 1 .. N |-> [c \in S |-> Lowered(c, w[i])]]
<1>1. G \in [1 .. N -> [S -> S]] /\ Full \in S
  <2>1. \A i \in 1 .. N : \A c \in S : Lowered(c, w[i]) \in S
    BY LoweredBounds
  <2>2. Full \in S
    BY Scales
  <2>. HIDE DEF S
  <2>. QED
    BY <2>1, <2>2
<1>2. PICK f \in [0 .. N -> S] : Follows(f, N, Full, G)
  <2>. HIDE DEF G, S
  <2>. QED
    BY <1>1, StepsDefine
<1>3. \A i \in 1 .. N : f[i - 1] \in S
  BY <1>2
<1>4. \A i \in 1 .. N : f[i] = Lowered(f[i - 1], w[i])
  <2>. HIDE DEF S
  <2>. QED
    BY <1>2, <1>3 DEF Follows
<1>. QED
  BY <1>2, <1>4 DEF Follows, Lowers, Chain

\* The factors determine what is left.
LEMMA LowersUnique ==
    ASSUME NEW N \in Nat, NEW w, NEW f, NEW g, f[0] = g[0],
           Chain(f, w, N), Chain(g, w, N)
    PROVE  \A i \in 0 .. N : f[i] = g[i]
<1>. DEFINE good == {k \in 0 .. N : f[k] = g[k]}
<1>1. 0 \in good
  OBVIOUS
<1>2. \A i \in 1 .. N : i - 1 \in good => i \in good
  BY DEF Chain
<1>3. 0 .. N \subseteq good
  <2>. HIDE DEF good
  <2>. QED
    BY <1>1, <1>2, IntervalInduction
<1>. QED
  BY <1>3

\* Stronger factors leave less.
LEMMA LowersMonotone ==
    ASSUME NEW N \in Nat, NEW w \in [1 .. N -> 0 .. Whole], NEW v \in [1 .. N -> 0 .. Whole],
           \A i \in 1 .. N : v[i] <= w[i], NEW f, NEW g, Lowers(f, w, N), Lowers(g, v, N)
    PROVE  f[N] <= g[N]
<1>. DEFINE good == {k \in 0 .. N : f[k] <= g[k]}
<1>1. 0 \in good
  BY DEF Lowers, Full
<1>2. ASSUME NEW i \in 1 .. N, i - 1 \in good
      PROVE  i \in good
  <2>1. f[i - 1] \in 0 .. Full /\ g[i - 1] \in 0 .. Full /\ f[i - 1] <= g[i - 1]
    BY <1>2 DEF Lowers
  <2>2. Lowered(f[i - 1], w[i]) <= Lowered(g[i - 1], v[i])
    BY <2>1, LoweredMonotone
  <2>. QED
    BY <2>2 DEF Lowers, Chain
<1>3. 0 .. N \subseteq good
  <2>. HIDE DEF good
  <2>. QED
    BY <1>1, <1>2, IntervalInduction
<1>. QED
  BY <1>3

\* Each factor alone bounds what is left in the end.
LEMMA LowersEach ==
    ASSUME NEW N \in Nat, NEW w \in [1 .. N -> 0 .. Whole], NEW f, Lowers(f, w, N),
           NEW j \in 1 .. N
    PROVE  10 * f[N] <= Whole - w[j]
<1>. DEFINE good == {k \in 0 .. N : k >= j => 10 * f[k] <= Whole - w[j]}
<1>1. 0 \in good
  OBVIOUS
<1>2. ASSUME NEW i \in 1 .. N, i - 1 \in good
      PROVE  i \in good
  <2>1. f[i - 1] \in 0 .. Full /\ w[i] \in 0 .. Whole /\ f[i] = Lowered(f[i - 1], w[i])
    BY DEF Lowers, Chain
  <2>2. f[i] \in Nat /\ f[i] <= f[i - 1] /\ 10 * f[i] <= Whole - w[i]
    BY <2>1, LoweredBounds
  <2>3. CASE i = j
    BY <2>2, <2>3
  <2>4. CASE i # j
    <3>1. i >= j => i - 1 >= j
      BY <2>4
    <3>2. i >= j => 10 * f[i - 1] <= Whole - w[j]
      BY <1>2, <3>1
    <3>3. w[j] \in Int /\ Whole \in Int /\ f[i - 1] \in Int /\ f[i] \in Int
      BY <2>1, <2>2, Scales
    <3>4. i >= j => 10 * f[i] <= Whole - w[j]
      BY <2>2, <3>2, <3>3
    <3>. QED
      BY <3>4
  <2>. QED
    BY <2>3, <2>4
<1>3. 0 .. N \subseteq good
  <2>. HIDE DEF good
  <2>. QED
    BY <1>1, <1>2, IntervalInduction
<1>. QED
  BY <1>3

\* A strength is at most one, in thousandths, so a part weighs at most its weight.
LEMMA StrengthBounds ==
    ASSUME NEW d \in DeviationType
    PROVE  Strength(d) \in 0 .. 1000 /\ Weighed(d) \in 0 .. Whole
<1>. DEFINE a == 2000 * d.excess
            t == 3 * d.tolerance
<1>1. a \in Nat /\ t \in Nat \ {0} /\ d.weight \in 0 .. 100
  BY DEF DeviationType
<1>. HIDE DEF a, t
<1>2. a \div t \in Nat
  BY <1>1
<1>3. Strength(d) \in 0 .. 1000
  BY <1>2 DEF Strength, Smaller, a, t
<1>4. d.weight * Strength(d) \in 0 .. Whole
  <2>. DEFINE u == d.weight
              v == Strength(d)
  <2>1. u \in Nat /\ u <= 100 /\ v \in Nat /\ v <= 1000
    BY <1>1, <1>3
  <2>. HIDE DEF u, v
  <2>2. u * v \in Nat /\ u * v <= 100 * v
    BY <2>1
  <2>3. u * v <= Whole
    BY <2>1, <2>2, SMT DEF Whole, Full
  <2>. QED
    BY <2>2, <2>3, Scales DEF u, v
<1>. QED
  BY <1>3, <1>4 DEF Weighed

\* The noisy-OR of the torque analyser is such a chain.
LEMMA NoisyOrLowers ==
    ASSUME NEW ds \in Seq(DeviationType)
    PROVE  /\ [i \in 1 .. Len(ds) |-> Weighed(ds[i])] \in [1 .. Len(ds) -> 0 .. Whole]
           /\ \E f : /\ Lowers(f, [i \in 1 .. Len(ds) |-> Weighed(ds[i])], Len(ds))
                     /\ NoisyOr(ds) = Full - f[Len(ds)]
<1>. DEFINE N == Len(ds)
            w == [i \in 1 .. N |-> Weighed(ds[i])]
            Def(f) == f = [i \in 0 .. N |->
                             IF i = 0 THEN Full
                             ELSE (f[i - 1] * (Whole - ds[i].weight * Strength(ds[i])))
                                    \div Whole]
            chosen == CHOOSE f : Def(f)
<1>1. N \in Nat /\ w \in [1 .. N -> 0 .. Whole]
  BY LenProperties, ElementOfSeq, StrengthBounds
<1>2. PICK f : Lowers(f, w, N)
  <2>. HIDE DEF w, N
  <2>. QED
    BY <1>1, LowersExists
<1>3. Def(f)
  <2>1. f = [i \in 0 .. N |-> f[i]]
    BY <1>2 DEF Lowers
  <2>2. f[0] = Full
    BY <1>2 DEF Lowers
  <2>3. \A i \in 1 .. N :
          f[i] = (f[i - 1] * (Whole - ds[i].weight * Strength(ds[i]))) \div Whole
    BY <1>2 DEF Lowers, Chain, Lowered, Weighed
  <2>4. \A i \in 0 .. N : i = 0 \/ i \in 1 .. N
    BY <1>1
  <2>. HIDE DEF N
  <2>. QED
    BY <2>1, <2>2, <2>3, <2>4
<1>4. Def(chosen)
  BY <1>3
<1>5. NoisyOr(ds) = Full - chosen[N]
  BY DEF NoisyOr
<1>. HIDE DEF chosen
<1>6. \A i \in 1 .. N : chosen[i] = Lowered(chosen[i - 1], w[i])
  BY <1>1, <1>4 DEF Lowered, Weighed
<1>7. chosen[0] = f[0]
  BY <1>1, <1>2, <1>4 DEF Lowers
<1>8. chosen[N] = f[N]
  <2>. HIDE DEF w, N
  <2>1. Chain(f, w, N) /\ Chain(chosen, w, N)
    BY <1>2, <1>6 DEF Lowers, Chain
  <2>2. \A i \in 0 .. N : chosen[i] = f[i]
    BY <1>1, <2>1, <1>7, LowersUnique
  <2>. QED
    BY <1>1, <2>2
<1>. QED
  BY <1>1, <1>2, <1>5, <1>8

(***************************************************************************)
(* The deviations of a run, one part for each feature that is scored.      *)
(***************************************************************************)
AtMostOne == {<<>>} \cup {<<d>> : d \in DeviationType}

Factor(part) == IF part = <<>> THEN 0 ELSE Weighed(part[1])

Left(ds) == Full - NoisyOr(ds)

\* A part is a sequence of deviations, and a factor of a chain.
LEMMA PartType ==
    ASSUME NEW part \in AtMostOne
    PROVE  part \in Seq(DeviationType) /\ Factor(part) \in 0 .. Whole
<1>1. CASE part = <<>>
  BY <1>1, Scales DEF Factor
<1>2. CASE part \in {<<d>> : d \in DeviationType}
  <2>1. PICK d \in DeviationType : part = <<d>>
    BY <1>2
  <2>2. part # <<>> /\ part[1] = d /\ part \in Seq(DeviationType)
    BY <2>1
  <2>. QED
    BY <2>2, StrengthBounds DEF Factor
<1>. QED
  BY <1>1, <1>2 DEF AtMostOne

\* No deviation leaves the full score.
LEMMA LeftEmpty == Left(<<>>) = Full
<1>1. <<>> \in Seq(DeviationType) /\ Len(<<>>) = 0
  OBVIOUS
<1>2. PICK f : f[0] = Full /\ NoisyOr(<<>>) = Full - f[0]
  BY <1>1, NoisyOrLowers DEF Lowers
<1>. QED
  BY <1>2, Scales DEF Left

\* Every deviation alone bounds the score from below.
LEMMA LeftBounds ==
    ASSUME NEW ds \in Seq(DeviationType)
    PROVE  /\ Left(ds) \in 0 .. Full /\ NoisyOr(ds) = Full - Left(ds)
           /\ \A j \in DOMAIN ds : 10 * NoisyOr(ds) >= Weighed(ds[j])
<1>. DEFINE N == Len(ds)
            w == [i \in 1 .. N |-> Weighed(ds[i])]
<1>1. N \in Nat /\ DOMAIN ds = 1 .. N
  BY LenProperties
<1>2. w \in [1 .. N -> 0 .. Whole] /\ \E f : Lowers(f, w, N) /\ NoisyOr(ds) = Full - f[N]
  BY NoisyOrLowers
<1>3. \A j \in 1 .. N : w[j] = Weighed(ds[j])
  OBVIOUS
<1>. HIDE DEF w, N
<1>4. PICK f : Lowers(f, w, N) /\ NoisyOr(ds) = Full - f[N]
  BY <1>2
<1>5. f[N] \in 0 .. Full
  BY <1>1, <1>4 DEF Lowers
<1>6. \A j \in 1 .. N : 10 * f[N] <= Whole - w[j] /\ w[j] \in 0 .. Whole
  BY <1>1, <1>2, <1>4, LowersEach
<1>7. \A j \in 1 .. N : 10 * NoisyOr(ds) >= w[j]
  BY <1>4, <1>5, <1>6, Scales
<1>. QED
  BY <1>1, <1>3, <1>4, <1>5, <1>7, Scales DEF Left

\* One part more is one factor more.
LEMMA LeftConcat ==
    ASSUME NEW ds \in Seq(DeviationType), NEW part \in AtMostOne
    PROVE  /\ ds \o part \in Seq(DeviationType)
           /\ Left(ds \o part) = Lowered(Left(ds), Factor(part))
<1>1. CASE part = <<>>
  <2>1. ds \o part = ds /\ Factor(part) = 0
    BY <1>1, ConcatEmptySeq DEF Factor
  <2>. QED
    BY <2>1, LeftBounds, LoweredBounds, Scales
<1>2. CASE part \in {<<d>> : d \in DeviationType}
  <2>1. PICK d \in DeviationType : part = <<d>>
    BY <1>2
  <2>. DEFINE more == Append(ds, d)
              N    == Len(ds)
              w    == [i \in 1 .. N |-> Weighed(ds[i])]
              v    == [i \in 1 .. (N + 1) |-> Weighed(more[i])]
  <2>2. ds \o part = more /\ part[1] = d /\ part # <<>>
    BY <2>1, AppendIsConcat
  <2>3. /\ more \in Seq(DeviationType) /\ Len(more) = N + 1 /\ N \in Nat
        /\ \A i \in 1 .. N : more[i] = ds[i]
        /\ more[N + 1] = d
    BY AppendProperties, LenProperties
  <2>4. \E f : Lowers(f, w, N) /\ NoisyOr(ds) = Full - f[N]
    BY NoisyOrLowers
  <2>5. \E f : Lowers(f, v, N + 1) /\ NoisyOr(more) = Full - f[N + 1]
    <3>. HIDE DEF more
    <3>1. Len(more) = N + 1 /\ more \in Seq(DeviationType)
      BY <2>3
    <3>. QED
      BY <3>1, NoisyOrLowers
  <2>6. (\A i \in 1 .. N : v[i] = w[i]) /\ v[N + 1] = Weighed(d)
    <3>. HIDE DEF more
    <3>1. \A i \in 1 .. N : i \in 1 .. (N + 1) /\ more[i] = ds[i]
      BY <2>3
    <3>2. N + 1 \in 1 .. (N + 1) /\ more[N + 1] = d
      BY <2>3
    <3>. QED
      BY <3>1, <3>2
  <2>. HIDE DEF v, w, N, more
  <2>7. PICK f : Lowers(f, w, N) /\ NoisyOr(ds) = Full - f[N]
    BY <2>4
  <2>8. PICK g : Lowers(g, v, N + 1) /\ NoisyOr(more) = Full - g[N + 1]
    BY <2>5
  <2>9. Chain(g, w, N)
    <3>1. \A i \in 1 .. N : i \in 1 .. (N + 1)
      BY <2>3
    <3>. QED
      BY <2>6, <2>8, <3>1 DEF Lowers, Chain
  <2>10. g[N] = f[N]
    <3>1. Chain(f, w, N) /\ f[0] = g[0]
      BY <2>7, <2>8 DEF Lowers
    <3>2. \A i \in 0 .. N : f[i] = g[i]
      <4>1. N \in Nat
        BY <2>3
      <4>. QED
        BY <4>1, <2>9, <3>1, LowersUnique
    <3>. QED
      BY <2>3, <3>2
  <2>11. g[N + 1] = Lowered(g[N], Weighed(d))
    <3>1. N + 1 \in 1 .. (N + 1) /\ (N + 1) - 1 = N
      BY <2>3
    <3>2. Chain(g, v, N + 1)
      BY <2>8 DEF Lowers
    <3>3. g[N + 1] = Lowered(g[(N + 1) - 1], v[N + 1])
      BY <3>1, <3>2 DEF Chain
    <3>. QED
      BY <2>6, <3>1, <3>3
  <2>12. g[N + 1] \in 0 .. Full /\ f[N] \in 0 .. Full
    BY <2>3, <2>7, <2>8 DEF Lowers
  <2>13. Left(more) = g[N + 1] /\ Left(ds) = f[N]
    BY <2>7, <2>8, <2>12, Scales DEF Left
  <2>. QED
    BY <2>2, <2>3, <2>10, <2>11, <2>13 DEF Factor
<1>. QED
  BY <1>1, <1>2 DEF AtMostOne

\* Where less was left before and the part weighs more, less is left after.
LEMMA LeftMonotone ==
    ASSUME NEW ds \in Seq(DeviationType), NEW es \in Seq(DeviationType), Left(ds) <= Left(es),
           NEW p \in AtMostOne, NEW q \in AtMostOne, Factor(q) <= Factor(p)
    PROVE  /\ ds \o p \in Seq(DeviationType) /\ es \o q \in Seq(DeviationType)
           /\ Left(ds \o p) <= Left(es \o q)
<1>1. Left(ds) \in 0 .. Full /\ Left(es) \in 0 .. Full
  BY LeftBounds
<1>2. Factor(p) \in 0 .. Whole /\ Factor(q) \in 0 .. Whole
  BY PartType
<1>3. Lowered(Left(ds), Factor(p)) <= Lowered(Left(es), Factor(q))
  BY <1>1, <1>2, LoweredMonotone
<1>. QED
  BY <1>3, LeftConcat

\* How far a feature is past the edge of its tolerance, on the side that counts.
Excess(observed, expected, tolerance, direction) ==
    IF direction > 0 THEN observed - expected - tolerance ELSE expected - observed - tolerance

Sides == {1, -1}

\* _deviation() reports the excess where there is one, whichever side counts.
LEMMA DeviationIs ==
    ASSUME NEW feature \in FeatureNames, NEW observed \in Int, NEW expected \in Int,
           NEW tolerance \in Nat \ {0}, NEW weight \in 0 .. 100, NEW direction \in Sides
    PROVE  LET x == Excess(observed, expected, tolerance, direction)
           IN  /\ x \in Int
               /\ Deviation(feature, observed, expected, tolerance, weight, direction)
                    = IF x > 0 THEN Deviates(feature, x, tolerance, weight) ELSE <<>>
<1>. DEFINE x     == Excess(observed, expected, tolerance, direction)
            delta == observed - expected
            near  == \/ tolerance <= 0
                     \/ direction > 0 /\ delta <= 0
                     \/ direction < 0 /\ delta >= 0
                     \/ Magnitude(delta) <= tolerance
            m     == Magnitude(delta)
<1>1. delta \in Int /\ direction \in {1, -1}
  BY DEF Sides
<1>2. x = IF direction > 0 THEN delta - tolerance ELSE -delta - tolerance
  BY DEF Excess
<1>3. Deviation(feature, observed, expected, tolerance, weight, direction)
        = IF near THEN <<>> ELSE Deviates(feature, m - tolerance, tolerance, weight)
  BY DEF Deviation
<1>. HIDE DEF x, delta
<1>4. m = IF delta >= -delta THEN delta ELSE -delta
  BY DEF Magnitude, Larger
<1>5. x \in Int /\ (near <=> ~(x > 0)) /\ (x > 0 => m - tolerance = x)
  <2>. HIDE DEF m
  <2>1. near <=> \/ tolerance <= 0
                 \/ direction > 0 /\ delta <= 0
                 \/ direction < 0 /\ delta >= 0
                 \/ m <= tolerance
    BY DEF m
  <2>. HIDE DEF near
  <2>2. CASE direction = 1
    BY <1>1, <1>2, <1>4, <2>1, <2>2
  <2>3. CASE direction = -1
    BY <1>1, <1>2, <1>4, <2>1, <2>3
  <2>. QED
    BY <1>1, <2>2, <2>3
<1>. HIDE DEF m, near
<1>6. CASE x > 0
  BY <1>3, <1>5, <1>6 DEF x
<1>7. CASE ~(x > 0)
  BY <1>3, <1>5, <1>7 DEF x
<1>. QED
  BY <1>6, <1>7

\* What one part of an excess x weighs.
Pull(x, tolerance, weight) ==
    IF x > 0 THEN weight * Smaller((2000 * x) \div (3 * tolerance), 1000) ELSE 0

\* What is reported weighs what its excess does.
LEMMA DeviatesForce ==
    ASSUME NEW feature \in FeatureNames, NEW x \in Int, NEW tolerance \in Nat \ {0},
           NEW weight \in 0 .. 100
    PROVE  LET part == IF x > 0 THEN Deviates(feature, x, tolerance, weight) ELSE <<>>
           IN  part \in AtMostOne /\ Factor(part) = Pull(x, tolerance, weight)
<1>1. CASE x > 0
  <2>. DEFINE d == [feature |-> feature, excess |-> x, tolerance |-> tolerance,
                    weight |-> weight]
  <2>1. d \in DeviationType
    BY <1>1 DEF DeviationType
  <2>2. Deviates(feature, x, tolerance, weight) = <<d>>
    BY DEF Deviates
  <2>3. <<d>> # <<>> /\ <<d>>[1] = d
    OBVIOUS
  <2>4. Weighed(d) = Pull(x, tolerance, weight)
    BY <1>1 DEF Weighed, Strength, Pull
  <2>. HIDE DEF d
  <2>. QED
    BY <1>1, <2>1, <2>2, <2>3, <2>4 DEF AtMostOne, Factor
<1>2. CASE ~(x > 0)
  BY <1>2 DEF AtMostOne, Factor, Pull
<1>. QED
  BY <1>1, <1>2

\* A smaller excess weighs no more.
LEMMA PullMonotone ==
    ASSUME NEW x \in Int, NEW y \in Int, y <= x, NEW tolerance \in Nat \ {0},
           NEW weight \in 0 .. 100
    PROVE  Pull(y, tolerance, weight) <= Pull(x, tolerance, weight)
<1>. DEFINE s(z) == (2000 * z) \div (3 * tolerance)
            a == Smaller(s(x), 1000)
            b == Smaller(s(y), 1000)
<1>1. /\ 3 * tolerance \in Nat \ {0} /\ weight \in Nat
      /\ \A z \in Int : 2000 * z \in Int /\ s(z) \in Int /\ (z > 0 => s(z) >= 0)
  OBVIOUS
<1>2. CASE y > 0
  <2>1. s(y) <= s(x)
    <3>1. 2000 * y <= 2000 * x
      OBVIOUS
    <3>. QED
      BY <1>1, <3>1, DivMonotone
  <2>2. a \in Nat /\ b \in Nat /\ b <= a
    <3>1. s(x) \in Nat /\ s(y) \in Nat
      BY <1>1, <1>2
    <3>. HIDE DEF s
    <3>. QED
      BY <2>1, <3>1 DEF Smaller
  <2>3. x > 0
    BY <1>2
  <2>. HIDE DEF a, b
  <2>4. weight * b <= weight * a
    BY <1>1, <2>2
  <2>. QED
    BY <1>2, <2>3, <2>4 DEF Pull, a, b
<1>3. CASE ~(y > 0)
  <2>1. x > 0 => a \in Nat
    <3>1. x > 0 => s(x) \in Nat
      BY <1>1
    <3>. HIDE DEF s
    <3>. QED
      BY <3>1 DEF Smaller
  <2>. HIDE DEF a
  <2>2. x > 0 => weight * a \in Nat
    BY <1>1, <2>1
  <2>. QED
    BY <1>3, <2>2 DEF Pull, a
<1>. QED
  BY <1>2, <1>3

(***************************************************************************)
(* A feature further on the side that counts leaves no more.               *)
(***************************************************************************)
BaselineType ==
    [knee : Int, kneeTolerance : Nat \ {0}, slope : Int, slopeTolerance : Nat \ {0},
     residualMax : Int, rundownMax : Int, reversalsMax : Nat \ {0}]

\* No feature of f is further on the side that counts than the same of g.
NoMilder(f, g) ==
    /\ g.knee <= f.knee /\ f.slope <= g.slope /\ g.residual <= f.residual
    /\ g.reversals <= f.reversals /\ g.rundown <= f.rundown /\ f.ratio <= g.ratio

\* So a feature's part weighs what its excess over the tolerance does.
LEMMA DeviationPart ==
    ASSUME NEW feature \in FeatureNames, NEW observed \in Int, NEW expected \in Int,
           NEW tolerance \in Nat \ {0}, NEW weight \in 0 .. 100, NEW direction \in Sides
    PROVE  /\ Deviation(feature, observed, expected, tolerance, weight, direction) \in AtMostOne
           /\ Factor(Deviation(feature, observed, expected, tolerance, weight, direction))
                = Pull(Excess(observed, expected, tolerance, direction), tolerance, weight)
<1>. DEFINE x == Excess(observed, expected, tolerance, direction)
<1>1. /\ x \in Int
      /\ Deviation(feature, observed, expected, tolerance, weight, direction)
           = IF x > 0 THEN Deviates(feature, x, tolerance, weight) ELSE <<>>
  BY DeviationIs
<1>. HIDE DEF x
<1>. QED
  BY <1>1, DeviatesForce DEF x

\* a lies further than b on the side that counts, or as far.
Further(a, b, direction) ==
    \/ direction = 1 /\ b <= a
    \/ direction = -1 /\ a <= b

\* What a feature is compared with, and what it counts.
Norm(feature, expected, tolerance, weight, direction) ==
    [feature |-> feature, expected |-> expected, tolerance |-> tolerance, weight |-> weight,
     direction |-> direction]

NormType ==
    [feature : FeatureNames, expected : Int, tolerance : Nat \ {0}, weight : 0 .. 100,
     direction : Sides]

Departure(r, observed) ==
    Deviation(r.feature, observed, r.expected, r.tolerance, r.weight, r.direction)

Distance(r, observed) == Excess(observed, r.expected, r.tolerance, r.direction)

\* The same in terms of the feature's norm.
LEMMA DepartureFactor ==
    ASSUME NEW r \in NormType, NEW o \in Int
    PROVE  /\ Departure(r, o) \in AtMostOne
           /\ Distance(r, o) \in Int
           /\ Factor(Departure(r, o)) = Pull(Distance(r, o), r.tolerance, r.weight)
<1>. DEFINE n == r.feature
            e == r.expected
            t == r.tolerance
            w == r.weight
            d == r.direction
            x == Excess(o, e, t, d)
<1>1. n \in FeatureNames /\ e \in Int /\ t \in Nat \ {0} /\ w \in 0 .. 100 /\ d \in Sides
  BY DEF NormType
<1>2. x \in Int
  BY <1>1 DEF Excess, Sides
<1>3. Departure(r, o) = Deviation(n, o, e, t, w, d) /\ Distance(r, o) = x
  BY DEF Departure, Distance
<1>. HIDE DEF n, e, t, w, d
<1>4. /\ Deviation(n, o, e, t, w, d) \in AtMostOne
      /\ Factor(Deviation(n, o, e, t, w, d)) = Pull(x, t, w)
  BY <1>1, DeviationPart
<1>. HIDE DEF x
<1>. QED
  BY <1>2, <1>3, <1>4 DEF t, w

\* A feature further on the side that counts weighs no less.
LEMMA DepartureMonotone ==
    ASSUME NEW r \in NormType, NEW a \in Int, NEW b \in Int, Further(a, b, r.direction)
    PROVE  /\ Departure(r, a) \in AtMostOne /\ Departure(r, b) \in AtMostOne
           /\ Factor(Departure(r, b)) <= Factor(Departure(r, a))
<1>. DEFINE x == Distance(r, a)
            y == Distance(r, b)
<1>1. y <= x
  BY DEF NormType, Distance, Excess, Sides, Further
<1>2. x \in Int /\ y \in Int
  BY DepartureFactor
<1>3. r.tolerance \in Nat \ {0} /\ r.weight \in 0 .. 100
  BY DEF NormType
<1>. HIDE DEF x, y
<1>4. Pull(y, r.tolerance, r.weight) <= Pull(x, r.tolerance, r.weight)
  BY <1>1, <1>2, <1>3, PullMonotone
<1>. QED
  BY <1>4, DepartureFactor DEF x, y

\* Nor does a lower late-to-early ratio.
LEMMA FlatteningMonotone ==
    ASSUME NEW f \in FeaturesType, NEW g \in FeaturesType, f.ratio <= g.ratio
    PROVE  /\ Flattening(f) \in AtMostOne /\ Flattening(g) \in AtMostOne
           /\ Factor(Flattening(g)) <= Factor(Flattening(f))
<1>. DEFINE x(h) == YieldFlattening - h.ratio
<1>1. /\ f.ratio \in Int /\ g.ratio \in Int /\ YieldFlattening \in Nat \ {0}
      /\ "ratio" \in FeatureNames /\ 45 \in 0 .. 100
  BY DEF FeaturesType, YieldFlattening, FeatureNames
<1>2. ASSUME NEW h \in FeaturesType
      PROVE  /\ x(h) \in Int
             /\ Flattening(h) = IF x(h) > 0 THEN Deviates("ratio", x(h), YieldFlattening, 45)
                                ELSE <<>>
  <2>1. h.ratio \in Int
    BY DEF FeaturesType
  <2>. QED
    BY <1>1, <2>1 DEF Flattening
<1>3. x(g) <= x(f)
  BY <1>1
<1>4. ASSUME NEW h \in FeaturesType
      PROVE  Flattening(h) \in AtMostOne /\ Factor(Flattening(h)) = Pull(x(h), YieldFlattening, 45)
  <2>. DEFINE z == x(h)
  <2>1. /\ z \in Int
        /\ Flattening(h) = IF z > 0 THEN Deviates("ratio", z, YieldFlattening, 45) ELSE <<>>
    BY <1>2
  <2>. HIDE DEF z
  <2>. QED
    BY <1>1, <2>1, DeviatesForce DEF z
<1>5. Pull(x(g), YieldFlattening, 45) <= Pull(x(f), YieldFlattening, 45)
  <2>. DEFINE y == x(g)
              z == x(f)
  <2>1. y \in Int /\ z \in Int /\ y <= z
    BY <1>2, <1>3
  <2>. HIDE DEF y, z
  <2>. QED
    BY <1>1, <2>1, PullMonotone DEF y, z
<1>. HIDE DEF x
<1>. QED
  BY <1>4, <1>5

\* What the baseline expects of each feature.
Norms(b) ==
    [knee      |-> Norm("knee", b.knee, b.kneeTolerance, 35, 1),
     slope     |-> Norm("slope", b.slope, b.slopeTolerance, 40, -1),
     residual  |-> Norm("residual", b.residualMax, Larger(b.residualMax, 1), 25, 1),
     reversals |-> Norm("reversals", b.reversalsMax, Larger(b.reversalsMax, 100), 20, 1),
     rundown   |-> Norm("rundown", b.rundownMax, Larger(b.rundownMax, 1), 30, 1)]

\* The six parts of the deviations.
Part(f, b) ==
    [knee      |-> Departure(Norms(b).knee, f.knee),
     slope     |-> Departure(Norms(b).slope, f.slope),
     residual  |-> Departure(Norms(b).residual, f.residual),
     reversals |-> Departure(Norms(b).reversals, f.reversals),
     rundown   |-> Departure(Norms(b).rundown, f.rundown),
     ratio     |-> Flattening(f)]

\* The five norms of a baseline, and the side each of them watches.
LEMMA NormsType ==
    ASSUME NEW b \in BaselineType
    PROVE  /\ Norms(b).knee \in NormType /\ Norms(b).knee.direction = 1
           /\ Norms(b).slope \in NormType /\ Norms(b).slope.direction = -1
           /\ Norms(b).residual \in NormType /\ Norms(b).residual.direction = 1
           /\ Norms(b).reversals \in NormType /\ Norms(b).reversals.direction = 1
           /\ Norms(b).rundown \in NormType /\ Norms(b).rundown.direction = 1
<1>1. /\ b.knee \in Int /\ b.kneeTolerance \in Nat \ {0}
      /\ b.slope \in Int /\ b.slopeTolerance \in Nat \ {0}
      /\ b.residualMax \in Int /\ Larger(b.residualMax, 1) \in Nat \ {0}
      /\ b.reversalsMax \in Int /\ Larger(b.reversalsMax, 100) \in Nat \ {0}
      /\ b.rundownMax \in Int /\ Larger(b.rundownMax, 1) \in Nat \ {0}
  BY DEF BaselineType, Larger
<1>2. /\ 1 \in Sides /\ -1 \in Sides
      /\ "knee" \in FeatureNames /\ "slope" \in FeatureNames
      /\ "residual" \in FeatureNames /\ "reversals" \in FeatureNames
      /\ "rundown" \in FeatureNames
  BY DEF Sides, FeatureNames
<1>. QED
  BY <1>1, <1>2 DEF Norms, Norm, NormType

PartsType == [FeatureNames -> AtMostOne]

Joined(p) == p.knee \o p.slope \o p.residual \o p.reversals \o p.rundown \o p.ratio

\* If no part of q weighs more than that of p, q scores no more than p.
LEMMA JoinedMonotone ==
    ASSUME NEW p \in PartsType, NEW q \in PartsType,
           Factor(q.knee) <= Factor(p.knee), Factor(q.slope) <= Factor(p.slope),
           Factor(q.residual) <= Factor(p.residual), Factor(q.reversals) <= Factor(p.reversals),
           Factor(q.rundown) <= Factor(p.rundown), Factor(q.ratio) <= Factor(p.ratio)
    PROVE  /\ Joined(p) \in Seq(DeviationType)
           /\ Joined(q) \in Seq(DeviationType)
           /\ Left(Joined(p)) <= Left(Joined(q))
<1>1. /\ p.knee \in AtMostOne /\ p.slope \in AtMostOne /\ p.residual \in AtMostOne
      /\ p.reversals \in AtMostOne /\ p.rundown \in AtMostOne /\ p.ratio \in AtMostOne
      /\ q.knee \in AtMostOne /\ q.slope \in AtMostOne /\ q.residual \in AtMostOne
      /\ q.reversals \in AtMostOne /\ q.rundown \in AtMostOne /\ q.ratio \in AtMostOne
  BY DEF PartsType, FeatureNames
<1>. DEFINE None == <<>>
            a1 == None \o p.knee
            b1 == None \o q.knee
            a2 == a1 \o p.slope
            b2 == b1 \o q.slope
            a3 == a2 \o p.residual
            b3 == b2 \o q.residual
            a4 == a3 \o p.reversals
            b4 == b3 \o q.reversals
            a5 == a4 \o p.rundown
            b5 == b4 \o q.rundown
            a6 == a5 \o p.ratio
            b6 == b5 \o q.ratio
            Under(a, b) == a \in Seq(DeviationType) /\ b \in Seq(DeviationType) /\ Left(a) <= Left(b)
<1>2. None \in Seq(DeviationType) /\ Left(None) <= Left(None)
  BY LeftBounds, LeftEmpty, Scales
<1>3. None \o p.knee = p.knee /\ None \o q.knee = q.knee
  BY <1>1, PartType, ConcatEmptySeq
<1>4. Joined(p) = a6 /\ Joined(q) = b6
  BY <1>3 DEF Joined
<1>. HIDE DEF None
<1>5. Under(a1, b1)
  BY <1>1, <1>2, LeftMonotone
<1>. HIDE DEF a1, b1
<1>6. Under(a2, b2)
  BY <1>1, <1>5, LeftMonotone
<1>. HIDE DEF a2, b2
<1>7. Under(a3, b3)
  BY <1>1, <1>6, LeftMonotone
<1>. HIDE DEF a3, b3
<1>8. Under(a4, b4)
  BY <1>1, <1>7, LeftMonotone
<1>. HIDE DEF a4, b4
<1>9. Under(a5, b5)
  BY <1>1, <1>8, LeftMonotone
<1>. HIDE DEF a5, b5
<1>10. Under(a6, b6)
  BY <1>1, <1>9, LeftMonotone
<1>. HIDE DEF a6, b6
<1>. QED
  BY <1>4, <1>10

\* The deviations are the six parts, and a milder run's weigh no more.
LEMMA PartsMonotone ==
    ASSUME NEW f \in FeaturesType, NEW g \in FeaturesType, NEW b \in BaselineType,
           NoMilder(f, g)
    PROVE  /\ Deviations(f, b) = Joined(Part(f, b))
           /\ Part(f, b) \in PartsType /\ Part(g, b) \in PartsType
           /\ Factor(Part(g, b).knee) <= Factor(Part(f, b).knee)
           /\ Factor(Part(g, b).slope) <= Factor(Part(f, b).slope)
           /\ Factor(Part(g, b).residual) <= Factor(Part(f, b).residual)
           /\ Factor(Part(g, b).reversals) <= Factor(Part(f, b).reversals)
           /\ Factor(Part(g, b).rundown) <= Factor(Part(f, b).rundown)
           /\ Factor(Part(g, b).ratio) <= Factor(Part(f, b).ratio)
<1>1. /\ f.knee \in Int /\ f.slope \in Int /\ f.residual \in Int /\ f.reversals \in Int
      /\ f.rundown \in Int /\ g.knee \in Int /\ g.slope \in Int /\ g.residual \in Int
      /\ g.reversals \in Int /\ g.rundown \in Int
  BY DEF FeaturesType
<1>2. /\ Norms(b).knee \in NormType /\ Norms(b).knee.direction = 1
      /\ Norms(b).slope \in NormType /\ Norms(b).slope.direction = -1
      /\ Norms(b).residual \in NormType /\ Norms(b).residual.direction = 1
      /\ Norms(b).reversals \in NormType /\ Norms(b).reversals.direction = 1
      /\ Norms(b).rundown \in NormType /\ Norms(b).rundown.direction = 1
  BY NormsType
<1>4. /\ Further(f.knee, g.knee, 1) /\ Further(f.slope, g.slope, -1)
      /\ Further(f.residual, g.residual, 1) /\ Further(f.reversals, g.reversals, 1)
      /\ Further(f.rundown, g.rundown, 1) /\ f.ratio <= g.ratio
  BY DEF NoMilder, Further
<1>. DEFINE p == Part(f, b)
            q == Part(g, b)
            Under(r, s) == r \in AtMostOne /\ s \in AtMostOne /\ Factor(s) <= Factor(r)
<1>5. Under(p.knee, q.knee)
  BY <1>1, <1>2, <1>4, DepartureMonotone DEF Part
<1>6. Under(p.slope, q.slope)
  BY <1>1, <1>2, <1>4, DepartureMonotone DEF Part
<1>7. Under(p.residual, q.residual)
  BY <1>1, <1>2, <1>4, DepartureMonotone DEF Part
<1>8. Under(p.reversals, q.reversals)
  BY <1>1, <1>2, <1>4, DepartureMonotone DEF Part
<1>9. Under(p.rundown, q.rundown)
  BY <1>1, <1>2, <1>4, DepartureMonotone DEF Part
<1>10. Under(p.ratio, q.ratio)
  BY <1>4, FlatteningMonotone DEF Part
<1>11. Deviations(f, b) = Joined(p)
  <2>1. /\ p.knee = Deviation("knee", f.knee, b.knee, b.kneeTolerance, 35, 1)
        /\ p.slope = Deviation("slope", f.slope, b.slope, b.slopeTolerance, 40, -1)
        /\ p.residual = Deviation("residual", f.residual, b.residualMax,
                                  Larger(b.residualMax, 1), 25, 1)
        /\ p.reversals = Deviation("reversals", f.reversals, b.reversalsMax,
                                   Larger(b.reversalsMax, 100), 20, 1)
        /\ p.rundown = Deviation("rundown", f.rundown, b.rundownMax,
                                 Larger(b.rundownMax, 1), 30, 1)
        /\ p.ratio = Flattening(f)
    BY DEF Part, Norms, Norm, Departure
  <2>. HIDE DEF p
  <2>. QED
    BY <2>1 DEF Deviations, Joined
<1>12. p \in PartsType /\ q \in PartsType
  <2>1. \A n \in FeatureNames : p[n] \in AtMostOne /\ q[n] \in AtMostOne
    <3>. HIDE DEF p, q
    <3>. QED
      BY <1>5, <1>6, <1>7, <1>8, <1>9, <1>10 DEF FeatureNames
  <2>2. p = [n \in FeatureNames |-> p[n]] /\ q = [n \in FeatureNames |-> q[n]]
    BY DEF Part, FeatureNames
  <2>. HIDE DEF p, q
  <2>. QED
    BY <2>1, <2>2 DEF PartsType
<1>. HIDE DEF p, q
<1>. QED
  BY <1>5, <1>6, <1>7, <1>8, <1>9, <1>10, <1>11, <1>12 DEF p, q

\* A run that is no milder scores no less in the torque analyser.
LEMMA DeviationsMonotone ==
    ASSUME NEW f \in FeaturesType, NEW g \in FeaturesType, NEW b \in BaselineType,
           NoMilder(f, g)
    PROVE  NoisyOr(Deviations(g, b)) <= NoisyOr(Deviations(f, b))
<1>1. NoMilder(g, g)
  BY DEF NoMilder, FeaturesType
<1>. DEFINE p == Part(f, b)
            q == Part(g, b)
<1>2. Deviations(f, b) = Joined(p) /\ Deviations(g, b) = Joined(q)
  BY <1>1, PartsMonotone
<1>3. /\ Joined(p) \in Seq(DeviationType) /\ Joined(q) \in Seq(DeviationType)
      /\ Left(Joined(p)) <= Left(Joined(q))
  <2>. HIDE DEF p, q
  <2>1. /\ p \in PartsType /\ q \in PartsType
        /\ Factor(q.knee) <= Factor(p.knee) /\ Factor(q.slope) <= Factor(p.slope)
        /\ Factor(q.residual) <= Factor(p.residual) /\ Factor(q.reversals) <= Factor(p.reversals)
        /\ Factor(q.rundown) <= Factor(p.rundown) /\ Factor(q.ratio) <= Factor(p.ratio)
    BY PartsMonotone DEF p, q
  <2>. QED
    BY <2>1, JoinedMonotone
<1>. HIDE DEF p, q
<1>. QED
  BY <1>2, <1>3, LeftBounds, Scales

\* What is scored is a sequence of deviations.
LEMMA DeviationsType ==
    ASSUME NEW f \in FeaturesType, NEW b \in BaselineType
    PROVE  Deviations(f, b) \in Seq(DeviationType)
<1>1. NoMilder(f, f)
  BY DEF NoMilder, FeaturesType
<1>2. Deviations(f, b) = Joined(Part(f, b)) /\ Part(f, b) \in PartsType
  BY <1>1, PartsMonotone
<1>3. \A part \in AtMostOne : Factor(part) \in Int
  BY PartType, Scales
<1>. DEFINE p == Part(f, b)
<1>4. /\ p.knee \in AtMostOne /\ p.slope \in AtMostOne /\ p.residual \in AtMostOne
      /\ p.reversals \in AtMostOne /\ p.rundown \in AtMostOne /\ p.ratio \in AtMostOne
  BY <1>2 DEF PartsType, FeatureNames
<1>. HIDE DEF p
<1>5. Joined(p) \in Seq(DeviationType)
  <2>1. p \in PartsType
    BY <1>2 DEF p
  <2>2. /\ Factor(p.knee) <= Factor(p.knee) /\ Factor(p.slope) <= Factor(p.slope)
        /\ Factor(p.residual) <= Factor(p.residual) /\ Factor(p.reversals) <= Factor(p.reversals)
        /\ Factor(p.rundown) <= Factor(p.rundown) /\ Factor(p.ratio) <= Factor(p.ratio)
    BY <1>3, <1>4
  <2>. QED
    BY <2>1, <2>2, JoinedMonotone
<1>. QED
  BY <1>2, <1>5 DEF p

(***************************************************************************)
(* The same of the generic analyser: a rule that finds no deviation is a   *)
(* factor of nothing.                                                      *)
(***************************************************************************)
Hit(rule, fs, b) == IF RuleDeviates(rule, fs, b) THEN Contribution(rule, fs, b) ELSE 0

Learned(b) ==
    \A key \in DOMAIN b.means : b.means[key] \in Int /\ b.tolerances[key] \in Nat \ {0}

Weighable(rule) == rule.weight \in 0 .. 100 /\ rule.direction \in Sides

\* What a rule makes of a value.
Tug(rule, value, b) ==
    Pull(Excess(value, b.means[rule.feature], b.tolerances[rule.feature], rule.direction),
         b.tolerances[rule.feature], rule.weight)

\* An excess weighs at most the whole.
LEMMA PullBounds ==
    ASSUME NEW x \in Int, NEW tolerance \in Nat \ {0}, NEW weight \in 0 .. 100
    PROVE  Pull(x, tolerance, weight) \in 0 .. Whole
<1>1. "knee" \in FeatureNames
  BY DEF FeatureNames
<1>. DEFINE part == IF x > 0 THEN Deviates("knee", x, tolerance, weight) ELSE <<>>
<1>2. part \in AtMostOne /\ Factor(part) = Pull(x, tolerance, weight)
  BY <1>1, DeviatesForce
<1>. HIDE DEF part
<1>. QED
  BY <1>2, PartType

\* A rule finds in measured features what it makes of the one it names.
LEMMA HitIsTug ==
    ASSUME NEW rule, Weighable(rule), NEW fs, NEW b, Learned(b),
           rule.feature \in DOMAIN b.means, rule.feature \in DOMAIN fs,
           fs[rule.feature] \in Int
    PROVE  Hit(rule, fs, b) = Tug(rule, fs[rule.feature], b)
<1>. DEFINE v == fs[rule.feature]
            m == b.means[rule.feature]
            t == b.tolerances[rule.feature]
            d == rule.direction
            w == rule.weight
            x == Excess(v, m, t, d)
            delta == v - m
            g == Magnitude(delta)
<1>1. v \in Int /\ m \in Int /\ t \in Nat \ {0} /\ d \in {1, -1} /\ w \in Nat
  BY DEF Learned, Weighable, Sides
<1>2. RuleDeviates(rule, fs, b) <=> (d > 0 => delta > 0) /\ (d < 0 => delta < 0) /\ g > t
  BY <1>1 DEF RuleDeviates
<1>3. Contribution(rule, fs, b) = w * Smaller((2000 * (g - t)) \div (3 * t), 1000)
  BY DEF Contribution
<1>4. Tug(rule, v, b) = IF x > 0 THEN w * Smaller((2000 * x) \div (3 * t), 1000) ELSE 0
  BY DEF Tug, Pull
<1>5. x = IF d > 0 THEN delta - t ELSE -delta - t
  <2>. HIDE DEF v, m, t, d
  <2>. QED
    BY <1>1 DEF Excess
<1>6. g = IF delta >= -delta THEN delta ELSE -delta
  BY DEF Magnitude, Larger
<1>7. delta \in Int
  BY <1>1
<1>. HIDE DEF v, m, t, d, w, x, delta, g
<1>8. (RuleDeviates(rule, fs, b) <=> x > 0) /\ (x > 0 => g - t = x)
  <2>1. CASE d = 1
    BY <1>1, <1>2, <1>5, <1>6, <1>7, <2>1
  <2>2. CASE d = -1
    BY <1>1, <1>2, <1>5, <1>6, <1>7, <2>2
  <2>. QED
    BY <1>1, <2>1, <2>2
<1>9. CASE x > 0
  BY <1>3, <1>4, <1>8, <1>9 DEF Hit, v
<1>10. CASE ~(x > 0)
  BY <1>4, <1>8, <1>10 DEF Hit, v
<1>. QED
  BY <1>9, <1>10

\* An excess is a number.
LEMMA ExcessType ==
    ASSUME NEW v \in Int, NEW m \in Int, NEW t \in Int, NEW d
    PROVE  Excess(v, m, t, d) \in Int
BY DEF Excess

\* A rule weighs at most the whole.
LEMMA TugBounds ==
    ASSUME NEW rule, Weighable(rule), NEW b, Learned(b), rule.feature \in DOMAIN b.means,
           NEW v \in Int
    PROVE  Tug(rule, v, b) \in 0 .. Whole
<1>. DEFINE m == b.means[rule.feature]
            t == b.tolerances[rule.feature]
            x == Excess(v, m, t, rule.direction)
<1>1. m \in Int /\ t \in Nat \ {0} /\ rule.weight \in 0 .. 100
  BY DEF Learned, Weighable
<1>2. x \in Int
  <2>. HIDE DEF m, t
  <2>. QED
    BY <1>1, ExcessType
<1>3. Tug(rule, v, b) = Pull(x, t, rule.weight)
  BY DEF Tug
<1>. HIDE DEF m, t, x
<1>. QED
  BY <1>1, <1>2, <1>3, PullBounds

\* A rule makes no less of a value further on its side.
LEMMA TugMonotone ==
    ASSUME NEW rule, Weighable(rule), NEW b, Learned(b), rule.feature \in DOMAIN b.means,
           NEW v \in Int, NEW u \in Int, Further(v, u, rule.direction)
    PROVE  Tug(rule, u, b) <= Tug(rule, v, b)
<1>. DEFINE m == b.means[rule.feature]
            t == b.tolerances[rule.feature]
            d == rule.direction
            x == Excess(v, m, t, d)
            y == Excess(u, m, t, d)
<1>1. m \in Int /\ t \in Nat \ {0} /\ rule.weight \in 0 .. 100 /\ d \in Sides
  BY DEF Learned, Weighable
<1>2. x \in Int /\ y \in Int /\ y <= x
  <2>. HIDE DEF m, t, d
  <2>1. Further(v, u, d)
    BY DEF d
  <2>. QED
    BY <1>1, <2>1 DEF Excess, Further, Sides
<1>3. Tug(rule, v, b) = Pull(x, t, rule.weight) /\ Tug(rule, u, b) = Pull(y, t, rule.weight)
  BY DEF Tug
<1>. HIDE DEF m, t, d, x, y
<1>. QED
  BY <1>1, <1>2, <1>3, PullMonotone

\* A rule finds no less in values that are further on its side.
LEMMA HitMonotone ==
    ASSUME NEW rule, Weighable(rule), NEW b, Learned(b), NEW fs, NEW gs,
           rule.feature \in DOMAIN fs, rule.feature \in DOMAIN gs,
           fs[rule.feature] \in Int, gs[rule.feature] \in Int,
           Further(fs[rule.feature], gs[rule.feature], rule.direction)
    PROVE  /\ Hit(rule, fs, b) \in 0 .. Whole /\ Hit(rule, gs, b) \in 0 .. Whole
           /\ Hit(rule, gs, b) <= Hit(rule, fs, b)
<1>1. CASE rule.feature \in DOMAIN b.means
  BY <1>1, HitIsTug, TugBounds, TugMonotone
<1>2. CASE rule.feature \notin DOMAIN b.means
  <2>1. ~RuleDeviates(rule, fs, b) /\ ~RuleDeviates(rule, gs, b)
    BY <1>2 DEF RuleDeviates
  <2>. QED
    BY <2>1, Scales DEF Hit
<1>. QED
  BY <1>1, <1>2

Found(rules, fs, b) == [i \in 1 .. Len(rules) |-> Hit(rules[i], fs, b)]

\* The generic score is a chain as well, of one factor for each rule.
LEMMA ScoreLowers ==
    ASSUME NEW rules, Len(rules) \in Nat, NEW fs, NEW b, NEW limits, NEW threshold,
           Found(rules, fs, b) \in [1 .. Len(rules) -> 0 .. Whole]
    PROVE  \E f : /\ Lowers(f, Found(rules, fs, b), Len(rules))
                  /\ ScoreFeatures(fs, b, rules, limits, threshold).score = Full - f[Len(rules)]
<1>. DEFINE N == Len(rules)
            w == Found(rules, fs, b)
            Def(f) == f = [i \in 0 .. N |->
                             IF i = 0 THEN Full
                             ELSE IF RuleDeviates(rules[i], fs, b)
                             THEN (f[i - 1] * (Whole - Contribution(rules[i], fs, b)))
                                    \div Whole
                             ELSE f[i - 1]]
            chosen == CHOOSE f : Def(f)
<1>1. PICK f : Lowers(f, w, N)
  <2>. HIDE DEF w, N
  <2>. QED
    BY LowersExists DEF w, N
<1>2. Def(f)
  <2>1. f = [i \in 0 .. N |-> f[i]] /\ f[0] = Full
    BY <1>1 DEF Lowers
  <2>2. ASSUME NEW i \in 1 .. N
        PROVE  f[i] = IF RuleDeviates(rules[i], fs, b)
                      THEN (f[i - 1] * (Whole - Contribution(rules[i], fs, b))) \div Whole
                      ELSE f[i - 1]
    <3>1. f[i] = Lowered(f[i - 1], Hit(rules[i], fs, b)) /\ f[i - 1] \in 0 .. Full
      BY <1>1 DEF Lowers, Chain, Found
    <3>2. CASE RuleDeviates(rules[i], fs, b)
      BY <3>1, <3>2 DEF Hit, Lowered
    <3>3. CASE ~RuleDeviates(rules[i], fs, b)
      BY <3>1, <3>3, LoweredBounds, Scales DEF Hit
    <3>. QED
      BY <3>2, <3>3
  <2>3. \A i \in 0 .. N : i = 0 \/ i \in 1 .. N
    OBVIOUS
  <2>. HIDE DEF N
  <2>. QED
    BY <2>1, <2>2, <2>3
<1>3. Def(chosen)
  BY <1>2
<1>4. ScoreFeatures(fs, b, rules, limits, threshold).score = Full - chosen[N]
  BY DEF ScoreFeatures
<1>. HIDE DEF chosen
<1>. DEFINE good == {k \in 0 .. N : chosen[k] = f[k]}
<1>5. 0 \in good
  BY <1>1, <1>3 DEF Lowers
<1>6. ASSUME NEW i \in 1 .. N, i - 1 \in good
      PROVE  i \in good
  <2>. DEFINE Next1(c) == IF RuleDeviates(rules[i], fs, b)
                          THEN (c * (Whole - Contribution(rules[i], fs, b))) \div Whole
                          ELSE c
  <2>. DEFINE body(g) == [j \in 0 .. N |-> IF j = 0 THEN Full
                                          ELSE IF RuleDeviates(rules[j], fs, b)
                                          THEN (g[j - 1] * (Whole - Contribution(rules[j], fs, b)))
                                                 \div Whole
                                          ELSE g[j - 1]]
  <2>0. ASSUME NEW g
        PROVE  body(g)[i] = Next1(g[i - 1])
    <3>1. i \in 0 .. N /\ i # 0
      OBVIOUS
    <3>. QED
      BY <3>1
  <2>3. chosen = body(chosen) /\ f = body(f)
    BY <1>2, <1>3
  <2>. HIDE DEF body, Next1
  <2>1. chosen[i] = Next1(chosen[i - 1])
    BY <2>0, <2>3
  <2>2. f[i] = Next1(f[i - 1])
    BY <2>0, <2>3
  <2>. HIDE DEF Next1
  <2>. QED
    BY <1>6, <2>1, <2>2
<1>7. chosen[N] = f[N]
  <2>. HIDE DEF good, N
  <2>1. 0 .. N \subseteq good
    BY <1>5, <1>6, IntervalInduction DEF N
  <2>2. N \in good
    BY <2>1 DEF N
  <2>. QED
    BY <2>2 DEF good
<1>. QED
  BY <1>1, <1>4, <1>7

(***************************************************************************)
(* Sums, means and spreads.                                                *)
(***************************************************************************)

\* Prefix sums begin with nothing and add one value at a time.
LEMMA CumulativeIs ==
    ASSUME NEW s \in Seq(Int)
    PROVE  /\ Len(s) \in Nat /\ Cumulative(s) \in [0 .. Len(s) -> Int]
           /\ Cumulative(s)[0] = 0
           /\ \A i \in 1 .. Len(s) : Cumulative(s)[i] = Cumulative(s)[i - 1] + s[i]
<1>. DEFINE N == Len(s)
            G == [i \in 1 .. N |-> [k \in Int |-> k + s[i]]]
            body(f) == [i \in 0 .. N |-> IF i = 0 THEN 0 ELSE f[i - 1] + s[i]]
            chosen == CHOOSE f : f = body(f)
<1>1. N \in Nat /\ \A i \in 1 .. N : s[i] \in Int
  BY LenProperties, ElementOfSeq
<1>2. G \in [1 .. N -> [Int -> Int]] /\ 0 \in Int
  BY <1>1
<1>3. PICK f \in [0 .. N -> Int] : Follows(f, N, 0, G)
  <2>. HIDE DEF G, N
  <2>. QED
    BY <1>1, <1>2, StepsDefine
<1>4. ASSUME NEW i \in 1 .. N
      PROVE  f[i] = f[i - 1] + s[i] /\ f[i - 1] \in Int
  <2>1. i - 1 \in 0 .. N
    BY <1>1
  <2>2. f[i - 1] \in Int
    <3>. HIDE DEF N
    <3>. QED
      BY <1>3, <2>1
  <2>3. f[i] = G[i][f[i - 1]]
    BY <1>3 DEF Follows
  <2>. QED
    BY <2>2, <2>3
<1>5. f = body(f)
  <2>1. f = [i \in 0 .. N |-> f[i]] /\ f[0] = 0
    BY <1>3 DEF Follows
  <2>2. \A i \in 0 .. N : i = 0 \/ i \in 1 .. N
    BY <1>1
  <2>. HIDE DEF N
  <2>. QED
    BY <1>4, <2>1, <2>2
<1>6. chosen = body(chosen)
  BY <1>5
<1>7. Cumulative(s) = chosen
  BY DEF Cumulative
<1>. HIDE DEF chosen
<1>8. chosen[0] = 0 /\ \A i \in 1 .. N : chosen[i] = chosen[i - 1] + s[i]
  <2>1. ASSUME NEW g
        PROVE  body(g)[0] = 0 /\ \A i \in 1 .. N : body(g)[i] = g[i - 1] + s[i]
    <3>1. 0 \in 0 .. N /\ \A i \in 1 .. N : i \in 0 .. N /\ i # 0
      BY <1>1
    <3>. HIDE DEF N
    <3>. QED
      BY <3>1
  <2>. HIDE DEF body
  <2>. QED
    BY <1>6, <2>1
<1>. DEFINE good == {k \in 0 .. N : chosen[k] = f[k]}
<1>9. 0 \in good
  BY <1>1, <1>3, <1>8 DEF Follows
<1>10. ASSUME NEW i \in 1 .. N, i - 1 \in good
       PROVE  i \in good
  BY <1>4, <1>8, <1>10
<1>11. 0 .. N \subseteq good
  <2>. HIDE DEF good, N
  <2>. QED
    BY <1>1, <1>9, <1>10, IntervalInduction
<1>12. chosen \in [0 .. N -> Int]
  <2>1. chosen = [i \in 0 .. N |-> chosen[i]]
    BY <1>6
  <2>2. \A i \in 0 .. N : chosen[i] \in Int
    BY <1>3, <1>11
  <2>. HIDE DEF N
  <2>. QED
    BY <2>1, <2>2
<1>. QED
  BY <1>1, <1>7, <1>8, <1>12

\* A line through the values of s bounds those of t.
Below(t, s, a, c) == \A i \in 1 .. Len(s) : t[i] <= a * s[i] + c

\* So does it bound the sum.
LEMMA TotalBound ==
    ASSUME NEW s \in Seq(Int), NEW t \in Seq(Int), Len(t) = Len(s), NEW a \in Int, NEW c \in Int,
           Below(t, s, a, c)
    PROVE  /\ Total(s) \in Int /\ Total(t) \in Int
           /\ Total(t) <= a * Total(s) + Len(s) * c
<1>. DEFINE N == Len(s)
            f == Cumulative(s)
            g == Cumulative(t)
<1>1. /\ N \in Nat /\ f \in [0 .. N -> Int] /\ f[0] = 0
      /\ \A i \in 1 .. N : f[i] = f[i - 1] + s[i]
  BY CumulativeIs
<1>2. /\ g \in [0 .. N -> Int] /\ g[0] = 0
      /\ \A i \in 1 .. N : g[i] = g[i - 1] + t[i]
  BY CumulativeIs
<1>3. Total(s) = f[N] /\ Total(t) = g[N]
  BY DEF Total
<1>4. \A i \in 1 .. N : s[i] \in Int /\ t[i] \in Int /\ t[i] <= a * s[i] + c
  BY ElementOfSeq DEF Below
<1>. HIDE DEF f, g, N
<1>. DEFINE good == {k \in 0 .. N : g[k] <= a * f[k] + k * c}
<1>5. 0 \in good
  BY <1>1, <1>2
<1>6. ASSUME NEW i \in 1 .. N, i - 1 \in good
      PROVE  i \in good
  <2>. DEFINE x == f[i - 1]
              y == g[i - 1]
              u == s[i]
              v == t[i]
  <2>1. /\ x \in Int /\ y \in Int /\ u \in Int /\ v \in Int /\ i \in Int
        /\ f[i] = x + u /\ g[i] = y + v
        /\ v <= a * u + c /\ y <= a * x + (i - 1) * c
    BY <1>1, <1>2, <1>4, <1>6
  <2>. HIDE DEF x, y, u, v
  <2>2. a * (x + u) = a * x + a * u /\ (i - 1) * c = i * c - c
        /\ a * x \in Int /\ a * u \in Int /\ i * c \in Int
    BY <2>1
  <2>3. y + v <= a * (x + u) + i * c
    BY <2>1, <2>2
  <2>. QED
    BY <2>1, <2>3
<1>7. 0 .. N \subseteq good
  <2>. HIDE DEF good
  <2>. QED
    BY <1>1, <1>5, <1>6, IntervalInduction
<1>8. g[N] <= a * f[N] + N * c /\ f[N] \in Int /\ g[N] \in Int
  <2>1. N \in 0 .. N
    BY <1>1
  <2>. QED
    BY <1>1, <1>2, <1>7, <2>1
<1>. QED
  BY <1>3, <1>8 DEF N

Within(s, lo, hi) == \A i \in 1 .. Len(s) : lo <= s[i] /\ s[i] <= hi

\* A sum lies between its length times the least and times the greatest value.
LEMMA TotalWithin ==
    ASSUME NEW s \in Seq(Int), NEW lo \in Int, NEW hi \in Int, Within(s, lo, hi)
    PROVE  Total(s) \in Int /\ Len(s) * lo <= Total(s) /\ Total(s) <= Len(s) * hi
<1>1. Len(s) \in Nat /\ \A i \in 1 .. Len(s) : s[i] \in Int /\ lo <= s[i] /\ s[i] <= hi
  BY LenProperties, ElementOfSeq DEF Within
<1>2. Below(s, s, 0, hi) /\ 0 \in Int
  BY <1>1 DEF Below
<1>3. Total(s) \in Int /\ Total(s) <= 0 * Total(s) + Len(s) * hi
  BY <1>2, TotalBound
<1>4. Below(s, s, 2, -lo) /\ 2 \in Int /\ -lo \in Int
  BY <1>1 DEF Below
<1>5. Total(s) <= 2 * Total(s) + Len(s) * (-lo)
  BY <1>4, TotalBound
<1>6. Len(s) * (-lo) = -(Len(s) * lo) /\ Len(s) * lo \in Int /\ Len(s) * hi \in Int
  BY <1>1
<1>. QED
  BY <1>1, <1>3, <1>5, <1>6

\* The mean is rounded down, and lies between the least and the greatest value.
LEMMA MeanWithin ==
    ASSUME NEW s \in Seq(Int), Len(s) > 0, NEW lo \in Int, NEW hi \in Int, Within(s, lo, hi)
    PROVE  /\ Mean(s) \in Int /\ lo <= Mean(s) /\ Mean(s) <= hi
           /\ Len(s) * Mean(s) <= Total(s) /\ Total(s) < Len(s) * Mean(s) + Len(s)
<1>. DEFINE n == Len(s)
            t == Total(s)
            m == t \div n
<1>1. n \in Nat \ {0} /\ t \in Int /\ n * lo <= t /\ t <= n * hi
  BY LenProperties, TotalWithin
<1>2. Mean(s) = m
  BY DEF Mean
<1>. HIDE DEF n, t
<1>3. m \in Int /\ n * m <= t /\ t < n * m + n
  BY <1>1, DivBounds
<1>. HIDE DEF m
<1>4. lo <= m
  <2>. SUFFICES ASSUME m + 1 <= lo PROVE FALSE
    BY <1>3
  <2>1. n * (m + 1) <= n * lo
    BY <1>1, <1>3
  <2>. QED
    BY <1>1, <1>3, <2>1
<1>5. m <= hi
  <2>. SUFFICES ASSUME hi + 1 <= m PROVE FALSE
    BY <1>3
  <2>1. n * (hi + 1) <= n * m
    BY <1>1, <1>3
  <2>. QED
    BY <1>1, <1>3, <2>1
<1>. QED
  BY <1>2, <1>3, <1>4, <1>5 DEF n, t

\* Every natural number has a root, rounded down.
LEMMA RootIs ==
    ASSUME NEW v \in Nat
    PROVE  Root(v) \in Nat /\ Root(v) * Root(v) <= v /\ v < (Root(v) + 1) * (Root(v) + 1)
<1>. DEFINE Ok(r) == r * r <= v /\ v < (r + 1) * (r + 1)
<1>1. \E r \in 0 .. v : Ok(r)
  <2>. SUFFICES ASSUME \A r \in 0 .. v : ~Ok(r) PROVE FALSE
    OBVIOUS
  <2>. DEFINE good == {k \in 0 .. v : k * k <= v}
  <2>1. 0 \in good
    OBVIOUS
  <2>2. ASSUME NEW i \in 1 .. v, i - 1 \in good
        PROVE  i \in good
    <3>0. i - 1 \in 0 .. v /\ (i - 1) * (i - 1) <= v /\ (i - 1) + 1 = i
      BY <2>2
    <3>4. ~Ok(i - 1)
      <4>. HIDE DEF Ok
      <4>. QED
        BY <3>0
    <3>1. i - 1 \in 0 .. v /\ (i - 1) * (i - 1) <= v /\ ~Ok(i - 1) /\ (i - 1) + 1 = i
      BY <3>0, <3>4
    <3>2. ~(v < ((i - 1) + 1) * ((i - 1) + 1))
      BY <3>1
    <3>3. i * i \in Nat
      OBVIOUS
    <3>. QED
      BY <3>1, <3>2, <3>3
  <2>3. v \in good
    <3>. HIDE DEF good
    <3>1. 0 .. v \subseteq good
      BY <2>1, <2>2, IntervalInduction
    <3>. QED
      BY <3>1
  <2>4. v < (v + 1) * (v + 1)
    <3>1. (v + 1) * (v + 1) = v * v + 2 * v + 1 /\ v * v \in Nat
      OBVIOUS
    <3>. QED
      BY <3>1
  <2>. QED
    BY <2>3, <2>4
<1>2. Root(v) = CHOOSE r \in 0 .. v : Ok(r)
  BY DEF Root
<1>3. Root(v) \in 0 .. v /\ Ok(Root(v))
  <2>. HIDE DEF Ok
  <2>. QED
    BY <1>1, <1>2
<1>. QED
  BY <1>3

Squares(s) == [i \in 1 .. Len(s) |-> (s[i] - Mean(s)) * (s[i] - Mean(s))]

\* The squared distances from the mean, whose sum is no less than nothing.
LEMMA SquaresType ==
    ASSUME NEW s \in Seq(Int), Len(s) > 0, NEW lo \in Int, NEW hi \in Int, Within(s, lo, hi)
    PROVE  /\ Squares(s) \in Seq(Int) /\ Len(Squares(s)) = Len(s)
           /\ Total(Squares(s)) \in Nat
<1>. DEFINE q == Squares(s)
<1>1. Len(s) \in Nat /\ Mean(s) \in Int /\ \A i \in 1 .. Len(s) : s[i] \in Int
  BY LenProperties, ElementOfSeq, MeanWithin
<1>2. \A i \in 1 .. Len(s) : (s[i] - Mean(s)) * (s[i] - Mean(s)) \in Nat
  <2>. SUFFICES ASSUME NEW i \in 1 .. Len(s)
                PROVE  (s[i] - Mean(s)) * (s[i] - Mean(s)) \in Nat
    OBVIOUS
  <2>. DEFINE d == s[i] - Mean(s)
  <2>1. d \in Int
    BY <1>1
  <2>. HIDE DEF d
  <2>2. d * d \in Nat
    BY <2>1
  <2>. QED
    BY <2>2 DEF d
<1>3. q \in Seq(Int) /\ Len(q) = Len(s)
  <2>. DEFINE N == Len(s)
  <2>1. q \in [1 .. N -> Int] /\ N \in Nat
    BY <1>1, <1>2 DEF Squares
  <2>. HIDE DEF q, N
  <2>. QED
    BY <2>1 DEF N
<1>4. \A i \in 1 .. Len(s) : q[i] \in Nat
  BY <1>2 DEF Squares
<1>. HIDE DEF q
<1>5. Below(q, q, 2, 0) /\ 2 \in Int /\ 0 \in Int
  BY <1>3, <1>4 DEF Below
<1>6. Total(q) \in Int /\ Total(q) <= 2 * Total(q) + Len(q) * 0
  BY <1>3, <1>5, TotalBound
<1>7. Len(q) * 0 = 0
  BY <1>1, <1>3
<1>. QED
  BY <1>1, <1>3, <1>6, <1>7 DEF q

\* A tolerance is floored: it is never nothing, and both analysers take the same.
LEMMA ToleranceType ==
    ASSUME NEW s \in Seq(Int), Len(s) >= 2, NEW lo \in Int, NEW hi \in Int, Within(s, lo, hi)
    PROVE  /\ Spread(s) \in Nat
           /\ Tolerance(s) \in Nat \ {0} /\ ToleranceOf(s) = Tolerance(s)
<1>. DEFINE u == Sigma * Sigma * Total(Squares(s))
            n == Len(s) - 1
<1>1. Len(s) \in Nat /\ Mean(s) \in Int /\ Total(Squares(s)) \in Nat
  BY LenProperties, MeanWithin, SquaresType
<1>2. u \in Nat /\ n \in Nat \ {0}
  <2>1. Sigma * Sigma \in Nat
    BY LeastSquaresAssumption
  <2>2. u \in Nat
    BY <1>1, <2>1
  <2>3. n \in Nat \ {0}
    <3>. DEFINE k == Len(s)
    <3>1. k \in Nat /\ k >= 2
      BY <1>1
    <3>. HIDE DEF k
    <3>2. k - 1 \in Nat \ {0}
      BY <3>1
    <3>. QED
      BY <3>2 DEF k
  <2>. HIDE DEF u, n
  <2>. QED
    BY <2>2, <2>3
<1>3. Spread(s) = Root(u \div n)
  BY DEF Spread, Squares
<1>. HIDE DEF u, n
<1>4. u \div n \in Nat
  BY <1>2
<1>5. Spread(s) \in Nat
  BY <1>3, <1>4, RootIs
<1>6. Magnitude(Mean(s)) \div 50 \in Int
  BY <1>1 DEF Magnitude, Larger
<1>7. Tolerance(s) \in Nat \ {0}
  BY <1>5, <1>6 DEF Tolerance, Larger
<1>. QED
  BY <1>5, <1>7 DEF Tolerance, ToleranceOf

\* Some value is the least and some the greatest.
LEMMA Extremes ==
    ASSUME NEW s \in Seq(Int), Len(s) > 0
    PROVE  \E i, j \in 1 .. Len(s) : Within(s, s[i], s[j])
<1>. DEFINE N == Len(s)
            Upto(k) == \E i, j \in 1 .. N : \A m \in 1 .. k : s[i] <= s[m] /\ s[m] <= s[j]
            good == {k \in 0 .. N : Upto(k)}
<1>1. N \in Nat /\ N > 0 /\ \A i \in 1 .. N : s[i] \in Int
  BY LenProperties, ElementOfSeq
<1>. HIDE DEF N
<1>2. 0 \in good
  <2>1. 1 \in 1 .. N /\ \A m \in 1 .. 0 : FALSE
    BY <1>1
  <2>. QED
    BY <1>1, <2>1
<1>3. ASSUME NEW k \in 1 .. N, k - 1 \in good
      PROVE  k \in good
  <2>1. PICK i, j \in 1 .. N : \A m \in 1 .. (k - 1) : s[i] <= s[m] /\ s[m] <= s[j]
    BY <1>3
  <2>2. PICK a \in {i, k} : s[a] <= s[i] /\ s[a] <= s[k]
    BY <1>1
  <2>3. PICK b \in {j, k} : s[j] <= s[b] /\ s[k] <= s[b]
    BY <1>1
  <2>4. a \in 1 .. N /\ b \in 1 .. N
    OBVIOUS
  <2>5. \A m \in 1 .. k : m \in 1 .. (k - 1) \/ m = k
    OBVIOUS
  <2>6. \A m \in 1 .. k : s[a] <= s[m] /\ s[m] <= s[b]
    <3>. SUFFICES ASSUME NEW m \in 1 .. k PROVE s[a] <= s[m] /\ s[m] <= s[b]
      OBVIOUS
    <3>1. s[m] \in Int /\ s[a] \in Int /\ s[b] \in Int /\ s[i] \in Int /\ s[j] \in Int
      BY <1>1, <2>4
    <3>2. CASE m = k
      BY <2>2, <2>3, <3>2
    <3>3. CASE m \in 1 .. (k - 1)
      <4>1. s[i] <= s[m] /\ s[m] <= s[j]
        BY <2>1, <3>3
      <4>2. s[a] <= s[i] /\ s[j] <= s[b]
        BY <2>2, <2>3
      <4>. DEFINE u == s[a]
                  v == s[i]
                  x == s[m]
                  y == s[j]
                  z == s[b]
      <4>3. /\ u \in Int /\ v \in Int /\ x \in Int /\ y \in Int /\ z \in Int
            /\ u <= v /\ v <= x /\ x <= y /\ y <= z
        BY <3>1, <4>1, <4>2
      <4>. HIDE DEF u, v, x, y, z
      <4>4. u <= x /\ x <= z
        BY <4>3
      <4>. QED
        BY <4>4 DEF u, x, z
    <3>. QED
      BY <2>5, <3>2, <3>3
  <2>7. Upto(k)
    BY <2>4, <2>6
  <2>. HIDE DEF Upto
  <2>8. k \in 0 .. N
    BY <1>1
  <2>. QED
    BY <2>7, <2>8
<1>4. N \in good
  <2>. HIDE DEF good
  <2>1. 0 .. N \subseteq good
    BY <1>1, <1>2, <1>3, IntervalInduction
  <2>. QED
    BY <1>1, <2>1
<1>. QED
  BY <1>4 DEF Within, N

\* The same of any series of two values or more.
LEMMA StatisticsType ==
    ASSUME NEW s \in Seq(Int), Len(s) >= 2
    PROVE  /\ Mean(s) \in Int /\ Spread(s) \in Nat
           /\ Tolerance(s) \in Nat \ {0} /\ ToleranceOf(s) = Tolerance(s)
<1>1. Len(s) \in Nat /\ Len(s) > 0
  BY LenProperties
<1>2. PICK i, j \in 1 .. Len(s) : Within(s, s[i], s[j])
  BY <1>1, Extremes
<1>3. s[i] \in Int /\ s[j] \in Int
  BY <1>1, <1>2, ElementOfSeq
<1>. QED
  BY <1>1, <1>2, <1>3, MeanWithin, ToleranceType

(***************************************************************************)
(* What the baselines are.                                                 *)
(***************************************************************************)
Column(runs, name) == [i \in 1 .. Len(runs) |-> runs[i][name]]

RunKeys == {"knee", "slope", "residual", "rundown", "ratio", "final", "reversals"}

\* The values of one feature in the clean runs.
LEMMA ColumnType ==
    ASSUME NEW runs \in Seq(FeaturesType), NEW name \in RunKeys
    PROVE  Column(runs, name) \in Seq(Int) /\ Len(Column(runs, name)) = Len(runs)
<1>. DEFINE N == Len(runs)
            q == Column(runs, name)
<1>1. N \in Nat /\ \A i \in 1 .. N : runs[i] \in FeaturesType
  BY LenProperties, ElementOfSeq
<1>2. \A r \in FeaturesType : /\ r["knee"] \in Int /\ r["slope"] \in Int
                               /\ r["residual"] \in Int /\ r["rundown"] \in Int
                               /\ r["ratio"] \in Int /\ r["final"] \in Int
                               /\ r["reversals"] \in Int
  BY DEF FeaturesType
<1>4. \A r \in FeaturesType : r[name] \in Int
  BY <1>2 DEF RunKeys
<1>5. \A i \in 1 .. N : runs[i][name] \in Int
  BY <1>1, <1>4
<1>3. q \in [1 .. N -> Int]
  BY <1>5 DEF Column
<1>. HIDE DEF q, N
<1>. QED
  BY <1>1, <1>3 DEF q, N

\* What from_clean_runs() learns, column by column.
LEMMA TorqueBaseline ==
    ASSUME NEW runs \in Seq(FeaturesType)
    PROVE  LET b == FromCleanRuns(runs)
           IN  /\ b.knee = Mean(Column(runs, "knee"))
               /\ b.kneeTolerance = Tolerance(Column(runs, "knee"))
               /\ b.slope = Mean(Column(runs, "slope"))
               /\ b.slopeTolerance = Tolerance(Column(runs, "slope"))
               /\ b = [knee |-> b.knee, kneeTolerance |-> b.kneeTolerance,
                       slope |-> b.slope, slopeTolerance |-> b.slopeTolerance,
                       residualMax |-> Mean(Column(runs, "residual"))
                                         + Spread(Column(runs, "residual")),
                       rundownMax |-> Mean(Column(runs, "rundown"))
                                         + Spread(Column(runs, "rundown")),
                       reversalsMax |-> Larger(Mean(Column(runs, "reversals"))
                                         + Spread(Column(runs, "reversals")), 100)]
<1>1. DOMAIN runs = 1 .. Len(runs)
  BY LenProperties
<1>. QED
  BY <1>1 DEF FromCleanRuns, Column, Knee, ElasticSlope

\* Enough clean runs make a baseline with tolerances above nothing.
LEMMA TorqueBaselineType ==
    ASSUME NEW runs \in Seq(FeaturesType), Len(runs) >= 2
    PROVE  FromCleanRuns(runs) \in BaselineType
<1>1. \A name \in RunKeys : /\ Mean(Column(runs, name)) \in Int
                            /\ Spread(Column(runs, name)) \in Nat
                            /\ Tolerance(Column(runs, name)) \in Nat \ {0}
  BY ColumnType, StatisticsType
<1>2. /\ "knee" \in RunKeys /\ "slope" \in RunKeys /\ "residual" \in RunKeys
      /\ "rundown" \in RunKeys /\ "reversals" \in RunKeys
  BY DEF RunKeys
<1>3. \A x \in Int : Larger(x, 100) \in Nat \ {0}
  BY DEF Larger
<1>. DEFINE m(name) == Mean(Column(runs, name))
            sp(name) == Spread(Column(runs, name))
            b == FromCleanRuns(runs)
<1>4. /\ m("knee") \in Int /\ m("slope") \in Int
      /\ m("residual") + sp("residual") \in Int /\ m("rundown") + sp("rundown") \in Int
      /\ m("reversals") + sp("reversals") \in Int
      /\ Tolerance(Column(runs, "knee")) \in Nat \ {0}
      /\ Tolerance(Column(runs, "slope")) \in Nat \ {0}
  <2>1. m("knee") \in Int /\ Tolerance(Column(runs, "knee")) \in Nat \ {0}
    BY <1>1, <1>2
  <2>2. m("slope") \in Int /\ Tolerance(Column(runs, "slope")) \in Nat \ {0}
    BY <1>1, <1>2
  <2>3. m("residual") \in Int /\ sp("residual") \in Nat
    BY <1>1, <1>2
  <2>4. m("rundown") \in Int /\ sp("rundown") \in Nat
    BY <1>1, <1>2
  <2>5. m("reversals") \in Int /\ sp("reversals") \in Nat
    BY <1>1, <1>2
  <2>. HIDE DEF m, sp
  <2>. QED
    BY <2>1, <2>2, <2>3, <2>4, <2>5
<1>5. Larger(m("reversals") + sp("reversals"), 100) \in Nat \ {0}
  BY <1>3, <1>4
<1>6. b = [knee |-> m("knee"), kneeTolerance |-> Tolerance(Column(runs, "knee")),
           slope |-> m("slope"), slopeTolerance |-> Tolerance(Column(runs, "slope")),
           residualMax |-> m("residual") + sp("residual"),
           rundownMax |-> m("rundown") + sp("rundown"),
           reversalsMax |-> Larger(m("reversals") + sp("reversals"), 100)]
  BY TorqueBaseline
<1>. QED
  BY <1>4, <1>5, <1>6 DEF BaselineType

\* What every run reports is taken from every run.
LEMMA ReportedByAll ==
    ASSUME NEW runs, Len(runs) \in Nat, NEW key,
           \A i \in 1 .. Len(runs) : key \in DOMAIN runs[i] /\ runs[i][key] \in Int
    PROVE  Reported(runs, key) = Column(runs, key)
<1>. DEFINE N == Len(runs)
            f == [k \in 0 .. N |-> [i \in 1 .. k |-> runs[i][key]]]
            body(g) == [i \in 0 .. N |->
                          IF i = 0 THEN <<>>
                          ELSE IF key \in DOMAIN runs[i] THEN Append(g[i - 1], runs[i][key])
                          ELSE g[i - 1]]
            chosen == CHOOSE g : g = body(g)
<1>1. N \in Nat /\ \A i \in 1 .. N : key \in DOMAIN runs[i] /\ runs[i][key] \in Int
  OBVIOUS
<1>2. Reported(runs, key) = chosen[N]
  BY DEF Reported
<1>. HIDE DEF N
<1>3. ASSUME NEW i \in 1 .. N
      PROVE  f[i] = Append(f[i - 1], runs[i][key])
  <2>. DEFINE q == [j \in 1 .. (i - 1) |-> runs[j][key]]
              r == [j \in 1 .. i |-> runs[j][key]]
              x == runs[i][key]
  <2>1. f[i] = r /\ f[i - 1] = q
    <3>1. i \in 0 .. N /\ i - 1 \in 0 .. N
      BY <1>1
    <3>. QED
      BY <3>1
  <2>2. q \in Seq(Int) /\ Len(q) = i - 1 /\ x \in Int
    <3>1. q \in [1 .. (i - 1) -> Int] /\ i - 1 \in Nat
      BY <1>1
    <3>. HIDE DEF q
    <3>. QED
      BY <1>1, <3>1
  <2>3. r \in Seq(Int) /\ Len(r) = i
    <3>1. r \in [1 .. i -> Int] /\ i \in Nat
      BY <1>1
    <3>. HIDE DEF r
    <3>. QED
      BY <3>1
  <2>4. /\ Append(q, x) \in Seq(Int) /\ Len(Append(q, x)) = i
        /\ \A j \in 1 .. (i - 1) : Append(q, x)[j] = q[j]
        /\ Append(q, x)[i] = x
    <3>. HIDE DEF q, x
    <3>. QED
      BY <2>2, AppendProperties
  <2>5. \A j \in 1 .. i : r[j] = IF j = i THEN x ELSE q[j]
    OBVIOUS
  <2>6. \A j \in 1 .. i : Append(q, x)[j] = r[j]
    <3>1. \A j \in 1 .. i : j = i \/ j \in 1 .. (i - 1)
      OBVIOUS
    <3>. HIDE DEF q, r, x
    <3>. QED
      BY <2>4, <2>5, <3>1
  <2>. HIDE DEF q, r, x, f
  <2>7. Append(q, x) = r
    BY <2>3, <2>4, <2>6, SeqEqual
  <2>. QED
    BY <2>1, <2>7 DEF x
<1>4. f[0] = <<>>
  <2>1. 0 \in 0 .. N /\ [i \in 1 .. 0 |-> runs[i][key]] = <<>>
    BY <1>1
  <2>. QED
    BY <2>1
<1>5. f = body(f)
  <2>1. f = [k \in 0 .. N |-> f[k]]
    OBVIOUS
  <2>2. \A i \in 0 .. N : i = 0 \/ i \in 1 .. N
    BY <1>1
  <2>. HIDE DEF f
  <2>. QED
    BY <1>1, <1>3, <1>4, <2>1, <2>2
<1>6. chosen = body(chosen)
  BY <1>5
<1>. HIDE DEF f, chosen
<1>7. ASSUME NEW g
      PROVE  body(g)[0] = <<>> /\ \A i \in 1 .. N : body(g)[i] = Append(g[i - 1], runs[i][key])
  <2>1. 0 \in 0 .. N /\ \A i \in 1 .. N : i \in 0 .. N /\ i # 0
    BY <1>1
  <2>. QED
    BY <1>1, <2>1
<1>. HIDE DEF body
<1>. DEFINE good == {k \in 0 .. N : chosen[k] = f[k]}
<1>8. 0 \in good
  BY <1>1, <1>4, <1>6, <1>7
<1>9. ASSUME NEW i \in 1 .. N, i - 1 \in good
      PROVE  i \in good
  <2>1. i \in 0 .. N /\ chosen[i - 1] = f[i - 1]
    BY <1>1, <1>9
  <2>2. chosen[i] = Append(chosen[i - 1], runs[i][key])
    BY <1>6, <1>7
  <2>3. f[i] = Append(f[i - 1], runs[i][key])
    BY <1>3
  <2>. QED
    BY <2>1, <2>2, <2>3
<1>10. N \in good
  <2>. HIDE DEF good
  <2>1. 0 .. N \subseteq good
    BY <1>1, <1>8, <1>9, IntervalInduction
  <2>. QED
    BY <1>1, <2>1
<1>11. f[N] = Column(runs, key)
  BY <1>1 DEF f, Column, N
<1>. QED
  BY <1>2, <1>10, <1>11

(***************************************************************************)
(* The two analysers under one set of names: a rule of the wheel looks     *)
(* where the torque analyser has a norm.                                   *)
(***************************************************************************)
KneeKey     == <<"piecewise_linear", "breakpoint_x">>
SlopeKey    == <<"piecewise_linear", "slope_after">>
ResidualKey == <<"piecewise_linear", "residual_variance">>
RundownKey  == <<"piecewise_linear", "mean_before">>
RatioKey    == <<"piecewise_linear", "late_early_slope_ratio">>
ReversalKey == <<"stability", "reversal_count">>
FinalKey    == <<"endpoint", "final_y">>

\* The seven names of the features.
LEMMA NamedIs ==
    ASSUME NEW f
    PROVE  /\ DOMAIN Named(f) = NamedKeys
           /\ NamedKeys = {KneeKey, SlopeKey, ResidualKey, RundownKey, RatioKey, ReversalKey,
                           FinalKey}
           /\ Named(f)[KneeKey] = f.knee /\ Named(f)[SlopeKey] = f.slope
           /\ Named(f)[ResidualKey] = f.residual /\ Named(f)[RundownKey] = f.rundown
           /\ Named(f)[RatioKey] = f.ratio /\ Named(f)[ReversalKey] = f.reversals
           /\ Named(f)[FinalKey] = f.final
<1>1. NamedKeys = {KneeKey, SlopeKey, ResidualKey, RundownKey, RatioKey, ReversalKey, FinalKey}
  BY DEF NamedKeys, KneeKey, SlopeKey, ResidualKey, RundownKey, RatioKey, ReversalKey, FinalKey
<1>2. DOMAIN Named(f) = NamedKeys
  BY DEF Named
<1>3. Named(f)[KneeKey] = f.knee /\ Named(f)[SlopeKey] = f.slope
  BY <1>1 DEF Named, KneeKey, SlopeKey
<1>4. Named(f)[ResidualKey] = f.residual /\ Named(f)[RundownKey] = f.rundown
  BY <1>1 DEF Named, ResidualKey, RundownKey
<1>5. Named(f)[RatioKey] = f.ratio /\ Named(f)[ReversalKey] = f.reversals
  BY <1>1 DEF Named, RatioKey, ReversalKey
<1>6. Named(f)[FinalKey] = f.final
  BY <1>1 DEF Named, FinalKey
<1>. QED
  BY <1>1, <1>2, <1>3, <1>4, <1>5, <1>6

\* A rule of the wheel looks where the named features differ at most that way.
LooksFor(rule, f, g) ==
    /\ Weighable(rule)
    /\ rule.feature \in NamedKeys
    /\ Named(f)[rule.feature] \in Int /\ Named(g)[rule.feature] \in Int
    /\ Further(Named(f)[rule.feature], Named(g)[rule.feature], rule.direction)

\* What it takes for a rule to look at a difference.
LEMMA RuleLooks ==
    ASSUME NEW key \in NamedKeys, NEW weight \in 0 .. 100, NEW direction \in Sides,
           NEW f, NEW g, Named(f)[key] \in Int, Named(g)[key] \in Int,
           Further(Named(f)[key], Named(g)[key], direction)
    PROVE  LooksFor(Rule(key, weight, direction), f, g)
BY DEF LooksFor, Weighable, Rule

\* All six rules of the wheel look where a milder run differs.
LEMMA WheelLooks ==
    ASSUME NEW f \in FeaturesType, NEW g \in FeaturesType, NoMilder(f, g)
    PROVE  /\ Len(WheelRules) = 6
           /\ \A i \in 1 .. 6 : LooksFor(WheelRules[i], f, g)
<1>1. Len(WheelRules) = 6
  BY DEF WheelRules
<1>2. /\ f.knee \in Int /\ g.knee \in Int /\ f.slope \in Int /\ g.slope \in Int
      /\ f.residual \in Int /\ g.residual \in Int /\ f.rundown \in Int /\ g.rundown \in Int
      /\ f.ratio \in Int /\ g.ratio \in Int /\ f.reversals \in Int /\ g.reversals \in Int
  BY DEF FeaturesType
<1>3. 1 \in Sides /\ -1 \in Sides
  BY DEF Sides
<1>4. \A w \in {35, 40, 30, 45, 20} : w \in 0 .. 100
  OBVIOUS
<1>. HIDE DEF Sides
<1>5. LooksFor(Rule(KneeKey, 35, 1), f, g)
  BY <1>2, <1>3, <1>4, NamedIs, RuleLooks DEF Further, NoMilder
<1>6. LooksFor(Rule(SlopeKey, 40, -1), f, g)
  BY <1>2, <1>3, <1>4, NamedIs, RuleLooks DEF Further, NoMilder
<1>7. LooksFor(Rule(ResidualKey, 35, 1), f, g)
  BY <1>2, <1>3, <1>4, NamedIs, RuleLooks DEF Further, NoMilder
<1>8. LooksFor(Rule(RundownKey, 30, 1), f, g)
  BY <1>2, <1>3, <1>4, NamedIs, RuleLooks DEF Further, NoMilder
<1>9. LooksFor(Rule(RatioKey, 45, -1), f, g)
  BY <1>2, <1>3, <1>4, NamedIs, RuleLooks DEF Further, NoMilder
<1>10. LooksFor(Rule(ReversalKey, 20, 1), f, g)
  BY <1>2, <1>3, <1>4, NamedIs, RuleLooks DEF Further, NoMilder
<1>11. /\ WheelRules[1] = Rule(KneeKey, 35, 1) /\ WheelRules[2] = Rule(SlopeKey, 40, -1)
       /\ WheelRules[3] = Rule(ResidualKey, 35, 1) /\ WheelRules[4] = Rule(RundownKey, 30, 1)
       /\ WheelRules[5] = Rule(RatioKey, 45, -1) /\ WheelRules[6] = Rule(ReversalKey, 20, 1)
  BY DEF WheelRules, KneeKey, SlopeKey, ResidualKey, RundownKey, RatioKey, ReversalKey
<1>12. ASSUME NEW i \in 1 .. 6
       PROVE  LooksFor(WheelRules[i], f, g)
  <2>1. i = 1 \/ i = 2 \/ i = 3 \/ i = 4 \/ i = 5 \/ i = 6
    OBVIOUS
  <2>. QED
    BY <1>5, <1>6, <1>7, <1>8, <1>9, <1>10, <1>11, <2>1
<1>. QED
  BY <1>1, <1>12

\* A run that is no milder scores no less in the generic analyser.
LEMMA GenericMonotone ==
    ASSUME NEW f \in FeaturesType, NEW g \in FeaturesType, NoMilder(f, g), NEW b, Learned(b),
           NEW limits, NEW threshold
    PROVE  ScoreFeatures(Named(g), b, WheelRules, limits, threshold).score
             <= ScoreFeatures(Named(f), b, WheelRules, limits, threshold).score
<1>. DEFINE fs == Named(f)
            gs == Named(g)
            v == Found(WheelRules, fs, b)
            w == Found(WheelRules, gs, b)
            s == ScoreFeatures(fs, b, WheelRules, limits, threshold).score
            t == ScoreFeatures(gs, b, WheelRules, limits, threshold).score
<1>1. Len(WheelRules) = 6 /\ 6 \in Nat
  BY WheelLooks
<1>2. DOMAIN fs = NamedKeys /\ DOMAIN gs = NamedKeys
  BY NamedIs
<1>3. \A i \in 1 .. 6 : LooksFor(WheelRules[i], f, g)
  BY WheelLooks
<1>. HIDE DEF fs, gs
<1>4. ASSUME NEW i \in 1 .. 6
      PROVE  /\ Hit(WheelRules[i], fs, b) \in 0 .. Whole /\ Hit(WheelRules[i], gs, b) \in 0 .. Whole
             /\ Hit(WheelRules[i], gs, b) <= Hit(WheelRules[i], fs, b)
  <2>. DEFINE r == WheelRules[i]
  <2>1. LooksFor(r, f, g)
    BY <1>3
  <2>. HIDE DEF r
  <2>2. /\ Weighable(r) /\ r.feature \in DOMAIN fs /\ r.feature \in DOMAIN gs
        /\ fs[r.feature] \in Int /\ gs[r.feature] \in Int
        /\ Further(fs[r.feature], gs[r.feature], r.direction)
    BY <1>2, <2>1 DEF LooksFor, fs, gs
  <2>. QED
    BY <2>2, HitMonotone DEF r
<1>5. /\ v \in [1 .. 6 -> 0 .. Whole] /\ w \in [1 .. 6 -> 0 .. Whole]
      /\ \A i \in 1 .. 6 : w[i] <= v[i]
  BY <1>1, <1>4 DEF Found
<1>. HIDE DEF v, w
<1>6. PICK p : Lowers(p, v, 6) /\ s = Full - p[6]
  <2>1. Len(WheelRules) \in Nat /\ Found(WheelRules, fs, b) \in [1 .. Len(WheelRules) -> 0 .. Whole]
    BY <1>1, <1>5 DEF v
  <2>2. \E h : /\ Lowers(h, Found(WheelRules, fs, b), Len(WheelRules))
              /\ ScoreFeatures(fs, b, WheelRules, limits, threshold).score = Full - h[Len(WheelRules)]
    BY <2>1, ScoreLowers
  <2>. QED
    BY <1>1, <2>2 DEF v, s
<1>7. PICK q : Lowers(q, w, 6) /\ t = Full - q[6]
  <2>1. Len(WheelRules) \in Nat /\ Found(WheelRules, gs, b) \in [1 .. Len(WheelRules) -> 0 .. Whole]
    BY <1>1, <1>5 DEF w
  <2>2. \E h : /\ Lowers(h, Found(WheelRules, gs, b), Len(WheelRules))
              /\ ScoreFeatures(gs, b, WheelRules, limits, threshold).score = Full - h[Len(WheelRules)]
    BY <2>1, ScoreLowers
  <2>. QED
    BY <1>1, <2>2 DEF w, t
<1>8. p[6] <= q[6]
  BY <1>1, <1>5, <1>6, <1>7, LowersMonotone
<1>9. p[6] \in 0 .. Full /\ q[6] \in 0 .. Full
  BY <1>6, <1>7 DEF Lowers
<1>. HIDE DEF s, t
<1>10. t <= s
  BY <1>6, <1>7, <1>8, <1>9, Scales
<1>. QED
  BY <1>10 DEF s, t, fs, gs

NamedRuns(runs) == [i \in DOMAIN runs |-> Named(runs[i])]

\* The runs of a baseline under the generic analyser's names, column by column.
LEMMA NamedColumn ==
    ASSUME NEW runs \in Seq(FeaturesType), NEW key \in NamedKeys
    PROVE  /\ Len(NamedRuns(runs)) = Len(runs) /\ DOMAIN NamedRuns(runs) = 1 .. Len(runs)
           /\ Len(runs) \in Nat
           /\ \A i \in 1 .. Len(runs) : /\ DOMAIN NamedRuns(runs)[i] = NamedKeys
                                        /\ NamedRuns(runs)[i][key] \in Int
           /\ Column(NamedRuns(runs), key) \in Seq(Int)
           /\ Len(Column(NamedRuns(runs), key)) = Len(runs)
           /\ Column(NamedRuns(runs), KneeKey) = Column(runs, "knee")
           /\ Column(NamedRuns(runs), SlopeKey) = Column(runs, "slope")
<1>. DEFINE N == Len(runs)
            ns == NamedRuns(runs)
<1>1. N \in Nat /\ DOMAIN runs = 1 .. N /\ \A i \in 1 .. N : runs[i] \in FeaturesType
  BY LenProperties, ElementOfSeq
<1>2. DOMAIN ns = 1 .. N /\ \A i \in 1 .. N : ns[i] = Named(runs[i])
  BY <1>1 DEF NamedRuns
<1>3. \A f \in FeaturesType : Named(f)[key] \in Int
  <2>. SUFFICES ASSUME NEW f \in FeaturesType PROVE Named(f)[key] \in Int
    OBVIOUS
  <2>1. /\ f.knee \in Int /\ f.slope \in Int /\ f.residual \in Int /\ f.rundown \in Int
        /\ f.ratio \in Int /\ f.reversals \in Int /\ f.final \in Int
    BY DEF FeaturesType
  <2>. QED
    BY <2>1, NamedIs
<1>. DEFINE M(i) == Named(runs[i])
            V == {M(i) : i \in 1 .. N}
<1>4. ns \in [1 .. N -> V]
  BY <1>1 DEF NamedRuns
<1>5. Len(ns) = N
  <2>. HIDE DEF ns, V, N
  <2>. QED
    BY <1>1, <1>4
<1>. DEFINE q == Column(ns, key)
<1>6. q \in [1 .. N -> Int]
  <2>. HIDE DEF ns, N
  <2>. QED
    BY <1>1, <1>2, <1>3, <1>5 DEF Column
<1>7. q \in Seq(Int) /\ Len(q) = N
  <2>. HIDE DEF q, N
  <2>. QED
    BY <1>1, <1>6
<1>8. Column(ns, KneeKey) = Column(runs, "knee") /\ Column(ns, SlopeKey) = Column(runs, "slope")
  <2>1. \A i \in 1 .. N : ns[i][KneeKey] = runs[i]["knee"] /\ ns[i][SlopeKey] = runs[i]["slope"]
    BY <1>2, NamedIs
  <2>. HIDE DEF ns
  <2>. QED
    BY <1>5, <2>1 DEF Column
<1>9. \A i \in 1 .. N : DOMAIN ns[i] = NamedKeys /\ ns[i][key] \in Int
  BY <1>1, <1>2, <1>3, NamedIs
<1>. HIDE DEF ns, N, q
<1>. QED
  BY <1>1, <1>2, <1>5, <1>7, <1>8, <1>9 DEF ns, N, q

\* The generic baseline has every name, and the torque baseline's knee and slope.
LEMMA GenericBaseline ==
    ASSUME NEW runs \in Seq(FeaturesType), Len(runs) >= 2
    PROVE  LET b == LearnBaseline(NamedRuns(runs))
           IN  /\ DOMAIN b.means = NamedKeys
               /\ Learned(b)
               /\ b.means[KneeKey] = Mean(Column(runs, "knee"))
               /\ b.tolerances[KneeKey] = Tolerance(Column(runs, "knee"))
               /\ b.means[SlopeKey] = Mean(Column(runs, "slope"))
               /\ b.tolerances[SlopeKey] = Tolerance(Column(runs, "slope"))
<1>. DEFINE ns == NamedRuns(runs)
            col(key) == Column(ns, key)
            keys == {key \in UNION {DOMAIN ns[i] : i \in DOMAIN ns} : Len(Reported(ns, key)) >= 2}
            b == LearnBaseline(ns)
<1>1. \A key \in NamedKeys : /\ Reported(ns, key) = col(key) /\ Len(col(key)) = Len(runs)
                             /\ col(key) \in Seq(Int)
  <2>. SUFFICES ASSUME NEW key \in NamedKeys
                PROVE  /\ Reported(ns, key) = col(key) /\ Len(col(key)) = Len(runs)
                       /\ col(key) \in Seq(Int)
    OBVIOUS
  <2>1. /\ Len(ns) = Len(runs) /\ Len(ns) \in Nat
        /\ \A i \in 1 .. Len(ns) : key \in DOMAIN ns[i] /\ ns[i][key] \in Int
        /\ col(key) \in Seq(Int) /\ Len(col(key)) = Len(runs)
    BY NamedColumn
  <2>. HIDE DEF ns
  <2>. QED
    BY <2>1, ReportedByAll
<1>2. KneeKey \in NamedKeys /\ SlopeKey \in NamedKeys
  BY NamedIs
<1>3. keys = NamedKeys
  <2>1. /\ DOMAIN ns = 1 .. Len(runs) /\ Len(runs) \in Nat
        /\ \A i \in 1 .. Len(runs) : DOMAIN ns[i] = NamedKeys
    BY <1>2, NamedColumn
  <2>2. UNION {DOMAIN ns[i] : i \in DOMAIN ns} = NamedKeys
    <3>. HIDE DEF ns
    <3>. QED
      BY <2>1
  <2>. HIDE DEF ns, col
  <2>. QED
    BY <1>1, <2>2
<1>4. \A key \in NamedKeys : /\ Mean(col(key)) \in Int /\ ToleranceOf(col(key)) \in Nat \ {0}
                             /\ ToleranceOf(col(key)) = Tolerance(col(key))
  <2>. HIDE DEF col
  <2>. QED
    BY <1>1, StatisticsType
<1>5. col(KneeKey) = Column(runs, "knee") /\ col(SlopeKey) = Column(runs, "slope")
  BY <1>2, NamedColumn
<1>6. b = [means |-> [key \in keys |-> Mean(Reported(ns, key))],
           tolerances |-> [key \in keys |-> ToleranceOf(Reported(ns, key))]]
  BY DEF LearnBaseline
<1>. HIDE DEF ns, col, keys, b
<1>7. DOMAIN b.means = NamedKeys /\ \A key \in NamedKeys : /\ b.means[key] = Mean(col(key))
                                                           /\ b.tolerances[key] = ToleranceOf(col(key))
  BY <1>1, <1>3, <1>6
<1>8. Learned(b)
  BY <1>4, <1>7 DEF Learned
<1>. QED
  BY <1>2, <1>4, <1>5, <1>7, <1>8 DEF b, ns

(***************************************************************************)
(* The fit of a slice. Its spread n * sum(xx) - sum(x)^2 is never below    *)
(* nothing, which is what makes every fit a line: proved value by value.   *)
(***************************************************************************)
\* The squared distances of n values from z, given their sum and the sum of squares.
Around(n, s, q, z) == q - 2 * (s * z) + n * (z * z)

\* One value more leaves the spread, and every sum of squared distances, at least zero.
LEMMA OneMore ==
    ASSUME NEW n \in Nat, NEW s \in Int, NEW q \in Int, NEW u \in Int,
           n * q - s * s >= 0, \A z \in Int : Around(n, s, q, z) >= 0
    PROVE  /\ (n + 1) * (q + u * u) - (s + u) * (s + u) >= 0
           /\ \A z \in Int : Around(n + 1, s + u, q + u * u, z) >= 0
<1>1. ASSUME NEW z \in Int
      PROVE  Around(n + 1, s + u, q + u * u, z) >= 0
  <2>. DEFINE d == u - z
  <2>1. d \in Int /\ u = z + d
    OBVIOUS
  <2>. HIDE DEF d
  <2>2. d * d >= 0
    BY <2>1
  <2>3. q - 2 * (s * z) + n * (z * z) >= 0
    BY DEF Around
  <2>4. u * u = z * z + 2 * (z * d) + d * d /\ u * z = z * z + z * d
    BY <2>1
  <2>5. (s + u) * z = s * z + u * z /\ (n + 1) * (z * z) = n * (z * z) + z * z
    OBVIOUS
  <2>6. /\ s * z \in Int /\ n * (z * z) \in Int /\ z * z \in Int /\ z * d \in Int /\ d * d \in Int
        /\ u * z \in Int /\ u * u \in Int
    BY <2>1
  <2>. QED
    BY <2>2, <2>3, <2>4, <2>5, <2>6 DEF Around
<1>2. (n + 1) * (q + u * u) - (s + u) * (s + u) >= 0
  <2>1. q - 2 * (s * u) + n * (u * u) >= 0
    BY DEF Around
  <2>2. (n + 1) * (q + u * u) = n * q + n * (u * u) + q + u * u
    OBVIOUS
  <2>3. (s + u) * (s + u) = s * s + 2 * (s * u) + u * u
    OBVIOUS
  <2>4. n * q \in Int /\ s * s \in Int /\ s * u \in Int /\ n * (u * u) \in Int /\ u * u \in Int
    OBVIOUS
  <2>. QED
    BY <2>1, <2>2, <2>3, <2>4
<1>. QED
  BY <1>1, <1>2

\* The sums of a series and of its squares.
SumsOf(x, xx, xs, N) ==
    /\ x \in [0 .. N -> Int] /\ xx \in [0 .. N -> Int]
    /\ \A i \in 1 .. N : /\ xs[i] \in Int
                         /\ x[i] = x[i - 1] + xs[i] /\ xx[i] = xx[i - 1] + xs[i] * xs[i]

\* No slice has a spread below nothing.
LEMMA SpreadIsNatural ==
    ASSUME NEW N \in Nat, NEW x, NEW xx, NEW xs, SumsOf(x, xx, xs, N),
           NEW lo \in 0 .. N, NEW hi \in lo .. N
    PROVE  (hi - lo) * (xx[hi] - xx[lo]) - (x[hi] - x[lo]) * (x[hi] - x[lo]) >= 0
<1>. DEFINE M == hi - lo
            s(j) == x[lo + j] - x[lo]
            q(j) == xx[lo + j] - xx[lo]
            Fine(j) == j * q(j) - s(j) * s(j) >= 0 /\ \A z \in Int : Around(j, s(j), q(j), z) >= 0
            good == {j \in 0 .. M : Fine(j)}
<1>0. M \in Nat /\ lo \in Nat /\ \A j \in 0 .. M : lo + j \in 0 .. N
  OBVIOUS
<1>1. \A j \in 0 .. M : s(j) \in Int /\ q(j) \in Int
  BY <1>0 DEF SumsOf
<1>2. 0 \in good
  <2>1. s(0) = 0 /\ q(0) = 0
    BY <1>0, <1>1 DEF SumsOf
  <2>. HIDE DEF s, q
  <2>2. Fine(0)
    BY <2>1 DEF Around
  <2>. QED
    BY <1>0, <2>2
<1>3. ASSUME NEW j \in 1 .. M, j - 1 \in good
      PROVE  j \in good
  <2>. DEFINE u == xs[lo + j]
  <2>1. lo + j \in 1 .. N /\ (lo + j) - 1 = lo + (j - 1) /\ j \in 0 .. M /\ j - 1 \in 0 .. M
    BY <1>0
  <2>2. u \in Int /\ s(j) = s(j - 1) + u /\ q(j) = q(j - 1) + u * u
    <3>1. /\ xs[lo + j] \in Int /\ x[lo + j] = x[(lo + j) - 1] + xs[lo + j]
          /\ xx[lo + j] = xx[(lo + j) - 1] + xs[lo + j] * xs[lo + j]
      BY <2>1 DEF SumsOf
    <3>2. /\ x[lo + (j - 1)] \in Int /\ xx[lo + (j - 1)] \in Int /\ x[lo] \in Int /\ xx[lo] \in Int
          /\ xs[lo + j] * xs[lo + j] \in Int
      BY <1>0, <2>1, <3>1 DEF SumsOf
    <3>. QED
      BY <2>1, <3>1, <3>2
  <2>3. Fine(j - 1) /\ s(j - 1) \in Int /\ q(j - 1) \in Int /\ j - 1 \in Nat /\ (j - 1) + 1 = j
    BY <1>1, <1>3, <2>1
  <2>. HIDE DEF s, q, u
  <2>4. Fine(j)
    <3>. DEFINE n == j - 1
                a == s(j - 1)
                b == q(j - 1)
    <3>1. /\ n \in Nat /\ a \in Int /\ b \in Int /\ u \in Int
          /\ n * b - a * a >= 0 /\ \A z \in Int : Around(n, a, b, z) >= 0
      BY <2>2, <2>3
    <3>2. n + 1 = j /\ s(j) = a + u /\ q(j) = b + u * u
      BY <2>2, <2>3
    <3>. HIDE DEF n, a, b
    <3>3. /\ (n + 1) * (b + u * u) - (a + u) * (a + u) >= 0
          /\ \A z \in Int : Around(n + 1, a + u, b + u * u, z) >= 0
      BY <3>1, OneMore
    <3>. QED
      BY <3>2, <3>3
  <2>. HIDE DEF Fine
  <2>. QED
    BY <2>1, <2>4
<1>4. M \in good
  <2>. HIDE DEF good, M
  <2>1. 0 .. M \subseteq good
    BY <1>0, <1>2, <1>3, IntervalInduction
  <2>. QED
    BY <1>0, <2>1
<1>5. lo + M = hi
  BY <1>0
<1>. QED
  BY <1>4, <1>5

SumsType(N) ==
    [n : {N}, x : [0 .. N -> Int], y : [0 .. N -> Int], xx : [0 .. N -> Int],
     xy : [0 .. N -> Int], yy : [0 .. N -> Int]]

\* The products of two series of one length.
LEMMA ProductsType ==
    ASSUME NEW xs \in Seq(Int), NEW ys \in Seq(Int), Len(xs) = Len(ys)
    PROVE  LET q == [i \in 1 .. Len(xs) |-> xs[i] * ys[i]]
           IN  q \in Seq(Int) /\ Len(q) = Len(xs) /\ \A i \in 1 .. Len(xs) : q[i] = xs[i] * ys[i]
<1>. DEFINE N == Len(xs)
            q == [i \in 1 .. N |-> xs[i] * ys[i]]
<1>1. N \in Nat /\ \A i \in 1 .. N : xs[i] \in Int /\ ys[i] \in Int
  BY LenProperties, ElementOfSeq
<1>2. q \in [1 .. N -> Int] /\ \A i \in 1 .. N : q[i] = xs[i] * ys[i]
  <2>. HIDE DEF N
  <2>. QED
    BY <1>1
<1>3. q \in Seq(Int) /\ Len(q) = N
  <2>. HIDE DEF q, N
  <2>. QED
    BY <1>1, <1>2
<1>. QED
  BY <1>2, <1>3

\* The prefix sums of a curve.
LEMMA PrefixSumsType ==
    ASSUME NEW xs \in Seq(Int), NEW ys \in Seq(Int), Len(xs) = Len(ys)
    PROVE  /\ Len(xs) \in Nat
           /\ PrefixSums(xs, ys) \in SumsType(Len(xs))
           /\ SumsOf(PrefixSums(xs, ys).x, PrefixSums(xs, ys).xx, xs, Len(xs))
<1>. DEFINE N == Len(xs)
            sx == [i \in 1 .. N |-> xs[i] * xs[i]]
            sxy == [i \in 1 .. N |-> xs[i] * ys[i]]
            sy == [i \in 1 .. N |-> ys[i] * ys[i]]
<1>1. N \in Nat /\ \A i \in 1 .. N : xs[i] \in Int
  BY LenProperties, ElementOfSeq
<1>2. sx \in Seq(Int) /\ Len(sx) = N /\ \A i \in 1 .. N : sx[i] = xs[i] * xs[i]
  BY ProductsType
<1>3. sxy \in Seq(Int) /\ Len(sxy) = N
  BY ProductsType
<1>4. sy \in Seq(Int) /\ Len(sy) = N
  BY ProductsType
<1>5. PrefixSums(xs, ys) = [n |-> N, x |-> Cumulative(xs), y |-> Cumulative(ys),
                            xx |-> Cumulative(sx), xy |-> Cumulative(sxy), yy |-> Cumulative(sy)]
  BY DEF PrefixSums
<1>. HIDE DEF sx, sxy, sy
<1>6. /\ Cumulative(xs) \in [0 .. N -> Int] /\ Cumulative(ys) \in [0 .. N -> Int]
      /\ Cumulative(sx) \in [0 .. N -> Int] /\ Cumulative(sxy) \in [0 .. N -> Int]
      /\ Cumulative(sy) \in [0 .. N -> Int]
  BY <1>2, <1>3, <1>4, CumulativeIs
<1>7. \A i \in 1 .. N : /\ Cumulative(xs)[i] = Cumulative(xs)[i - 1] + xs[i]
                        /\ Cumulative(sx)[i] = Cumulative(sx)[i - 1] + xs[i] * xs[i]
  <2>1. \A i \in 1 .. Len(xs) : Cumulative(xs)[i] = Cumulative(xs)[i - 1] + xs[i]
    BY CumulativeIs
  <2>2. \A i \in 1 .. Len(sx) : Cumulative(sx)[i] = Cumulative(sx)[i - 1] + sx[i]
    BY <1>2, CumulativeIs
  <2>. QED
    BY <1>2, <2>1, <2>2
<1>. QED
  BY <1>1, <1>5, <1>6, <1>7 DEF SumsType, SumsOf

LineType == [rise : Int, run : Nat \ {0}, sse : Int, n : Nat]

\* A fit is a line over a positive run, whatever the slice, a vertical one included.
LEMMA LineFitType ==
    ASSUME NEW N \in Nat, NEW pre \in SumsType(N), NEW xs, SumsOf(pre.x, pre.xx, xs, N),
           NEW lo \in 0 .. N, NEW hi \in lo .. N
    PROVE  LineFit(pre, lo, hi) \in LineType /\ LineFit(pre, lo, hi).n = hi - lo
<1>. DEFINE n     == hi - lo
            x     == pre.x[hi] - pre.x[lo]
            y     == pre.y[hi] - pre.y[lo]
            yy    == pre.yy[hi] - pre.yy[lo]
            denom == n * (pre.xx[hi] - pre.xx[lo]) - x * x
            rise  == n * (pre.xy[hi] - pre.xy[lo]) - x * y
<1>1. lo \in 0 .. N /\ hi \in 0 .. N
  OBVIOUS
<1>2. /\ pre.x[hi] \in Int /\ pre.x[lo] \in Int /\ pre.y[hi] \in Int /\ pre.y[lo] \in Int
      /\ pre.yy[hi] \in Int /\ pre.yy[lo] \in Int /\ pre.xx[hi] \in Int /\ pre.xx[lo] \in Int
      /\ pre.xy[hi] \in Int /\ pre.xy[lo] \in Int
  BY <1>1 DEF SumsType
<1>3. n \in Nat /\ x \in Int /\ y \in Int /\ yy \in Int
  BY <1>2
<1>4. denom \in Int /\ denom >= 0
  <2>1. denom >= 0
    BY SpreadIsNatural
  <2>. DEFINE z == pre.xx[hi] - pre.xx[lo]
  <2>2. z \in Int
    BY <1>2
  <2>. HIDE DEF n, x, z
  <2>3. n * z - x * x \in Int
    BY <1>3, <2>2
  <2>. QED
    BY <2>1, <2>3 DEF z
<1>5. rise \in Int
  <2>. DEFINE z == pre.xy[hi] - pre.xy[lo]
  <2>2. z \in Int
    BY <1>2
  <2>. HIDE DEF n, x, y, z
  <2>3. n * z - x * y \in Int
    BY <1>3, <2>2
  <2>. QED
    BY <2>3 DEF z
<1>6. LineFit(pre, lo, hi)
        = IF n < 2 THEN Line(0, 1, 0, n)
          ELSE IF denom = 0 THEN Line(0, 1, (Grain \div n) * (n * yy - y * y), n)
          ELSE Line(rise, denom,
                    (Grain \div (n * denom)) * ((n * yy - y * y) * denom - rise * rise), n)
  BY DEF LineFit
<1>. HIDE DEF n, x, y, yy, denom, rise
<1>7. n * yy - y * y \in Int
  BY <1>3
<1>8. CASE n < 2
  BY <1>3, <1>6, <1>8 DEF Line, LineType, n
<1>9. CASE n >= 2 /\ denom = 0
  <2>1. Grain \div n \in Int
    BY <1>3, <1>9, LeastSquaresAssumption
  <2>2. (Grain \div n) * (n * yy - y * y) \in Int
    BY <1>7, <2>1
  <2>. QED
    BY <1>3, <1>6, <1>9, <2>2 DEF Line, LineType, n
<1>10. CASE n >= 2 /\ denom # 0
  <2>. DEFINE m == n * denom
              e == n * yy - y * y
  <2>1. m \in Nat \ {0} /\ denom \in Nat \ {0} /\ e \in Int
    BY <1>3, <1>4, <1>7, <1>10
  <2>2. Grain \div m \in Int
    <3>. HIDE DEF m
    <3>. QED
      BY <2>1, LeastSquaresAssumption
  <2>. DEFINE g == Grain \div m
              f == g * (e * denom - rise * rise)
  <2>3. f \in Int
    <3>. HIDE DEF e, g
    <3>1. e * denom \in Int /\ rise * rise \in Int
      BY <1>5, <2>1
    <3>. QED
      BY <2>2, <3>1 DEF g
  <2>4. LineFit(pre, lo, hi) = Line(rise, denom, f, n)
    BY <1>3, <1>6, <1>10
  <2>. HIDE DEF f
  <2>. QED
    BY <1>3, <1>5, <2>1, <2>3, <2>4 DEF Line, LineType, n
<1>. QED
  BY <1>3, <1>8, <1>9, <1>10

(***************************************************************************)
(* The sweep over the splits. Both analysers keep the first of least       *)
(* error, so they find one and the same split.                             *)
(***************************************************************************)
\* k is the first of lo .. hi where e is least.
FirstLeast(e, lo, hi, k) ==
    /\ k \in lo .. hi
    /\ \A j \in lo .. hi : e[k] < e[j] \/ (e[k] = e[j] /\ k <= j)

\* Some split is the first of least error.
LEMMA LeastExists ==
    ASSUME NEW lo \in Int, NEW hi \in Int, lo <= hi, NEW e \in [lo .. hi -> Int]
    PROVE  \E k : FirstLeast(e, lo, hi, k)
<1>. DEFINE M == hi - lo
            good == {m \in 0 .. M : \E k : FirstLeast(e, lo, lo + m, k)}
<1>1. M \in Nat /\ \A j \in lo .. hi : e[j] \in Int
  OBVIOUS
<1>2. 0 \in good
  <2>1. lo + 0 = lo /\ \A j \in lo .. lo : j = lo
    OBVIOUS
  <2>2. FirstLeast(e, lo, lo + 0, lo)
    BY <2>1 DEF FirstLeast
  <2>. QED
    BY <1>1, <2>2
<1>3. ASSUME NEW m \in 1 .. M, m - 1 \in good
      PROVE  m \in good
  <2>1. PICK k : FirstLeast(e, lo, lo + (m - 1), k)
    BY <1>3
  <2>. DEFINE last == lo + m
  <2>2. /\ last \in lo .. hi /\ lo + (m - 1) = last - 1 /\ m \in 0 .. M
        /\ k \in lo .. last /\ k < last /\ k \in lo .. hi
    BY <1>1, <2>1 DEF FirstLeast
  <2>3. \A j \in lo .. (last - 1) : e[k] < e[j] \/ (e[k] = e[j] /\ k <= j)
    BY <2>1, <2>2 DEF FirstLeast
  <2>4. /\ \A j \in lo .. last : (j \in lo .. (last - 1) \/ j = last) /\ j \in lo .. hi
        /\ e[k] \in Int /\ e[last] \in Int
    BY <1>1, <2>2
  <2>5. CASE e[last] < e[k]
    <3>1. FirstLeast(e, lo, last, last)
      <4>1. last \in lo .. last
        BY <2>2
      <4>2. ASSUME NEW j \in lo .. last
            PROVE  e[last] < e[j] \/ (e[last] = e[j] /\ last <= j)
        <5>1. CASE j = last
          BY <2>2, <5>1
        <5>2. CASE j \in lo .. (last - 1)
          <6>1. e[k] <= e[j] /\ e[j] \in Int
            BY <1>1, <2>3, <2>4, <5>2
          <6>. QED
            BY <2>4, <2>5, <6>1
        <5>. QED
          BY <2>4, <5>1, <5>2
      <4>. QED
        BY <4>1, <4>2 DEF FirstLeast
    <3>. QED
      BY <2>2, <3>1
  <2>6. CASE ~(e[last] < e[k])
    <3>1. FirstLeast(e, lo, last, k)
      <4>2. ASSUME NEW j \in lo .. last
            PROVE  e[k] < e[j] \/ (e[k] = e[j] /\ k <= j)
        <5>1. CASE j = last
          BY <2>2, <2>4, <2>6, <5>1
        <5>2. CASE j \in lo .. (last - 1)
          BY <2>3, <5>2
        <5>. QED
          BY <2>4, <5>1, <5>2
      <4>. QED
        BY <2>2, <4>2 DEF FirstLeast
    <3>. QED
      BY <2>2, <3>1
  <2>. QED
    BY <2>5, <2>6
<1>4. M \in good
  <2>. HIDE DEF good, M
  <2>1. 0 .. M \subseteq good
    BY <1>1, <1>2, <1>3, IntervalInduction
  <2>. QED
    BY <1>1, <2>1
<1>5. lo + M = hi
  OBVIOUS
<1>. QED
  BY <1>4, <1>5

\* And no other is.
LEMMA LeastIsUnique ==
    ASSUME NEW lo \in Int, NEW hi \in Int, NEW e \in [lo .. hi -> Int],
           NEW j, NEW k, FirstLeast(e, lo, hi, j), FirstLeast(e, lo, hi, k)
    PROVE  j = k
<1>1. j \in lo .. hi /\ k \in lo .. hi /\ e[j] \in Int /\ e[k] \in Int
  BY DEF FirstLeast
<1>. QED
  BY <1>1 DEF FirstLeast

\* What the constructors let through.
ValidCurve(c) == c \in CurveType /\ CurveIsValid(c)

Pre(c) == PrefixSums(c.xs, c.ys)
Errors(c) == [k \in Splits(Len(c.xs)) |-> SplitError(Pre(c), k)]

\* What a valid curve has.
LEMMA CurveSums ==
    ASSUME NEW c, ValidCurve(c)
    PROVE  /\ c.xs \in Seq(Int) /\ c.ys \in Seq(Int) /\ Len(c.ys) = Len(c.xs)
           /\ Len(c.xs) \in Nat /\ Len(c.xs) >= 2 * MinSegment
           /\ Pre(c) \in SumsType(Len(c.xs)) /\ Pre(c).n = Len(c.xs)
           /\ SumsOf(Pre(c).x, Pre(c).xx, c.xs, Len(c.xs))
<1>1. c.xs \in Seq(Int) /\ c.ys \in Seq(Int) /\ Len(c.xs) = Len(c.ys)
  BY DEF ValidCurve, CurveType
<1>2. /\ Len(c.xs) \in Nat /\ Pre(c) \in SumsType(Len(c.xs))
      /\ SumsOf(Pre(c).x, Pre(c).xx, c.xs, Len(c.xs))
  BY <1>1, PrefixSumsType DEF Pre
<1>3. Pre(c).n = Len(c.xs)
  BY <1>2 DEF SumsType
<1>. QED
  BY <1>1, <1>2, <1>3 DEF ValidCurve, CurveIsValid

\* Both sweeps choose the first split of least error, and there is one.
LEMMA SweepsAgree ==
    ASSUME NEW c, ValidCurve(c)
    PROVE  /\ BestSplit(Pre(c)) \in Splits(Len(c.xs))
           /\ Breakpoint(Pre(c)) = BestSplit(Pre(c))
<1>. DEFINE N == Len(c.xs)
            pre == Pre(c)
            lo == MinSegment
            hi == N - MinSegment
            e == Errors(c)
<1>1. N \in Nat /\ lo \in Int /\ hi \in Int /\ lo <= hi /\ lo >= 2 /\ hi <= N
  BY CurveSums, LeastSquaresAssumption
<1>2. Splits(N) = lo .. hi /\ pre.n = N
  BY CurveSums DEF Splits
<1>3. e \in [lo .. hi -> Int]
  <2>. SUFFICES ASSUME NEW k \in lo .. hi PROVE SplitError(pre, k) \in Int
    BY <1>2 DEF Errors
  <2>1. 0 \in 0 .. N /\ k \in 0 .. N /\ N \in k .. N
    BY <1>1
  <2>2. LineFit(pre, 0, k) \in LineType /\ LineFit(pre, k, N) \in LineType
    BY <2>1, <1>1, CurveSums, LineFitType
  <2>3. LineFit(pre, 0, k).sse \in Int /\ LineFit(pre, k, N).sse \in Int
    BY <2>2 DEF LineType
  <2>. HIDE DEF pre
  <2>. QED
    BY <1>2, <2>3 DEF SplitError
<1>4. \A k \in lo .. hi : e[k] = SplitError(pre, k)
  BY <1>2 DEF Errors
<1>5. PICK k : FirstLeast(e, lo, hi, k)
  <2>. HIDE DEF e, lo, hi
  <2>. QED
    BY <1>1, <1>3, LeastExists
<1>. DEFINE First(i) ==
                /\ \A j \in Splits(pre.n) : SplitError(pre, i) <= SplitError(pre, j)
                /\ \A j \in Splits(pre.n) : j < i => SplitError(pre, i) < SplitError(pre, j)
            IsLeast(i) ==
                \A j \in Splits(pre.n) :
                    \/ SplitError(pre, i) < SplitError(pre, j)
                    \/ SplitError(pre, i) = SplitError(pre, j) /\ i <= j
            b == BestSplit(pre)
            d == Breakpoint(pre)
<1>6. b = CHOOSE i \in Splits(pre.n) : First(i)
  BY DEF BestSplit
<1>7. d = CHOOSE i \in Splits(pre.n) : IsLeast(i)
  BY DEF Breakpoint
<1>. HIDE DEF e, pre, lo, hi, N, b, d
<1>8. \A i \in Splits(pre.n) : /\ First(i) <=> FirstLeast(e, lo, hi, i)
                               /\ IsLeast(i) <=> FirstLeast(e, lo, hi, i)
  <2>. SUFFICES ASSUME NEW i \in lo .. hi
                PROVE  /\ First(i) <=> FirstLeast(e, lo, hi, i)
                       /\ IsLeast(i) <=> FirstLeast(e, lo, hi, i)
    BY <1>2
  <2>1. IsLeast(i) <=> FirstLeast(e, lo, hi, i)
    BY <1>2, <1>4 DEF FirstLeast
  <2>2. First(i) <=> /\ \A j \in lo .. hi : e[i] <= e[j]
                     /\ \A j \in lo .. hi : j < i => e[i] < e[j]
    BY <1>2, <1>4
  <2>3. \A j \in lo .. hi : e[j] \in Int /\ j \in Int
    BY <1>1, <1>3
  <2>4. (/\ \A j \in lo .. hi : e[i] <= e[j]
         /\ \A j \in lo .. hi : j < i => e[i] < e[j]) <=> FirstLeast(e, lo, hi, i)
    BY <2>3 DEF FirstLeast
  <2>. HIDE DEF First, IsLeast
  <2>. QED
    BY <2>1, <2>2, <2>4
<1>. HIDE DEF First, IsLeast
<1>9. k \in Splits(pre.n) /\ First(k) /\ IsLeast(k)
  BY <1>2, <1>5, <1>8 DEF FirstLeast
<1>10. b \in Splits(pre.n) /\ First(b)
  BY <1>6, <1>9
<1>11. d \in Splits(pre.n) /\ IsLeast(d)
  BY <1>7, <1>9
<1>12. b = d
  BY <1>1, <1>3, <1>8, <1>10, <1>11, LeastIsUnique
<1>. QED
  BY <1>2, <1>10, <1>12 DEF b, d, N, pre

\* A quotient rounded down is a number.
LEMMA QuotientType ==
    ASSUME NEW a \in Int, NEW d \in Nat \ {0}
    PROVE  a \div d \in Int
OBVIOUS

\* The fit of a slice of a valid curve.
LEMMA LineOf ==
    ASSUME NEW c, ValidCurve(c), NEW lo \in 0 .. Len(c.xs), NEW hi \in lo .. Len(c.xs)
    PROVE  LineFit(Pre(c), lo, hi) \in LineType /\ LineFit(Pre(c), lo, hi).n = hi - lo
BY CurveSums, LineFitType

\* Slope and variance of a fit are numbers.
LEMMA SlopeType ==
    ASSUME NEW line \in LineType
    PROVE  Slope(line) \in Int /\ Variance(line) \in Int
<1>. DEFINE rise == line.rise
            run == line.run
            sse == line.sse
            n == line.n
            g == Grain \div 100
<1>1. rise \in Int /\ run \in Nat \ {0} /\ sse \in Int /\ n \in Nat
  BY DEF LineType
<1>2. g \in Nat \ {0}
  BY LeastSquaresAssumption
<1>3. Slope(line) = (100 * rise) \div run
  BY DEF Slope
<1>4. Variance(line) = IF n > 2 THEN (sse \div g) \div (n - 2) ELSE 0
  BY DEF Variance
<1>. HIDE DEF rise, run, sse, n, g
<1>5. Slope(line) \in Int
  BY <1>1, <1>3, QuotientType
<1>6. CASE n > 2
  <2>1. sse \div g \in Int /\ n - 2 \in Nat \ {0}
    BY <1>1, <1>2, <1>6, QuotientType
  <2>2. (sse \div g) \div (n - 2) \in Int
    BY <2>1, QuotientType
  <2>. QED
    BY <1>4, <1>5, <1>6, <2>2
<1>7. CASE ~(n > 2)
  BY <1>4, <1>5, <1>7
<1>. QED
  BY <1>6, <1>7

\* So is a ratio of slopes, that of a flat first half included.
LEMMA RatioType ==
    ASSUME NEW late \in LineType, NEW early \in LineType
    PROVE  SlopeRatio(late, early) \in Int
<1>. DEFINE lr == late.rise
            er == early.rise
            ln == late.run
            en == early.run
            up == IF er > 0 THEN 1 ELSE -1
<1>1. lr \in Int /\ er \in Int /\ ln \in Nat \ {0} /\ en \in Nat \ {0} /\ up \in Int
  BY DEF LineType
<1>2. SlopeRatio(late, early) = IF er = 0 THEN 100
                                ELSE (100 * up * lr * en) \div (ln * up * er)
  BY DEF SlopeRatio
<1>. HIDE DEF lr, er, ln, en
<1>3. CASE er # 0
  <2>. DEFINE a == 100 * up * lr * en
              p == up * er
  <2>1. p \in Nat \ {0}
    BY <1>1, <1>3
  <2>2. a \in Int
    BY <1>1
  <2>3. ln * up * er = ln * p
    BY <1>1
  <2>. HIDE DEF p
  <2>4. ln * p \in Nat \ {0}
    BY <1>1, <2>1
  <2>. HIDE DEF a
  <2>5. a \div (ln * p) \in Int
    BY <2>2, <2>4, QuotientType
  <2>. QED
    BY <1>2, <1>3, <2>3, <2>5 DEF a
<1>4. CASE er = 0
  BY <1>2, <1>4
<1>. QED
  BY <1>3, <1>4

\* Both analysers compare the halves of the elastic segment in one way.
LEMMA HalvesType ==
    ASSUME NEW c, ValidCurve(c), NEW k \in Splits(Len(c.xs))
    PROVE  LateToEarly(Pre(c), k) \in Int /\ LateEarlyRatio(Pre(c), k) = LateToEarly(Pre(c), k)
<1>. DEFINE N == Len(c.xs)
            n == N - k
            three == (3 * n) \div 4
            half == n \div 2
            late == LineFit(Pre(c), k + three, N)
            early == LineFit(Pre(c), k, k + half)
<1>1. N \in Nat /\ Pre(c).n = N /\ k \in 0 .. N
  BY CurveSums, LeastSquaresAssumption DEF Splits
<1>2. n \in Nat /\ three \in Nat /\ three <= n /\ half \in Nat /\ half <= n /\ k + n = N
  <2>1. n \in Nat /\ k + n = N
    BY <1>1
  <2>. HIDE DEF n
  <2>. QED
    BY <2>1
<1>3. LateEarlyRatio(Pre(c), k) = LateToEarly(Pre(c), k)
  BY DEF LateEarlyRatio, LateToEarly
<1>4. LateToEarly(Pre(c), k) = IF n < 2 * MinSegment THEN 100 ELSE SlopeRatio(late, early)
  BY <1>1 DEF LateToEarly
<1>. HIDE DEF N, n, three, half
<1>5. k + three \in 0 .. N /\ N \in (k + three) .. N /\ k + half \in k .. N /\ k \in 0 .. N
  BY <1>1, <1>2
<1>6. late \in LineType /\ early \in LineType
  BY <1>5, LineOf DEF N
<1>. HIDE DEF late, early
<1>7. SlopeRatio(late, early) \in Int
  BY <1>6, RatioType
<1>. QED
  BY <1>3, <1>4, <1>7

\* A number of samples is finite.
LEMMA CountType ==
    ASSUME NEW n \in Nat, NEW S, S \subseteq 2 .. n
    PROVE  IsFiniteSet(S) /\ Cardinality(S) \in Nat
<1>1. IsFiniteSet(2 .. n)
  BY FS_Interval
<1>2. IsFiniteSet(S)
  BY <1>1, FS_Subset
<1>. QED
  BY <1>2, FS_CardinalityType

\* A valid curve has all seven features.
LEMMA ExtractedType ==
    ASSUME NEW c, ValidCurve(c)
    PROVE  ExtractFeatures(c) \in FeaturesType
<1>. DEFINE N == Len(c.xs)
            pre == Pre(c)
            k == BestSplit(pre)
            line == LineFit(pre, k, N)
<1>1. /\ N \in Nat /\ pre.n = N /\ k \in Splits(N) /\ pre \in SumsType(N)
      /\ c.xs \in Seq(Int) /\ c.ys \in Seq(Int) /\ Len(c.ys) = N /\ N >= 2 * MinSegment
  BY CurveSums, SweepsAgree
<1>2. /\ k \in 0 .. N /\ k + 1 \in 1 .. N /\ k \in Nat \ {0} /\ N \in k .. N /\ N \in 1 .. N
  <2>1. N \in Nat /\ k \in MinSegment .. (N - MinSegment) /\ MinSegment \in Nat \ {0, 1}
    BY <1>1, LeastSquaresAssumption DEF Splits
  <2>. HIDE DEF N, k
  <2>. QED
    BY <2>1
<1>3. c.xs[k + 1] \in Int /\ c.ys[N] \in Int /\ pre.y[k] \in Int
  <2>. HIDE DEF k, pre, N
  <2>1. \A i \in 1 .. Len(c.xs) : c.xs[i] \in Int
    BY <1>1, ElementOfSeq
  <2>2. \A i \in 1 .. Len(c.ys) : c.ys[i] \in Int
    BY <1>1, ElementOfSeq
  <2>3. pre.y[k] \in Int
    BY <1>1, <1>2 DEF SumsType
  <2>. QED
    BY <1>1, <1>2, <2>1, <2>2, <2>3 DEF N
<1>4. line \in LineType
  <2>. HIDE DEF k
  <2>. QED
    BY <1>2, LineOf
<1>5. Slope(line) \in Int /\ Variance(line) \in Int
  BY <1>4, SlopeType
<1>6. LateToEarly(pre, k) \in Int
  BY <1>1, HalvesType
<1>7. (100 * pre.y[k]) \div k \in Int
  BY <1>2, <1>3, QuotientType
<1>8. Reversals(c.ys) \in Nat
  <2>. DEFINE S == {i \in 2 .. Len(c.ys) :
                      100 * (c.ys[i - 1] - c.ys[i]) > Larger(Peak(c.ys), 100 * SensorNoise)}
  <2>1. S \subseteq 2 .. N
    BY <1>1
  <2>2. Reversals(c.ys) = Cardinality(S)
    BY DEF Reversals
  <2>. HIDE DEF S
  <2>. QED
    BY <1>1, <2>1, <2>2, CountType
<1>9. ExtractFeatures(c) = [knee |-> 100 * c.xs[k + 1], slope |-> Slope(line),
                            residual |-> Variance(line), rundown |-> (100 * pre.y[k]) \div k,
                            ratio |-> LateToEarly(pre, k), final |-> 100 * c.ys[N],
                            reversals |-> 100 * Reversals(c.ys)]
  BY <1>1 DEF ExtractFeatures, Pre
<1>. HIDE DEF k, pre, line, N
<1>. QED
  BY <1>3, <1>5, <1>6, <1>7, <1>8, <1>9 DEF FeaturesType

\* extract() keeps what each extractor returns under the extractor's name.
LEMMA FeatureIsExtracted ==
    ASSUME NEW c, NEW names, NEW e \in names, NEW f \in DOMAIN RunExtractor(e, c)
    PROVE  <<e, f>> \in DOMAIN Extract(c, names) /\ Extract(c, names)[<<e, f>>] = RunExtractor(e, c)[f]
<1>. DEFINE keys == UNION {{<<x, g>> : g \in DOMAIN RunExtractor(x, c)} : x \in names}
<1>1. Extract(c, names) = [key \in keys |-> RunExtractor(key[1], c)[key[2]]]
  BY DEF Extract
<1>2. <<e, f>> \in keys
  OBVIOUS
<1>3. <<e, f>>[1] = e /\ <<e, f>>[2] = f
  OBVIOUS
<1>. HIDE DEF keys
<1>. QED
  BY <1>1, <1>2, <1>3

\* The generic features that have a name, but for the reversals.
LEMMA ExtractAgrees ==
    ASSUME NEW c, ValidCurve(c)
    PROVE  LET gen == Extract(c, Extractors)
               old == Named(ExtractFeatures(c))
           IN  /\ NamedKeys \subseteq DOMAIN gen
               /\ \A key \in NamedKeys \ {ReversalKey} : gen[key] = old[key]
               /\ gen[ReversalKey] = Stability(c).reversal_count
<1>. DEFINE gen == Extract(c, Extractors)
            old == Named(ExtractFeatures(c))
            ft == ExtractFeatures(c)
            p == RunExtractor("piecewise_linear", c)
            k == BestSplit(Pre(c))
<1>1. /\ "piecewise_linear" \in Extractors /\ "stability" \in Extractors
      /\ "endpoint" \in Extractors
  BY DEF Extractors
<1>2. p = PiecewiseLinear(c)
  BY DEF RunExtractor
<1>3. RunExtractor("stability", c) = Stability(c) /\ RunExtractor("endpoint", c) = Endpoint(c)
  BY DEF RunExtractor
<1>4. Breakpoint(Pre(c)) = k /\ LateEarlyRatio(Pre(c), k) = LateToEarly(Pre(c), k)
  BY SweepsAgree, HalvesType
<1>5. /\ "breakpoint_x" \in DOMAIN p /\ p["breakpoint_x"] = ft.knee
      /\ "slope_after" \in DOMAIN p /\ p["slope_after"] = ft.slope
      /\ "residual_variance" \in DOMAIN p /\ p["residual_variance"] = ft.residual
      /\ "mean_before" \in DOMAIN p /\ p["mean_before"] = ft.rundown
      /\ "late_early_slope_ratio" \in DOMAIN p /\ p["late_early_slope_ratio"] = ft.ratio
  BY <1>2, <1>4 DEF PiecewiseLinear, ExtractFeatures, Pre
<1>6. "reversal_count" \in DOMAIN Stability(c)
  BY DEF Stability
<1>7. "final_y" \in DOMAIN Endpoint(c) /\ Endpoint(c)["final_y"] = ft.final
  <2>1. Pre(c).n = Len(c.ys)
    BY CurveSums
  <2>. QED
    BY <2>1 DEF Endpoint, ExtractFeatures, Pre
<1>. HIDE DEF gen, ft, p, k
<1>8. /\ KneeKey \in DOMAIN gen /\ gen[KneeKey] = ft.knee
      /\ SlopeKey \in DOMAIN gen /\ gen[SlopeKey] = ft.slope
      /\ ResidualKey \in DOMAIN gen /\ gen[ResidualKey] = ft.residual
      /\ RundownKey \in DOMAIN gen /\ gen[RundownKey] = ft.rundown
      /\ RatioKey \in DOMAIN gen /\ gen[RatioKey] = ft.ratio
  BY <1>1, <1>5, FeatureIsExtracted
     DEF gen, p, KneeKey, SlopeKey, ResidualKey, RundownKey, RatioKey
<1>9. /\ ReversalKey \in DOMAIN gen /\ gen[ReversalKey] = Stability(c)["reversal_count"]
      /\ FinalKey \in DOMAIN gen /\ gen[FinalKey] = ft.final
  BY <1>1, <1>3, <1>6, <1>7, FeatureIsExtracted DEF gen, ReversalKey, FinalKey
<1>10. /\ NamedKeys = {KneeKey, SlopeKey, ResidualKey, RundownKey, RatioKey, ReversalKey,
                       FinalKey}
       /\ old[KneeKey] = ft.knee /\ old[SlopeKey] = ft.slope /\ old[ResidualKey] = ft.residual
       /\ old[RundownKey] = ft.rundown /\ old[RatioKey] = ft.ratio /\ old[FinalKey] = ft.final
  BY NamedIs DEF ft
<1>. HIDE DEF old, NamedKeys
<1>11. NamedKeys \subseteq DOMAIN gen
  BY <1>8, <1>9, <1>10
<1>12. \A key \in NamedKeys \ {ReversalKey} : gen[key] = old[key]
  BY <1>8, <1>9, <1>10
<1>13. gen[ReversalKey] = Stability(c).reversal_count
  BY <1>9
<1>. QED
  BY <1>11, <1>12, <1>13 DEF gen, old, ft

\* Of torques that are not negative the peak is the largest magnitude.
LEMMA PeakIs ==
    ASSUME NEW ys \in Seq(Int), Len(ys) > 0, \A y \in Values(ys) : y >= 0
    PROVE  Peak(ys) \in Nat /\ Highest({Magnitude(y) : y \in Values(ys)}) = Peak(ys)
<1>. DEFINE N == Len(ys)
            V == Values(ys)
            W == {Magnitude(y) : y \in V}
<1>1. N \in Nat /\ DOMAIN ys = 1 .. N /\ \A i \in 1 .. N : ys[i] \in Int
  BY LenProperties, ElementOfSeq
<1>2. V = {ys[i] : i \in 1 .. N}
  BY <1>1 DEF Values
<1>3. V \subseteq Nat
  BY <1>1, <1>2
<1>4. W = V
  <2>1. \A y \in Nat : Magnitude(y) = y
    BY DEF Magnitude, Larger
  <2>. HIDE DEF V
  <2>. QED
    BY <1>3, <2>1
<1>5. PICK j \in 1 .. N : \A i \in 1 .. N : ys[i] <= ys[j]
  BY Extremes DEF Within
<1>. DEFINE m == ys[j]
            pk == Peak(ys)
            top == Highest(W)
<1>6. m \in V /\ \A y \in V : y <= m
  BY <1>2, <1>5
<1>7. pk = CHOOSE y \in V : \A i \in 1 .. N : ys[i] <= y
  BY <1>1, <1>2 DEF Peak
<1>8. top = CHOOSE y \in V : \A z \in V : z <= y
  BY <1>4 DEF Highest
<1>. HIDE DEF V, W, N, m, pk, top
<1>9. pk \in V /\ \A y \in V : y <= pk
  BY <1>2, <1>6, <1>7
<1>10. top \in V /\ \A y \in V : y <= top
  BY <1>6, <1>8
<1>11. pk \in Nat /\ top \in Nat /\ pk <= top /\ top <= pk
  BY <1>3, <1>9, <1>10
<1>12. top = pk
  BY <1>11
<1>. QED
  BY <1>11, <1>12 DEF V, W, pk, top

\* The torque analyser allows for noise, so it counts no reversal the other does not.
LEMMA ReversalsAgree ==
    ASSUME NEW c, ValidCurve(c)
    PROVE  LET old == 100 * Reversals(c.ys)
               new == Stability(c).reversal_count
           IN  /\ new \in Int
               /\ (\A y \in Values(c.ys) : y >= 0) =>
                    /\ old <= new
                    /\ (\A d \in StepsBack(c) : d > SensorNoise) => old = new
<1>. DEFINE ys == c.ys
            N == Len(ys)
            pk == Peak(ys)
            floor == Highest({Magnitude(y) : y \in Values(ys)})
            d(i) == ys[i - 1] - ys[i]
            O == {i \in 2 .. N : 100 * d(i) > Larger(pk, 100 * SensorNoise)}
            G == {i \in 2 .. N : 100 * d(i) > floor}
<1>1. ys \in Seq(Int) /\ N \in Nat /\ N > 0
  BY CurveSums, LeastSquaresAssumption
<1>2. \A i \in 2 .. N : d(i) \in Int
  <2>1. \A i \in 1 .. N : ys[i] \in Int
    BY <1>1, ElementOfSeq
  <2>. HIDE DEF ys, N
  <2>. QED
    BY <1>1, <2>1
<1>3. Reversals(ys) = Cardinality(O) /\ Stability(c).reversal_count = 100 * Cardinality(G)
  BY DEF Reversals, Stability
<1>4. O \subseteq 2 .. N /\ G \subseteq 2 .. N
  OBVIOUS
<1>5. /\ IsFiniteSet(O) /\ Cardinality(O) \in Nat
      /\ IsFiniteSet(G) /\ Cardinality(G) \in Nat
  <2>. HIDE DEF O, G, N
  <2>. QED
    BY <1>1, <1>4, CountType
<1>6. ASSUME \A y \in Values(ys) : y >= 0
      PROVE  /\ Cardinality(O) <= Cardinality(G)
             /\ (\A x \in StepsBack(c) : x > SensorNoise) => O = G
  <2>1. pk \in Nat /\ floor = pk
    BY <1>1, <1>6, PeakIs
  <2>2. SensorNoise \in Nat
    BY TorqueAssumption
  <2>3. /\ G = {i \in 2 .. N : 100 * d(i) > pk}
        /\ Larger(pk, 100 * SensorNoise) \in Nat /\ pk <= Larger(pk, 100 * SensorNoise)
        /\ \/ Larger(pk, 100 * SensorNoise) = pk
           \/ Larger(pk, 100 * SensorNoise) = 100 * SensorNoise
    <3>. HIDE DEF pk, d, floor
    <3>1. G = {i \in 2 .. N : 100 * d(i) > pk}
      BY <2>1
    <3>. DEFINE t == 100 * SensorNoise
    <3>2. t \in Nat
      BY <2>2
    <3>. HIDE DEF t
    <3>3. Larger(pk, t) \in Nat /\ pk <= Larger(pk, t) /\ (Larger(pk, t) = pk \/ Larger(pk, t) = t)
      BY <2>1, <3>2 DEF Larger
    <3>. QED
      BY <3>1, <3>3 DEF t
  <2>. DEFINE edge == Larger(pk, 100 * SensorNoise)
  <2>. HIDE DEF edge, pk, floor
  <2>4. O = {i \in 2 .. N : 100 * d(i) > edge}
    BY DEF edge
  <2>5. pk \in Nat /\ edge \in Nat /\ pk <= edge /\ (edge = pk \/ edge = 100 * SensorNoise)
    BY <2>1, <2>3 DEF edge
  <2>6. G = {i \in 2 .. N : 100 * d(i) > pk}
    BY <2>3
  <2>7. StepsBack(c) = {d(i) : i \in 2 .. N} \cap (Nat \ {0})
    BY DEF StepsBack
  <2>. HIDE DEF d, N, O, G
  <2>8. O \subseteq G
    BY <1>2, <2>4, <2>5, <2>6
  <2>9. Cardinality(O) <= Cardinality(G)
    BY <1>5, <2>8, FS_Subset
  <2>10. ASSUME \A x \in StepsBack(c) : x > SensorNoise
         PROVE  G \subseteq O
    <3>. SUFFICES ASSUME NEW i \in 2 .. N, 100 * d(i) > pk
                  PROVE  100 * d(i) > edge
      BY <2>4, <2>6
    <3>1. d(i) \in Int
      BY <1>2
    <3>2. d(i) \in Nat \ {0}
      BY <2>5, <3>1
    <3>3. d(i) > SensorNoise
      BY <2>7, <2>10, <3>2
    <3>. QED
      BY <2>2, <2>5, <3>2, <3>3
  <2>. QED
    BY <2>8, <2>9, <2>10
<1>. HIDE DEF O, G, ys
<1>. QED
  BY <1>3, <1>5, <1>6 DEF ys

(***************************************************************************)
(* A run on its way, and what follows when it has been measured and        *)
(* scored.                                                                 *)
(***************************************************************************)
ScoresOf(fs) ==
    ScoreFeatures(fs, baselines.generic, WheelRules, WheelLimits, DefaultThreshold)

\* What is known of a run on its way: where its features and its baselines come from.
BenchInv ==
    /\ stage \in {"learning", "received", "measured", "scored", "refused"}
    /\ clean \in CleanRuns
    /\ curve \in RawCurves \cup {NoCurve}
    /\ curve = NoCurve => features \in GivenFeatures
    /\ stage \in {"learning", "received"} => curve = NoCurve \/ features = Nothing
    /\ stage = "received" => curve # NoCurve
    /\ stage \in {"received", "measured", "scored"} =>
         /\ EnoughRuns(clean) /\ EnoughGoodRuns(clean)
         /\ baselines = [torque  |-> FromCleanRuns(clean),
                         generic |-> LearnBaseline(NamedRuns(clean))]
    /\ Measured =>
         /\ curve = NoCurve => generic = Named(features)
         /\ curve # NoCurve => /\ CurveIsValid(curve)
                               /\ features = ExtractFeatures(curve)
                               /\ generic = Extract(curve, Extractors)
    /\ Scored =>
         /\ verdict = ScoreSignature(features, baselines.torque)
         /\ result = ScoresOf(generic)

\* Given features are features, and not the mark for none.
LEMMA GivenIsSomething == \A f \in GivenFeatures : f # Nothing
<1>1. \A f \in FeaturesType : "knee" \in DOMAIN f
  BY DEF FeaturesType
<1>2. "knee" \notin DOMAIN Nothing
  BY DEF Nothing
<1>. QED
  BY <1>1, <1>2, BenchAssumption

\* BenchInv is inductive.
LEMMA BenchInvInit == BenchInit => BenchInv
BY DEF BenchInit, BenchInv, Measured, Scored

\* Each action leaves what it should: a baseline, features, scores of both.
LEMMA BenchInvNext == BenchInv /\ [BenchNext]_benchVars => BenchInv'
<1>. SUFFICES ASSUME BenchInv, [BenchNext]_benchVars PROVE BenchInv'
  OBVIOUS
<1>1. CASE Learn
  <2>1. curve = NoCurve => generic' = Named(features)
    BY <1>1, GivenIsSomething DEF BenchInv, Learn
  <2>2. stage' \in {"refused", "measured", "received"}
    BY <1>1 DEF Learn
  <2>3. stage' # "refused" =>
          /\ EnoughRuns(clean) /\ EnoughGoodRuns(clean)
          /\ baselines' = [torque  |-> FromCleanRuns(clean),
                           generic |-> LearnBaseline(NamedRuns(clean))]
          /\ stage' = "measured" <=> curve = NoCurve
    BY <1>1 DEF Learn, NamedRuns
  <2>. QED
    BY <1>1, <2>1, <2>2, <2>3 DEF BenchInv, Learn, Measured, Scored
<1>2. CASE Refuse
  BY <1>2 DEF BenchInv, Refuse, Measured, Scored
<1>3. CASE Measure
  BY <1>3 DEF BenchInv, Measure, Measured, Scored
<1>4. CASE Score
  BY <1>4 DEF BenchInv, Score, Measured, Scored, ScoresOf
<1>5. CASE UNCHANGED benchVars
  BY <1>5 DEF BenchInv, benchVars, Measured, Scored, ScoresOf
<1>6. CASE BenchFinished
  BY <1>5, <1>6 DEF BenchFinished
<1>. QED
  BY <1>1, <1>2, <1>3, <1>4, <1>5, <1>6 DEF BenchNext

\* So it holds of every run.
LEMMA BenchInvHolds == BenchSpec => []BenchInv
BY BenchInvInit, BenchInvNext, PTL DEF BenchSpec

\* A run that is measured has features and baselines of the right kind.
LEMMA Settled ==
    ASSUME BenchInv, Measured
    PROVE  /\ features \in FeaturesType
           /\ clean \in Seq(FeaturesType) /\ Len(clean) >= 2
           /\ baselines.torque = FromCleanRuns(clean) /\ baselines.torque \in BaselineType
           /\ baselines.generic = LearnBaseline(NamedRuns(clean)) /\ Learned(baselines.generic)
           /\ curve # NoCurve => ValidCurve(curve)
<1>1. clean \in Seq(FeaturesType)
  BY BenchAssumption DEF BenchInv
<1>2. Len(clean) \in Nat /\ Len(clean) >= MinRuns
  BY <1>1, LenProperties DEF BenchInv, Measured, EnoughRuns
<1>3. Len(clean) >= 2
  BY <1>2, TorqueAssumption
<1>4. curve # NoCurve => ValidCurve(curve)
  BY BenchAssumption DEF BenchInv, Measured, ValidCurve
<1>5. features \in FeaturesType
  <2>1. CASE curve = NoCurve
    BY <2>1, BenchAssumption DEF BenchInv
  <2>2. CASE curve # NoCurve
    BY <1>4, <2>2, ExtractedType DEF BenchInv
  <2>. QED
    BY <2>1, <2>2
<1>6. /\ baselines.torque = FromCleanRuns(clean)
      /\ baselines.generic = LearnBaseline(NamedRuns(clean))
  BY DEF BenchInv, Measured
<1>. QED
  BY <1>1, <1>3, <1>4, <1>5, <1>6, TorqueBaselineType, GenericBaseline

\* A nudged run is a run, and no milder.
LEMMA WorseIsNoMilder ==
    ASSUME NEW f \in FeaturesType, NEW g \in Worse(f)
    PROVE  g \in FeaturesType /\ NoMilder(g, f)
<1>1. /\ f = [knee |-> f.knee, slope |-> f.slope, residual |-> f.residual, rundown |-> f.rundown,
              ratio |-> f.ratio, final |-> f.final, reversals |-> f.reversals]
      /\ f.knee \in Int /\ f.slope \in Int /\ f.residual \in Int /\ f.rundown \in Int
      /\ f.ratio \in Int /\ f.final \in Int /\ f.reversals \in Nat
  BY DEF FeaturesType
<1>2. PICK d \in Nudges : \/ g = [f EXCEPT !.knee = @ + d]
                          \/ g = [f EXCEPT !.slope = @ - d]
                          \/ g = [f EXCEPT !.residual = @ + d]
                          \/ g = [f EXCEPT !.reversals = @ + 100]
                          \/ g = [f EXCEPT !.rundown = @ + d]
                          \/ g = [f EXCEPT !.ratio = @ - d]
  BY DEF Worse
<1>3. d \in Nat
  BY BenchAssumption
<1>4. CASE g = [f EXCEPT !.knee = @ + d]
  BY <1>1, <1>3, <1>4 DEF FeaturesType, NoMilder
<1>5. CASE g = [f EXCEPT !.slope = @ - d]
  BY <1>1, <1>3, <1>5 DEF FeaturesType, NoMilder
<1>6. CASE g = [f EXCEPT !.residual = @ + d]
  BY <1>1, <1>3, <1>6 DEF FeaturesType, NoMilder
<1>7. CASE g = [f EXCEPT !.reversals = @ + 100]
  BY <1>1, <1>3, <1>7 DEF FeaturesType, NoMilder
<1>8. CASE g = [f EXCEPT !.rundown = @ + d]
  BY <1>1, <1>3, <1>8 DEF FeaturesType, NoMilder
<1>9. CASE g = [f EXCEPT !.ratio = @ - d]
  BY <1>1, <1>3, <1>9 DEF FeaturesType, NoMilder
<1>. QED
  BY <1>2, <1>4, <1>5, <1>6, <1>7, <1>8, <1>9

\* What is scored is scored so that evidence only adds.
LEMMA EvidenceFromInv == BenchInv => EvidenceOnlyAdds
<1>. SUFFICES ASSUME BenchInv, Scored PROVE EvidenceOnlyAdds
  BY DEF EvidenceOnlyAdds
<1>. DEFINE b == baselines.torque
            ds == Deviations(features, b)
<1>0. Measured
  BY DEF Scored, Measured
<1>1. features \in FeaturesType /\ b \in BaselineType /\ Learned(baselines.generic)
  BY <1>0, Settled
<1>2. /\ verdict = ScoreSignature(features, b)
      /\ result = ScoresOf(generic) /\ (curve = NoCurve => generic = Named(features))
  BY <1>0 DEF BenchInv
<1>3. \A f : ScoreSignature(f, b).score = NoisyOr(Deviations(f, b))
  BY DEF ScoreSignature
<1>4. /\ NoisyOr(ds) \in 0 .. Full
      /\ \A i \in DOMAIN ds : 10 * NoisyOr(ds) >= ds[i].weight * Strength(ds[i])
  <2>1. ds \in Seq(DeviationType)
    BY <1>1, DeviationsType
  <2>. HIDE DEF ds
  <2>2. Left(ds) \in 0 .. Full /\ NoisyOr(ds) = Full - Left(ds)
    BY <2>1, LeftBounds
  <2>3. \A i \in DOMAIN ds : 10 * NoisyOr(ds) >= ds[i].weight * Strength(ds[i])
    BY <2>1, LeftBounds DEF Weighed
  <2>. QED
    BY <2>2, <2>3, Scales
<1>5. ASSUME NEW f \in Worse(features)
      PROVE  /\ NoisyOr(Deviations(f, b)) >= NoisyOr(ds)
             /\ curve = NoCurve => ScoresOf(Named(f)).score >= result.score
  <2>1. f \in FeaturesType /\ NoMilder(f, features)
    BY <1>1, <1>5, WorseIsNoMilder
  <2>2. NoisyOr(ds) <= NoisyOr(Deviations(f, b))
    BY <1>1, <2>1, DeviationsMonotone
  <2>3. ScoresOf(Named(features)).score <= ScoresOf(Named(f)).score
    BY <1>1, <2>1, GenericMonotone DEF ScoresOf
  <2>. QED
    BY <1>2, <2>2, <2>3
<1>6. verdict.score = NoisyOr(ds)
  BY <1>2, <1>3
<1>. HIDE DEF ds, b
<1>. QED
  BY <1>3, <1>4, <1>5, <1>6 DEF EvidenceOnlyAdds, ScoresOf, ds, b

\* What is measured is measured alike.
LEMMA AgreementFromInv == BenchInv => GenericAgrees
<1>. SUFFICES ASSUME BenchInv, Measured, curve # NoCurve PROVE GenericAgrees
  BY DEF GenericAgrees
<1>. DEFINE old == Named(features)
<1>1. ValidCurve(curve)
  BY Settled
<1>2. features = ExtractFeatures(curve) /\ generic = Extract(curve, Extractors)
  BY DEF BenchInv
<1>3. DOMAIN old = NamedKeys /\ old[ReversalKey] = features.reversals
  BY NamedIs
<1>4. features.reversals = 100 * Reversals(curve.ys)
  BY <1>2 DEF ExtractFeatures
<1>5. /\ \A key \in NamedKeys \ {ReversalKey} : generic[key] = old[key]
      /\ generic[ReversalKey] = Stability(curve).reversal_count
  BY <1>1, <1>2, ExtractAgrees
<1>6. (\A y \in Values(curve.ys) : y >= 0) =>
        /\ old[ReversalKey] <= generic[ReversalKey]
        /\ (\A d \in StepsBack(curve) : d > SensorNoise) => old[ReversalKey] = generic[ReversalKey]
  <2>1. LET o == 100 * Reversals(curve.ys)
            n == Stability(curve).reversal_count
        IN  (\A y \in Values(curve.ys) : y >= 0) =>
              /\ o <= n
              /\ (\A d \in StepsBack(curve) : d > SensorNoise) => o = n
    BY <1>1, ReversalsAgree
  <2>. HIDE DEF old
  <2>. QED
    BY <1>3, <1>4, <1>5, <2>1
<1>. HIDE DEF old
<1>. QED
  BY <1>3, <1>5, <1>6 DEF GenericAgrees, old, ReversalKey

\* What the knee and the slope alone leave is an upper bound.
LEMMA JoinedBound ==
    ASSUME NEW p \in PartsType
    PROVE  /\ Joined(p) \in Seq(DeviationType)
           /\ Left(Joined(p)) <= Lowered(Lowered(Full, Factor(p.knee)), Factor(p.slope))
<1>. DEFINE None == <<>>
            q == [n \in FeatureNames |-> IF n \in {"knee", "slope"} THEN p[n] ELSE None]
<1>1. /\ p.knee \in AtMostOne /\ p.slope \in AtMostOne /\ p.residual \in AtMostOne
      /\ p.reversals \in AtMostOne /\ p.rundown \in AtMostOne /\ p.ratio \in AtMostOne
  BY DEF PartsType, FeatureNames
<1>2. None \in AtMostOne /\ Factor(None) = 0 /\ None \in Seq(DeviationType)
  BY DEF AtMostOne, Factor
<1>3. \A part \in AtMostOne : Factor(part) \in Int /\ 0 <= Factor(part) /\ part \in Seq(DeviationType)
  BY PartType, Scales
<1>4. None \o p.knee = p.knee /\ \A s \in Seq(DeviationType) : s \o None = s
  BY <1>1, <1>3, ConcatEmptySeq
<1>. HIDE DEF None
<1>5. /\ q.knee = p.knee /\ q.slope = p.slope /\ q.residual = None /\ q.reversals = None
      /\ q.rundown = None /\ q.ratio = None
  BY DEF FeatureNames
<1>6. q \in PartsType
  BY <1>1, <1>2 DEF PartsType
<1>. HIDE DEF q
<1>7. /\ Joined(p) \in Seq(DeviationType) /\ Left(Joined(p)) <= Left(Joined(q))
  <2>1. /\ Factor(q.knee) <= Factor(p.knee) /\ Factor(q.slope) <= Factor(p.slope)
        /\ Factor(q.residual) <= Factor(p.residual) /\ Factor(q.reversals) <= Factor(p.reversals)
        /\ Factor(q.rundown) <= Factor(p.rundown) /\ Factor(q.ratio) <= Factor(p.ratio)
    <3>1. /\ Factor(p.knee) <= Factor(p.knee) /\ Factor(p.slope) <= Factor(p.slope)
          /\ 0 <= Factor(p.residual) /\ 0 <= Factor(p.reversals) /\ 0 <= Factor(p.rundown)
          /\ 0 <= Factor(p.ratio)
      BY <1>1, <1>3
    <3>. QED
      BY <1>2, <1>5, <3>1
  <2>. QED
    BY <1>6, <2>1, JoinedMonotone
<1>8. Joined(q) = None \o p.knee \o p.slope
  <2>1. None \o p.knee \o p.slope \in Seq(DeviationType)
    BY <1>1, <1>2, LeftConcat
  <2>2. Joined(q) = p.knee \o p.slope \o None \o None \o None \o None
    BY <1>5 DEF Joined
  <2>3. p.knee \o p.slope \in Seq(DeviationType) /\ None \o p.knee \o p.slope = p.knee \o p.slope
    BY <1>4, <2>1
  <2>. QED
    BY <1>4, <2>2, <2>3
<1>9. /\ None \o p.knee \in Seq(DeviationType)
      /\ Left(None \o p.knee) = Lowered(Left(None), Factor(p.knee))
  BY <1>1, <1>2, LeftConcat
<1>10. Left(None \o p.knee \o p.slope) = Lowered(Left(None \o p.knee), Factor(p.slope))
  BY <1>1, <1>9, LeftConcat
<1>11. Left(None) = Full
  BY LeftEmpty DEF None
<1>. QED
  BY <1>7, <1>8, <1>9, <1>10, <1>11

(***************************************************************************)
(* Which deviations a run has, for the classes that are read off them.     *)
(***************************************************************************)
Mentions(ds, feature) == \E i \in DOMAIN ds : ds[i].feature = feature

\* A feature is mentioned in two sequences if it is in one of them.
LEMMA MentionsConcat ==
    ASSUME NEW s \in Seq(DeviationType), NEW t \in Seq(DeviationType), NEW feature
    PROVE  /\ s \o t \in Seq(DeviationType)
           /\ Mentions(s \o t, feature) <=> Mentions(s, feature) \/ Mentions(t, feature)
<1>. DEFINE m == Len(s)
            n == Len(t)
            st == s \o t
<1>1. m \in Nat /\ n \in Nat /\ DOMAIN s = 1 .. m /\ DOMAIN t = 1 .. n
  BY LenProperties
<1>2. st \in Seq(DeviationType) /\ Len(st) = m + n
  BY ConcatProperties
<1>3. \A i \in 1 .. (m + n) : st[i] = IF i <= m THEN s[i] ELSE t[i - m]
  BY ConcatProperties
<1>4. DOMAIN st = 1 .. (m + n)
  BY <1>2, LenProperties
<1>. HIDE DEF m, n, st
<1>5. ASSUME Mentions(st, feature)
      PROVE  Mentions(s, feature) \/ Mentions(t, feature)
  <2>1. PICK i \in 1 .. (m + n) : st[i].feature = feature
    BY <1>4, <1>5 DEF Mentions
  <2>2. CASE i <= m
    <3>1. i \in 1 .. m /\ s[i].feature = feature
      BY <1>1, <1>3, <2>1, <2>2
    <3>. QED
      BY <1>1, <3>1 DEF Mentions
  <2>3. CASE ~(i <= m)
    <3>1. i - m \in 1 .. n /\ t[i - m].feature = feature
      BY <1>1, <1>3, <2>1, <2>3
    <3>. QED
      BY <1>1, <3>1 DEF Mentions
  <2>. QED
    BY <2>2, <2>3
<1>6. ASSUME Mentions(s, feature)
      PROVE  Mentions(st, feature)
  <2>1. PICK i \in 1 .. m : s[i].feature = feature
    BY <1>1, <1>6 DEF Mentions
  <2>2. i \in 1 .. (m + n) /\ st[i] = s[i]
    BY <1>1, <1>3
  <2>. QED
    BY <1>4, <2>1, <2>2 DEF Mentions
<1>7. ASSUME Mentions(t, feature)
      PROVE  Mentions(st, feature)
  <2>1. PICK i \in 1 .. n : t[i].feature = feature
    BY <1>1, <1>7 DEF Mentions
  <2>2. /\ m + i \in 1 .. (m + n) /\ ~(m + i <= m) /\ (m + i) - m = i
    BY <1>1
  <2>3. st[m + i] = t[i]
    BY <1>3, <2>2
  <2>. QED
    BY <1>4, <2>1, <2>2, <2>3 DEF Mentions
<1>. QED
  BY <1>2, <1>5, <1>6, <1>7 DEF st

\* So it is in the six parts if it is in one.
LEMMA JoinedMentions ==
    ASSUME NEW p \in PartsType, NEW feature
    PROVE  Mentions(Joined(p), feature) <=>
             \E n \in FeatureNames : Mentions(p[n], feature)
<1>1. /\ p.knee \in AtMostOne /\ p.slope \in AtMostOne /\ p.residual \in AtMostOne
      /\ p.reversals \in AtMostOne /\ p.rundown \in AtMostOne /\ p.ratio \in AtMostOne
  BY DEF PartsType, FeatureNames
<1>. DEFINE S == Seq(DeviationType)
            M(s) == Mentions(s, feature)
            a1 == p.knee
            a2 == a1 \o p.slope
            a3 == a2 \o p.residual
            a4 == a3 \o p.reversals
            a5 == a4 \o p.rundown
            a6 == a5 \o p.ratio
<1>2. \A part \in AtMostOne : part \in S
  BY PartType
<1>3. Joined(p) = a6
  BY DEF Joined
<1>. HIDE DEF M
<1>4. a1 \in S
  BY <1>1, <1>2
<1>. HIDE DEF a1
<1>5. a2 \in S /\ (M(a2) <=> M(a1) \/ M(p.slope))
  BY <1>1, <1>2, <1>4, MentionsConcat DEF M
<1>. HIDE DEF a2
<1>6. a3 \in S /\ (M(a3) <=> M(a2) \/ M(p.residual))
  BY <1>1, <1>2, <1>5, MentionsConcat DEF M
<1>. HIDE DEF a3
<1>7. a4 \in S /\ (M(a4) <=> M(a3) \/ M(p.reversals))
  BY <1>1, <1>2, <1>6, MentionsConcat DEF M
<1>. HIDE DEF a4
<1>8. a5 \in S /\ (M(a5) <=> M(a4) \/ M(p.rundown))
  BY <1>1, <1>2, <1>7, MentionsConcat DEF M
<1>. HIDE DEF a5
<1>9. M(a6) <=> M(a5) \/ M(p.ratio)
  BY <1>1, <1>2, <1>8, MentionsConcat DEF M
<1>. HIDE DEF a6
<1>10. M(a6) <=> \/ M(p.knee) \/ M(p.slope) \/ M(p.residual) \/ M(p.reversals)
                 \/ M(p.rundown) \/ M(p.ratio)
  BY <1>5, <1>6, <1>7, <1>8, <1>9 DEF a1
<1>11. (\E n \in FeatureNames : M(p[n])) <=>
           \/ M(p.knee) \/ M(p.slope) \/ M(p.residual) \/ M(p.reversals)
           \/ M(p.rundown) \/ M(p.ratio)
  BY DEF FeatureNames
<1>. QED
  BY <1>3, <1>10, <1>11 DEF M

\* What a part that is there says: its own name, and no other's.
OwnName(part, name, x) ==
    \A feature : Mentions(part, feature) <=> x > 0 /\ feature = name

\* A part that is there carries its feature's name.
LEMMA PartMentions ==
    ASSUME NEW name, NEW x \in Int, NEW tolerance, NEW weight
    PROVE  OwnName(IF x > 0 THEN Deviates(name, x, tolerance, weight) ELSE <<>>, name, x)
<1>1. CASE x > 0
  <2>. DEFINE d == [feature |-> name, excess |-> x, tolerance |-> tolerance, weight |-> weight]
  <2>1. Deviates(name, x, tolerance, weight) = <<d>> /\ d.feature = name
    BY DEF Deviates
  <2>. HIDE DEF d
  <2>2. DOMAIN <<d>> = {1} /\ <<d>>[1] = d
    OBVIOUS
  <2>. QED
    BY <1>1, <2>1, <2>2 DEF OwnName, Mentions
<1>2. CASE ~(x > 0)
  <2>1. DOMAIN <<>> = {}
    OBVIOUS
  <2>. QED
    BY <1>2, <2>1 DEF OwnName, Mentions
<1>. QED
  BY <1>1, <1>2

\* The same of a departure from a norm.
LEMMA DepartureMentions ==
    ASSUME NEW r \in NormType, NEW o \in Int
    PROVE  OwnName(Departure(r, o), r.feature, Distance(r, o))
<1>. DEFINE x == Distance(r, o)
<1>1. /\ r.feature \in FeatureNames /\ r.expected \in Int /\ r.tolerance \in Nat \ {0}
      /\ r.weight \in 0 .. 100 /\ r.direction \in Sides
  BY DEF NormType
<1>2. x \in Int /\ Departure(r, o) = IF x > 0 THEN Deviates(r.feature, x, r.tolerance, r.weight)
                                     ELSE <<>>
  BY <1>1, DeviationIs DEF Departure, Distance
<1>. HIDE DEF x
<1>. QED
  BY <1>2, PartMentions DEF x

\* Which deviations there are.
LEMMA DeviationsMention ==
    ASSUME NEW f \in FeaturesType, NEW b \in BaselineType
    PROVE  /\ Mentions(Deviations(f, b), "knee") <=> f.knee - b.knee > b.kneeTolerance
           /\ Mentions(Deviations(f, b), "slope") <=> b.slope - f.slope > b.slopeTolerance
           /\ f.ratio < YieldFlattening => Mentions(Deviations(f, b), "ratio")
<1>. DEFINE p == Part(f, b)
<1>1. /\ f.knee \in Int /\ f.slope \in Int /\ f.residual \in Int /\ f.reversals \in Int
      /\ f.rundown \in Int /\ f.ratio \in Int /\ YieldFlattening \in Int
      /\ b.knee \in Int /\ b.slope \in Int /\ b.kneeTolerance \in Int /\ b.slopeTolerance \in Int
  BY DEF FeaturesType, BaselineType, YieldFlattening
<1>2. Deviations(f, b) = Joined(p) /\ p \in PartsType
  <2>1. NoMilder(f, f)
    BY <1>1 DEF NoMilder
  <2>. QED
    BY <2>1, PartsMonotone
<1>3. /\ OwnName(p.knee, "knee", Distance(Norms(b).knee, f.knee))
      /\ OwnName(p.slope, "slope", Distance(Norms(b).slope, f.slope))
      /\ OwnName(p.residual, "residual", Distance(Norms(b).residual, f.residual))
      /\ OwnName(p.reversals, "reversals", Distance(Norms(b).reversals, f.reversals))
      /\ OwnName(p.rundown, "rundown", Distance(Norms(b).rundown, f.rundown))
  <2>1. /\ Norms(b).knee.feature = "knee" /\ Norms(b).slope.feature = "slope"
        /\ Norms(b).residual.feature = "residual" /\ Norms(b).reversals.feature = "reversals"
        /\ Norms(b).rundown.feature = "rundown"
    BY DEF Norms, Norm
  <2>2. OwnName(p.knee, "knee", Distance(Norms(b).knee, f.knee))
    BY <1>1, <2>1, NormsType, DepartureMentions DEF Part
  <2>3. OwnName(p.slope, "slope", Distance(Norms(b).slope, f.slope))
    BY <1>1, <2>1, NormsType, DepartureMentions DEF Part
  <2>4. OwnName(p.residual, "residual", Distance(Norms(b).residual, f.residual))
    BY <1>1, <2>1, NormsType, DepartureMentions DEF Part
  <2>5. OwnName(p.reversals, "reversals", Distance(Norms(b).reversals, f.reversals))
    BY <1>1, <2>1, NormsType, DepartureMentions DEF Part
  <2>6. OwnName(p.rundown, "rundown", Distance(Norms(b).rundown, f.rundown))
    BY <1>1, <2>1, NormsType, DepartureMentions DEF Part
  <2>. QED
    BY <2>2, <2>3, <2>4, <2>5, <2>6
<1>4. OwnName(p.ratio, "ratio", YieldFlattening - f.ratio)
  <2>. DEFINE x == YieldFlattening - f.ratio
  <2>1. x \in Int /\ p.ratio = IF x > 0 THEN Deviates("ratio", x, YieldFlattening, 45) ELSE <<>>
    BY <1>1 DEF Part, Flattening
  <2>. HIDE DEF x, p
  <2>. QED
    BY <2>1, PartMentions DEF x
<1>5. /\ Distance(Norms(b).knee, f.knee) = f.knee - b.knee - b.kneeTolerance
      /\ Distance(Norms(b).slope, f.slope) = b.slope - f.slope - b.slopeTolerance
  BY DEF Distance, Excess, Norms, Norm
<1>6. \A feature : Mentions(Joined(p), feature) <=>
                     \E n \in FeatureNames : Mentions(p[n], feature)
  BY <1>2, JoinedMentions
<1>. HIDE DEF p
<1>7. Mentions(Joined(p), "knee") <=> Mentions(p.knee, "knee")
  BY <1>3, <1>4, <1>6 DEF FeatureNames, OwnName
<1>8. Mentions(Joined(p), "slope") <=> Mentions(p.slope, "slope")
  BY <1>3, <1>4, <1>6 DEF FeatureNames, OwnName
<1>9. Mentions(Joined(p), "ratio") <=> Mentions(p.ratio, "ratio")
  BY <1>3, <1>4, <1>6 DEF FeatureNames, OwnName
<1>10. Mentions(p.knee, "knee") <=> f.knee - b.knee - b.kneeTolerance > 0
  BY <1>3, <1>5 DEF OwnName
<1>11. Mentions(p.slope, "slope") <=> b.slope - f.slope - b.slopeTolerance > 0
  BY <1>3, <1>5 DEF OwnName
<1>12. Mentions(p.ratio, "ratio") <=> YieldFlattening - f.ratio > 0
  BY <1>4 DEF OwnName
<1>. QED
  BY <1>1, <1>2, <1>7, <1>8, <1>9, <1>10, <1>11, <1>12

\* From 1.5 tolerances past the edge a departure counts fully.
LEMMA PullFull ==
    ASSUME NEW x \in Int, NEW t \in Nat \ {0}, NEW w \in 0 .. 100, 2 * x >= 3 * t
    PROVE  Pull(x, t, w) = w * 1000
<1>. DEFINE d == 3 * t
            a == 2000 * x
            s == a \div d
<1>1. d \in Nat \ {0} /\ a \in Int /\ w \in Nat /\ x > 0 /\ a >= 1000 * d
  OBVIOUS
<1>2. Pull(x, t, w) = w * Smaller(s, 1000)
  BY <1>1 DEF Pull
<1>. HIDE DEF a, d
<1>3. s \in Int /\ d * s <= a /\ a < d * s + d
  BY <1>1, DivBounds
<1>. HIDE DEF s
<1>4. s >= 1000
  <2>. SUFFICES ASSUME s <= 999 PROVE FALSE
    BY <1>3
  <2>1. d * s <= d * 999
    BY <1>1, <1>3
  <2>. QED
    BY <1>1, <1>3, <2>1
<1>5. Smaller(s, 1000) = 1000
  BY <1>3, <1>4 DEF Smaller
<1>. QED
  BY <1>2, <1>5

\* An excess of a grain or more.
Tells(x, t) == 2000 * x >= 3 * t

\* From a grain past the edge it counts at all.
LEMMA PullSome ==
    ASSUME NEW x \in Int, NEW t \in Nat \ {0}, NEW w \in 0 .. 100, Tells(x, t)
    PROVE  Pull(x, t, w) >= w
<1>. DEFINE d == 3 * t
            a == 2000 * x
            s == a \div d
            m == Smaller(s, 1000)
<1>1. d \in Nat \ {0} /\ a \in Int /\ w \in Nat /\ x > 0 /\ a >= d
  BY DEF Tells
<1>2. Pull(x, t, w) = w * m
  BY <1>1 DEF Pull
<1>. HIDE DEF a, d
<1>3. s \in Int /\ d * s <= a /\ a < d * s + d
  BY <1>1, DivBounds
<1>. HIDE DEF s
<1>4. s >= 1
  <2>. SUFFICES ASSUME s <= 0 PROVE FALSE
    BY <1>3
  <2>1. d * s <= 0
    BY <1>1, <1>3
  <2>. QED
    BY <1>1, <1>3, <2>1
<1>5. m \in Nat /\ m >= 1
  BY <1>3, <1>4 DEF Smaller
<1>. HIDE DEF m
<1>6. w * m >= w
  BY <1>1, <1>5
<1>. QED
  BY <1>2, <1>6

\* What the knee and the slope of a run weigh, and what they leave at most.
LEMMA KneeAndSlope ==
    ASSUME NEW f \in FeaturesType, NEW b \in BaselineType
    PROVE  LET x == f.knee - b.knee - b.kneeTolerance
               y == b.slope - f.slope - b.slopeTolerance
               u == Pull(x, b.kneeTolerance, 35)
               v == Pull(y, b.slopeTolerance, 40)
               score == NoisyOr(Deviations(f, b))
           IN  /\ x \in Int /\ y \in Int /\ u \in 0 .. Whole /\ v \in 0 .. Whole
               /\ score \in 0 .. Full
               /\ Full - score <= Lowered(Lowered(Full, u), v)
               /\ 10 * score >= u /\ 10 * score >= v
<1>. DEFINE x == f.knee - b.knee - b.kneeTolerance
            y == b.slope - f.slope - b.slopeTolerance
            u == Pull(x, b.kneeTolerance, 35)
            v == Pull(y, b.slopeTolerance, 40)
            score == NoisyOr(Deviations(f, b))
            p == Part(f, b)
            ds == Deviations(f, b)
<1>1. /\ f.knee \in Int /\ f.slope \in Int
      /\ b.knee \in Int /\ b.slope \in Int /\ b.kneeTolerance \in Nat \ {0}
      /\ b.slopeTolerance \in Nat \ {0}
  BY DEF FeaturesType, BaselineType
<1>2. x \in Int /\ y \in Int
  BY <1>1
<1>3. u \in 0 .. Whole /\ v \in 0 .. Whole
  <2>1. 35 \in 0 .. 100 /\ 40 \in 0 .. 100
    OBVIOUS
  <2>. HIDE DEF x, y
  <2>. QED
    BY <1>1, <1>2, <2>1, PullBounds
<1>4. ds = Joined(p) /\ p \in PartsType
  <2>1. NoMilder(f, f)
    BY DEF NoMilder, FeaturesType
  <2>. QED
    BY <2>1, PartsMonotone
<1>5. Factor(p.knee) = u /\ Factor(p.slope) = v
  <2>1. /\ Norms(b).knee.tolerance = b.kneeTolerance /\ Norms(b).knee.weight = 35
        /\ Norms(b).slope.tolerance = b.slopeTolerance /\ Norms(b).slope.weight = 40
        /\ Distance(Norms(b).knee, f.knee) = x
        /\ Distance(Norms(b).slope, f.slope) = y
    BY DEF Norms, Norm, Distance, Excess
  <2>2. p.knee = Departure(Norms(b).knee, f.knee) /\ p.slope = Departure(Norms(b).slope, f.slope)
    BY DEF Part
  <2>. HIDE DEF x, y, p
  <2>. QED
    BY <1>1, <2>1, <2>2, NormsType, DepartureFactor
<1>. HIDE DEF x, y, u, v, p, ds
<1>6. ds \in Seq(DeviationType) /\ Left(ds) <= Lowered(Lowered(Full, u), v)
  BY <1>4, <1>5, JoinedBound
<1>7. Left(ds) \in 0 .. Full /\ score = Full - Left(ds)
  BY <1>6, LeftBounds DEF ds
<1>. DEFINE c == Lowered(Full, u)
            e == Lowered(c, v)
<1>8. c \in 0 .. Full /\ 10 * c <= Whole - u
  BY <1>3, LoweredBounds, Scales
<1>9. e \in 0 .. Full /\ e <= c /\ 10 * e <= Whole - v
  <2>. HIDE DEF c
  <2>. QED
    BY <1>3, <1>8, LoweredBounds
<1>. HIDE DEF c, score
<1>10. Left(ds) <= e
  BY <1>6 DEF c
<1>. HIDE DEF e
<1>11. score \in 0 .. Full /\ Full - score <= e /\ 10 * score >= u /\ 10 * score >= v
  BY <1>3, <1>7, <1>8, <1>9, <1>10, Scales
<1>. QED
  BY <1>2, <1>3, <1>11 DEF x, y, u, v, c, e, score

\* With knee and slope 1.5 tolerances past the edge the score is critical.
LEMMA BothFar ==
    ASSUME NEW f \in FeaturesType, NEW b \in BaselineType,
           2 * (f.knee - b.knee) >= 5 * b.kneeTolerance,
           2 * (b.slope - f.slope) >= 5 * b.slopeTolerance
    PROVE  NoisyOr(Deviations(f, b)) >= 6000
<1>. DEFINE x == f.knee - b.knee - b.kneeTolerance
            y == b.slope - f.slope - b.slopeTolerance
            u == Pull(x, b.kneeTolerance, 35)
            v == Pull(y, b.slopeTolerance, 40)
            score == NoisyOr(Deviations(f, b))
<1>1. /\ f.knee \in Int /\ f.slope \in Int
      /\ b.knee \in Int /\ b.slope \in Int /\ b.kneeTolerance \in Nat \ {0}
      /\ b.slopeTolerance \in Nat \ {0}
  BY DEF FeaturesType, BaselineType
<1>2. x \in Int /\ y \in Int /\ 2 * x >= 3 * b.kneeTolerance /\ 2 * y >= 3 * b.slopeTolerance
  BY <1>1
<1>3. score \in 0 .. Full /\ Full - score <= Lowered(Lowered(Full, u), v)
  BY KneeAndSlope
<1>. HIDE DEF x, y, score
<1>4. u = 35 * 1000 /\ v = 40 * 1000
  <2>1. 35 \in 0 .. 100 /\ 40 \in 0 .. 100
    OBVIOUS
  <2>. DEFINE s == b.kneeTolerance
              t == b.slopeTolerance
  <2>2. s \in Nat \ {0} /\ t \in Nat \ {0} /\ 2 * x >= 3 * s /\ 2 * y >= 3 * t
    BY <1>1, <1>2
  <2>. HIDE DEF s, t
  <2>3. Pull(x, s, 35) = 35 * 1000
    BY <1>2, <2>1, <2>2, PullFull
  <2>4. Pull(y, t, 40) = 40 * 1000
    BY <1>2, <2>1, <2>2, PullFull
  <2>. QED
    BY <2>3, <2>4 DEF s, t
<1>. HIDE DEF u, v
<1>5. Lowered(Full, u) = 6500
  BY <1>4, SMT DEF Lowered, Full, Whole
<1>6. Lowered(Lowered(Full, u), v) = 3900
  BY <1>4, <1>5, SMT DEF Lowered, Full, Whole
<1>7. score >= 6000
  BY <1>3, <1>6, SMT DEF Full
<1>. QED
  BY <1>7 DEF score

\* The classes follow from the same measurements as the score.
LEMMA ClassesFromInv == BenchInv => ClassesAreMeasured
<1>. SUFFICES ASSUME BenchInv, Scored PROVE ClassesAreMeasured
  BY DEF ClassesAreMeasured
<1>. DEFINE b == baselines.torque
            f == features
            classes == {c.class : c \in verdict.classes}
<1>0. Measured
  BY DEF Scored, Measured
<1>1. f \in FeaturesType /\ b \in BaselineType
  BY <1>0, Settled
<1>2. /\ f.knee \in Int /\ f.slope \in Int /\ f.ratio \in Int /\ f.final \in Int
      /\ b.knee \in Int /\ b.slope \in Int /\ b.kneeTolerance \in Nat \ {0}
      /\ b.slopeTolerance \in Nat \ {0} /\ SpecLo \in Int /\ SpecHi \in Int
  BY <1>1, TorqueAssumption DEF FeaturesType, BaselineType
<1>3. verdict = ScoreSignature(f, b)
  BY <1>0 DEF BenchInv
<1>4. /\ verdict.score = NoisyOr(Deviations(f, b))
      /\ verdict.inSpec = (SpecLo <= f.final /\ f.final <= SpecHi)
      /\ verdict.anomalous = (NoisyOr(Deviations(f, b)) >= DefaultThreshold)
      /\ verdict.classes = Classify(f, b)
  BY <1>3 DEF ScoreSignature
<1>5. /\ Counts("knee") <=> f.knee - b.knee > b.kneeTolerance
      /\ Counts("slope") <=> b.slope - f.slope > b.slopeTolerance
      /\ f.ratio < YieldFlattening => Counts("ratio")
  <2>1. \A feature : Counts(feature) <=> Mentions(Deviations(f, b), feature)
    BY DEF Counts, Mentions
  <2>. QED
    BY <1>1, <2>1, DeviationsMention
<1>6. \A name, confidence : Class(name, confidence).class = name
  BY DEF Class
<1>7. /\ \A c \in Contamination(f, b) : c.class = "thread_contamination"
      /\ \A c \in CrossThreading(f, b) : c.class = "cross_threading"
      /\ \A c \in OverTorque(f, b) : c.class = "over_torque"
      /\ \A c \in UnderTorque(f, b) : c.class = "under_torque"
  BY <1>6 DEF Contamination, CrossThreading, OverTorque, UnderTorque
<1>8. classes = {c.class : c \in Contamination(f, b) \cup CrossThreading(f, b)
                                   \cup OverTorque(f, b) \cup UnderTorque(f, b)}
  BY <1>4 DEF Classify
<1>9. Contamination(f, b) # {} <=> f.knee - b.knee > b.kneeTolerance
                                   /\ b.slope - f.slope > b.slopeTolerance
  <2>1. Larger(b.kneeTolerance, 1) = b.kneeTolerance
    BY <1>2 DEF Larger
  <2>2. Larger(b.slopeTolerance, 1) = b.slopeTolerance
    BY <1>2 DEF Larger
  <2>. HIDE DEF b, f
  <2>. QED
    BY <2>1, <2>2 DEF Contamination
<1>10. "thread_contamination" \in classes <=> Contamination(f, b) # {}
  <2>. HIDE DEF classes, b, f
  <2>. QED
    BY <1>7, <1>8
<1>11. "under_torque" \in classes => UnderTorque(f, b) # {}
  <2>. HIDE DEF classes, b, f
  <2>. QED
    BY <1>7, <1>8
<1>12. "over_torque" \in classes => OverTorque(f, b) # {}
  <2>. HIDE DEF classes, b, f
  <2>. QED
    BY <1>7, <1>8
<1>13. ASSUME 2 * (f.knee - b.knee) >= 5 * b.kneeTolerance,
              2 * (b.slope - f.slope) >= 5 * b.slopeTolerance
       PROVE  VerdictSeverity(verdict) = "critical"
  <2>. DEFINE score == NoisyOr(Deviations(f, b))
  <2>1. score >= 6000 /\ score \in Int
    BY <1>1, <1>13, BothFar, KneeAndSlope
  <2>. HIDE DEF score
  <2>2. score >= DefaultThreshold
    BY <2>1, SMT DEF DefaultThreshold
  <2>3. verdict.anomalous = TRUE
    BY <1>4, <2>2 DEF score
  <2>4. verdict.score >= 6000
    BY <1>4, <2>1 DEF score
  <2>. HIDE DEF b, f
  <2>. QED
    BY <2>3, <2>4 DEF VerdictSeverity
<1>14. ASSUME FusionOnlyVerdict(verdict)
       PROVE  /\ "under_torque" \notin classes
              /\ "over_torque" \in classes => Counts("ratio")
  <2>1. SpecLo <= f.final /\ f.final <= SpecHi
    BY <1>4, <1>14 DEF FusionOnlyVerdict
  <2>2. UnderTorque(f, b) = {}
    BY <1>2, <2>1 DEF UnderTorque
  <2>3. OverTorque(f, b) # {} => f.ratio < YieldFlattening
    BY <1>2, <2>1 DEF OverTorque
  <2>. QED
    BY <1>5, <1>11, <1>12, <2>2, <2>3
<1>15. "thread_contamination" \in classes <=> Counts("knee") /\ Counts("slope")
  BY <1>5, <1>9, <1>10
<1>. HIDE DEF classes, b, f
<1>. QED
  BY <1>13, <1>14, <1>15 DEF ClassesAreMeasured, classes, b, f

(***************************************************************************)
(* The tolerance is at most sigma times the range of the clean runs, or a  *)
(* fiftieth of their mean: the squared distances from the mean lie under a *)
(* chord.                                                                  *)
(***************************************************************************)
\* A value between lo and hi is under the chord of the squared distances.
LEMMA UnderChord ==
    ASSUME NEW d \in Int, NEW a \in Int, NEW b \in Int, -a <= d, d <= b
    PROVE  d * d <= (b - a) * d + a * b
<1>. DEFINE u == d + a
            v == b - d
<1>1. u \in Nat /\ v \in Nat /\ a = u - d /\ b = v + d
  OBVIOUS
<1>. HIDE DEF u, v
<1>2. u * v \in Nat
  BY <1>1
<1>3. (b - a) * d + a * b - d * d = u * v
  <2>1. b - a = v - u + 2 * d
    BY <1>1
  <2>2. (v - u + 2 * d) * d = v * d - u * d + 2 * (d * d)
    BY <1>1
  <2>3. (u - d) * (v + d) = u * v + u * d - d * v - d * d
    BY <1>1
  <2>4. v * d = d * v /\ u * d \in Int /\ v * d \in Int /\ d * d \in Int /\ u * v \in Int
    BY <1>1
  <2>5. (b - a) * d = v * d - u * d + 2 * (d * d)
    BY <2>1, <2>2
  <2>6. a * b = u * v + u * d - d * v - d * d
    BY <1>1, <2>3
  <2>. DEFINE ud == u * d
              vd == v * d
              dd == d * d
              uv == u * v
              l == (b - a) * d
              r == a * b
  <2>7. /\ ud \in Int /\ vd \in Int /\ dd \in Int /\ uv \in Int
        /\ l = vd - ud + 2 * dd /\ r = uv + ud - vd - dd
    BY <2>4, <2>5, <2>6
  <2>. HIDE DEF ud, vd, dd, uv, l, r
  <2>8. l + r - dd = uv
    BY <2>7
  <2>. QED
    BY <2>8 DEF dd, uv, l, r
<1>4. (b - a) * d \in Int /\ a * b \in Int /\ d * d \in Int
  OBVIOUS
<1>. QED
  BY <1>2, <1>3, <1>4

\* The squared distances of n values from a mean rounded down by f / n.
LEMMA ChordSum ==
    ASSUME NEW n \in Nat, n >= 2, NEW a \in Nat, NEW b \in Nat, NEW f \in 0 .. (n - 1)
    PROVE  (b - a) * f + n * (a * b) <= (n - 1) * ((a + b) * (a + b))
<1>. DEFINE k == n - 1
            ab == a * b
<1>1. k \in Nat /\ k >= 1 /\ f \in Nat /\ f <= k /\ n = k + 1
  OBVIOUS
<1>2. ab \in Nat /\ a * a \in Nat /\ b * b \in Nat /\ (a + b) * (a + b) = a * a + 2 * ab + b * b
  OBVIOUS
<1>. HIDE DEF k, ab
<1>3. n * ab <= k * (2 * ab)
  <2>1. n * ab = k * ab + ab /\ k * (2 * ab) = k * ab + k * ab /\ k * ab \in Nat
    BY <1>1, <1>2
  <2>2. ab <= k * ab
    BY <1>1, <1>2
  <2>. QED
    BY <1>2, <2>1, <2>2
<1>4. (b - a) * f <= k * (b * b)
  <2>1. b * f <= b * k /\ a * f \in Nat /\ b * f \in Nat
    BY <1>1
  <2>2. (b - a) * f = b * f - a * f
    BY <1>1
  <2>3. b <= b * b
    <3>1. CASE b = 0
      BY <3>1
    <3>2. CASE b >= 1
      BY <3>2
    <3>. QED
      BY <3>1, <3>2
  <2>4. b * k <= (b * b) * k
    BY <1>1, <1>2, <2>3
  <2>5. (b * b) * k = k * (b * b) /\ b * k \in Nat /\ k * (b * b) \in Nat
    BY <1>1, <1>2
  <2>. QED
    BY <2>1, <2>2, <2>4, <2>5
<1>5. k * (a * a + 2 * ab + b * b) = k * (a * a) + k * (2 * ab) + k * (b * b)
  BY <1>1, <1>2
<1>6. /\ k * (a * a) \in Nat /\ k * (2 * ab) \in Nat /\ k * (b * b) \in Nat
      /\ n * ab \in Int /\ (b - a) * f \in Int
  BY <1>1, <1>2
<1>7. (b - a) * f + n * ab <= k * ((a + b) * (a + b))
  BY <1>2, <1>3, <1>4, <1>5, <1>6
<1>. QED
  BY <1>7 DEF k, ab

\* Sigma times the deviation is at most sigma times the range.
LEMMA SpreadWithin ==
    ASSUME NEW s \in Seq(Int), Len(s) >= 2, NEW lo \in Int, NEW hi \in Int, Within(s, lo, hi)
    PROVE  Spread(s) \in Nat /\ Spread(s) <= Sigma * (hi - lo)
<1>. DEFINE n == Len(s)
            m == Mean(s)
            t == Total(s)
            q == Squares(s)
            a == m - lo
            b == hi - m
            f == t - n * m
            c == a * b - (b - a) * m
            r == hi - lo
<1>1. /\ n \in Nat /\ n >= 2 /\ m \in Int /\ lo <= m /\ m <= hi
      /\ n * m <= t /\ t < n * m + n
  BY LenProperties, MeanWithin
<1>2. t \in Int /\ q \in Seq(Int) /\ Len(q) = n /\ Total(q) \in Nat
  BY <1>1, SquaresType, TotalWithin
<1>3. \A i \in 1 .. n : s[i] \in Int /\ lo <= s[i] /\ s[i] <= hi /\ q[i] = (s[i] - m) * (s[i] - m)
  BY <1>1, ElementOfSeq DEF Within, Squares
<1>. HIDE DEF n, m, t, q
<1>4. a \in Nat /\ b \in Nat /\ f \in 0 .. (n - 1) /\ r = a + b
  <2>. DEFINE nm == n * m
  <2>1. nm \in Int
    BY <1>1
  <2>. HIDE DEF nm
  <2>2. nm <= t /\ t < nm + n /\ f = t - nm
    BY <1>1 DEF nm
  <2>3. f \in 0 .. (n - 1)
    BY <1>1, <1>2, <2>1, <2>2
  <2>4. a \in Nat /\ b \in Nat /\ r = a + b
    BY <1>1
  <2>. QED
    BY <2>3, <2>4
<1>5. b - a \in Int /\ c \in Int
  <2>1. a * b \in Int /\ (b - a) * m \in Int
    BY <1>1, <1>4
  <2>. QED
    BY <1>4, <2>1
<1>6. Below(q, s, b - a, c)
  <2>. SUFFICES ASSUME NEW i \in 1 .. n PROVE q[i] <= (b - a) * s[i] + c
    BY DEF Below, n
  <2>. DEFINE d == s[i] - m
              si == s[i]
  <2>0. si \in Int /\ lo <= si /\ si <= hi /\ q[i] = d * d /\ d = si - m
    BY <1>3
  <2>. HIDE DEF si, d
  <2>1. /\ d \in Int /\ -a <= d /\ d <= b /\ q[i] = d * d /\ s[i] = d + m
        /\ a \in Int /\ b \in Int
    <3>1. d \in Int /\ -a <= d /\ d <= b /\ si = d + m
      BY <1>1, <2>0
    <3>. HIDE DEF a, b
    <3>. QED
      BY <1>4, <2>0, <3>1 DEF si
  <2>. HIDE DEF a, b
  <2>2. d * d <= (b - a) * d + a * b
    BY <2>1, UnderChord
  <2>3. (b - a) * (d + m) = (b - a) * d + (b - a) * m
    BY <1>1, <1>4, <2>1
  <2>4. (b - a) * d \in Int /\ (b - a) * m \in Int /\ a * b \in Int /\ d * d \in Int
    BY <1>1, <1>4, <2>1
  <2>. QED
    BY <2>1, <2>2, <2>3, <2>4
<1>7. Total(q) <= (b - a) * t + n * c
  <2>. HIDE DEF a, b, c
  <2>. QED
    BY <1>2, <1>5, <1>6, TotalBound DEF n, t
<1>8. (b - a) * t + n * c = (b - a) * f + n * (a * b)
  <2>. HIDE DEF a, b
  <2>. DEFINE h == b - a
  <2>1. h \in Int /\ f \in Int /\ t = n * m + f /\ n * m \in Int
    BY <1>1, <1>2, <1>5
  <2>. HIDE DEF h, f
  <2>2. h * t = h * (n * m) + h * f
    BY <2>1
  <2>3. n * (a * b - h * m) = n * (a * b) - n * (h * m)
    BY <1>1, <1>4, <2>1
  <2>4. h * (n * m) = n * (h * m)
    BY <1>1, <2>1
  <2>5. h * (n * m) \in Int /\ h * f \in Int /\ n * (a * b) \in Int /\ n * (h * m) \in Int
    BY <1>1, <1>4, <2>1
  <2>. QED
    BY <2>2, <2>3, <2>4, <2>5 DEF h
<1>9. Total(q) <= (n - 1) * (r * r)
  <2>. HIDE DEF a, b, f, r
  <2>1. (b - a) * f + n * (a * b) <= (n - 1) * ((a + b) * (a + b))
    BY <1>1, <1>4, ChordSum
  <2>2. /\ (b - a) * f + n * (a * b) \in Int
        /\ (n - 1) * ((a + b) * (a + b)) \in Int
    <3>1. f \in Int /\ n - 1 \in Int
      BY <1>1, <1>4
    <3>. QED
      BY <1>1, <1>4, <3>1
  <2>. QED
    BY <1>2, <1>4, <1>7, <1>8, <2>1, <2>2
<1>. DEFINE S == Sigma
            z == S * r
            T == Total(q)
            v == (S * S * T) \div (n - 1)
<1>10. S \in Nat /\ z \in Nat /\ r \in Nat /\ n - 1 \in Nat \ {0} /\ T \in Nat
  <2>1. S \in Nat /\ r \in Nat
    BY <1>4, LeastSquaresAssumption
  <2>. HIDE DEF r, S
  <2>2. z \in Nat
    BY <2>1
  <2>. QED
    BY <1>1, <1>2, <2>1, <2>2
<1>11. Spread(s) = Root(v)
  BY DEF Spread, Squares, q, n, m
<1>. DEFINE k == n - 1
            g == S * S * T
<1>12. g \in Nat /\ g <= k * (z * z)
  <2>. HIDE DEF S, T, k, r
  <2>0. S \in Nat /\ T \in Nat /\ k \in Nat /\ r \in Nat /\ T <= k * (r * r)
    BY <1>9, <1>10 DEF T, k
  <2>1. S * S \in Nat /\ k * (r * r) \in Nat
    BY <2>0
  <2>. DEFINE ss == S * S
              kr == k * (r * r)
  <2>. HIDE DEF ss, kr
  <2>2. ss * T <= ss * kr
    BY <2>0, <2>1 DEF ss, kr
  <2>3. ss * kr = k * (z * z)
    BY <2>0 DEF ss, kr
  <2>4. g = ss * T /\ g \in Nat
    BY <2>0, <2>1 DEF ss
  <2>. QED
    BY <2>2, <2>3, <2>4
<1>. HIDE DEF g, z, r
<1>13. v \in Nat /\ v <= z * z
  <2>. DEFINE w == g \div k
              zz == z * z
  <2>0. v = w
    BY DEF g
  <2>. HIDE DEF k
  <2>1. k \in Nat \ {0} /\ zz \in Nat
    BY <1>10 DEF k
  <2>2. w \in Int /\ k * w <= g /\ g < k * w + k
    BY <1>12, <2>1, DivBounds
  <2>. HIDE DEF v, w, zz
  <2>3. g <= k * zz
    BY <1>12 DEF zz
  <2>4. w <= zz
    <3>. SUFFICES ASSUME zz + 1 <= w PROVE FALSE
      BY <2>1, <2>2
    <3>1. k * (zz + 1) <= k * w
      BY <2>1, <2>2
    <3>2. k * (zz + 1) = k * zz + k /\ k * zz \in Nat /\ k * w \in Int
      BY <2>1, <2>2
    <3>. QED
      BY <1>12, <2>1, <2>2, <2>3, <3>1, <3>2
  <2>5. w >= 0
    <3>. SUFFICES ASSUME w + 1 <= 0 PROVE FALSE
      BY <2>2
    <3>1. k * (w + 1) <= 0 /\ k * (w + 1) = k * w + k
      BY <2>1, <2>2
    <3>2. k * w \in Int
      BY <2>1, <2>2
    <3>. QED
      BY <1>12, <2>1, <2>2, <3>1, <3>2
  <2>. QED
    BY <2>0, <2>2, <2>4, <2>5 DEF zz
<1>. HIDE DEF v
<1>14. Root(v) \in Nat /\ Root(v) * Root(v) <= v
  BY <1>13, RootIs
<1>. DEFINE x == Root(v)
<1>15. x <= z
  <2>. HIDE DEF x
  <2>1. x \in Nat /\ x * x <= v
    BY <1>14 DEF x
  <2>. SUFFICES ASSUME z + 1 <= x PROVE FALSE
    BY <1>10, <2>1
  <2>2. (z + 1) * (z + 1) <= x * x /\ (z + 1) * (z + 1) = z * z + 2 * z + 1
    BY <1>10, <2>1
  <2>3. z * z \in Nat /\ x * x \in Nat
    BY <1>10, <2>1
  <2>. QED
    BY <1>10, <1>13, <2>1, <2>2, <2>3
<1>. QED
  BY <1>11, <1>14, <1>15 DEF z, r

\* The tolerance of a column: sigma times its range, or a fiftieth of its mean.
LEMMA ToleranceWithin ==
    ASSUME NEW s \in Seq(Int), Len(s) >= 2, NEW lo \in Int, NEW hi \in Int, Within(s, lo, hi)
    PROVE  LET most == Sigma * (hi - lo) + Magnitude(hi) \div 50 + 1
           IN  /\ most \in Nat /\ Tolerance(s) <= most
               /\ Mean(s) \in Int /\ lo <= Mean(s) /\ Mean(s) <= hi
<1>. DEFINE m == Mean(s)
            r == hi - lo
            sr == Sigma * r
            p == Magnitude(m)
            q == Magnitude(hi)
            pd == p \div 50
            qd == q \div 50
<1>1. m \in Int /\ lo <= m /\ m <= hi
  BY MeanWithin, LenProperties
<1>2. Spread(s) \in Nat /\ Spread(s) <= sr
  BY SpreadWithin
<1>. HIDE DEF m
<1>3. p \in Nat /\ q \in Nat /\ p <= q + r /\ r \in Nat
  BY <1>1 DEF Magnitude, Larger
<1>4. sr \in Nat /\ r <= sr
  <2>. HIDE DEF r
  <2>1. r \in Nat /\ Sigma \in Nat /\ Sigma >= 1
    BY <1>3, LeastSquaresAssumption
  <2>. QED
    BY <2>1
<1>5. Tolerance(s) = Larger(Spread(s), Larger(pd, 1))
  BY DEF Tolerance, m
<1>. HIDE DEF p, q, r, sr
<1>6. /\ pd \in Int /\ 50 * pd <= p /\ p < 50 * pd + 50
      /\ qd \in Int /\ 50 * qd <= q /\ q < 50 * qd + 50
  BY <1>3
<1>. HIDE DEF pd, qd
<1>7. pd <= sr + qd /\ qd >= 0
  BY <1>3, <1>4, <1>6
<1>8. Larger(pd, 1) <= sr + qd + 1 /\ Larger(pd, 1) \in Int
  BY <1>4, <1>6, <1>7 DEF Larger
<1>. DEFINE g == Larger(pd, 1)
            sp == Spread(s)
            most == sr + qd + 1
<1>9. most \in Nat
  BY <1>4, <1>6, <1>7
<1>10. Larger(sp, g) <= most
  <2>. HIDE DEF g
  <2>1. g <= most /\ g \in Int /\ sp \in Int /\ sp <= most
    BY <1>2, <1>4, <1>6, <1>7, <1>8 DEF g
  <2>. HIDE DEF sp, most
  <2>. QED
    BY <2>1 DEF Larger
<1>. QED
  BY <1>1, <1>5, <1>9, <1>10 DEF m, r, sr, q, qd

\* A departure that far is one that counts; d is a five-hundredth of the most.
LEMMA FarPull ==
    ASSUME NEW t \in Nat \ {0}, NEW most \in Nat, t <= most, NEW d \in Int, most < 500 * d + 500,
           NEW delta \in Int, delta > most + d + 1, NEW w \in 0 .. 100
    PROVE  Pull(delta - t, t, w) >= w
<1>. DEFINE x == delta - t
<1>1. x \in Int /\ Tells(x, t)
  BY DEF Tells
<1>. HIDE DEF x
<1>2. Pull(x, t, w) >= w
  BY <1>1, PullSome
<1>. QED
  BY <1>2 DEF x

\* The least and the greatest value of a column.
LEMMA ExtentWithin ==
    ASSUME NEW s \in Seq(Int), Len(s) > 0, NEW V, V = {s[i] : i \in 1 .. Len(s)}
    PROVE  LET lo == CHOOSE v \in V : \A w \in V : v <= w
               hi == CHOOSE v \in V : \A w \in V : w <= v
           IN  lo \in Int /\ hi \in Int /\ Within(s, lo, hi)
<1>. DEFINE lo == CHOOSE v \in V : \A w \in V : v <= w
            hi == CHOOSE v \in V : \A w \in V : w <= v
<1>1. V \subseteq Int
  BY LenProperties, ElementOfSeq
<1>2. PICK i, j \in 1 .. Len(s) : Within(s, s[i], s[j])
  BY Extremes
<1>3. s[i] \in V /\ \A w \in V : s[i] <= w
  BY <1>2 DEF Within
<1>4. s[j] \in V /\ \A w \in V : w <= s[j]
  BY <1>2 DEF Within
<1>5. lo \in V /\ \A w \in V : lo <= w
  <2>. DEFINE P(v) == \A w \in V : v <= w
  <2>1. \E v \in V : P(v)
    BY <1>3
  <2>. HIDE DEF P
  <2>2. (CHOOSE v \in V : P(v)) \in V /\ P(CHOOSE v \in V : P(v))
    BY <2>1
  <2>. QED
    BY <2>2 DEF P
<1>6. hi \in V /\ \A w \in V : w <= hi
  <2>. DEFINE P(v) == \A w \in V : w <= v
  <2>1. \E v \in V : P(v)
    BY <1>4
  <2>. HIDE DEF P
  <2>2. (CHOOSE v \in V : P(v)) \in V /\ P(CHOOSE v \in V : P(v))
    BY <2>1
  <2>. QED
    BY <2>2 DEF P
<1>. HIDE DEF lo, hi
<1>7. Within(s, lo, hi)
  BY <1>5, <1>6 DEF Within
<1>. QED
  BY <1>1, <1>5, <1>6, <1>7 DEF lo, hi

\* The generic score is at least what any of its rules finds.
LEMMA GenericScore ==
    ASSUME NEW f \in FeaturesType, NEW fs,
           \A key \in NamedKeys : key \in DOMAIN fs /\ fs[key] \in Int,
           NEW b, Learned(b), NEW limits, NEW threshold, NEW j \in 1 .. 6
    PROVE  LET score == ScoreFeatures(fs, b, WheelRules, limits, threshold).score
           IN  score \in 0 .. Full /\ 10 * score >= Hit(WheelRules[j], fs, b)
<1>. DEFINE w == Found(WheelRules, fs, b)
            score == ScoreFeatures(fs, b, WheelRules, limits, threshold).score
<1>1. Len(WheelRules) = 6 /\ 6 \in Nat /\ \A i \in 1 .. 6 : LooksFor(WheelRules[i], f, f)
  <2>1. NoMilder(f, f)
    BY DEF NoMilder, FeaturesType
  <2>. QED
    BY <2>1, WheelLooks
<1>2. ASSUME NEW i \in 1 .. 6
      PROVE  Hit(WheelRules[i], fs, b) \in 0 .. Whole
  <2>. DEFINE r == WheelRules[i]
  <2>1. LooksFor(r, f, f)
    BY <1>1
  <2>. HIDE DEF r
  <2>2. /\ Weighable(r) /\ r.feature \in DOMAIN fs /\ fs[r.feature] \in Int
    BY <2>1 DEF LooksFor
  <2>3. Further(fs[r.feature], fs[r.feature], r.direction)
    BY <2>2 DEF Further, Weighable, Sides
  <2>. QED
    BY <2>2, <2>3, HitMonotone DEF r
<1>3. w \in [1 .. 6 -> 0 .. Whole] /\ \A i \in 1 .. 6 : w[i] = Hit(WheelRules[i], fs, b)
  BY <1>1, <1>2 DEF Found
<1>4. PICK h : Lowers(h, w, 6) /\ score = Full - h[6]
  <2>1. Len(WheelRules) \in Nat /\ w \in [1 .. Len(WheelRules) -> 0 .. Whole]
    BY <1>1, <1>3
  <2>2. \E h : Lowers(h, w, Len(WheelRules)) /\ score = Full - h[Len(WheelRules)]
    BY <2>1, ScoreLowers
  <2>. QED
    BY <1>1, <2>2
<1>. HIDE DEF w, score
<1>5. h[6] \in 0 .. Full
  BY <1>4 DEF Lowers
<1>6. 10 * h[6] <= Whole - w[j] /\ w[j] \in 0 .. Whole
  BY <1>1, <1>3, <1>4, LowersEach
<1>7. score \in 0 .. Full /\ 10 * score >= w[j]
  BY <1>4, <1>5, <1>6, Scales
<1>. QED
  BY <1>3, <1>7 DEF score

\* No clean runs leave a tolerance that reaches so far.
LEMMA FarFromInv == BenchInv => FarFromCleanIsScored
<1>. DEFINE knees  == Extent(Knee)
            slopes == Extent(ElasticSlope)
            most(e) == Sigma * (e.hi - e.lo) + Magnitude(e.hi) \div 50 + 1
            margin(e) == most(e) + most(e) \div 500 + 1
<1>. SUFFICES ASSUME BenchInv, Scored,
                     \/ features.knee > knees.hi + margin(knees)
                     \/ features.slope < slopes.lo - margin(slopes)
              PROVE  verdict.score > 0 /\ result.score > 0
  BY DEF FarFromCleanIsScored
<1>. DEFINE b == baselines.torque
            g == baselines.generic
            sk == Column(clean, "knee")
            ss == Column(clean, "slope")
            tk == Tolerance(sk)
            ts == Tolerance(ss)
<1>0. Measured
  BY DEF Scored, Measured
<1>1. /\ features \in FeaturesType /\ clean \in Seq(FeaturesType) /\ Len(clean) >= 2
      /\ b = FromCleanRuns(clean) /\ b \in BaselineType
      /\ g = LearnBaseline(NamedRuns(clean)) /\ Learned(g)
      /\ curve # NoCurve => ValidCurve(curve)
  BY <1>0, Settled
<1>2. features.knee \in Int /\ features.slope \in Int
  BY <1>1 DEF FeaturesType
<1>3. /\ sk \in Seq(Int) /\ Len(sk) = Len(clean) /\ ss \in Seq(Int) /\ Len(ss) = Len(clean)
  <2>1. "knee" \in RunKeys /\ "slope" \in RunKeys
    BY DEF RunKeys
  <2>. QED
    BY <1>1, <2>1, ColumnType
<1>4. /\ b.knee = Mean(sk) /\ b.kneeTolerance = tk /\ b.slope = Mean(ss) /\ b.slopeTolerance = ts
      /\ tk \in Nat \ {0} /\ ts \in Nat \ {0}
  <2>1. b.kneeTolerance \in Nat \ {0} /\ b.slopeTolerance \in Nat \ {0}
    BY <1>1 DEF BaselineType
  <2>2. b.knee = Mean(sk) /\ b.kneeTolerance = tk /\ b.slope = Mean(ss) /\ b.slopeTolerance = ts
    BY <1>1, TorqueBaseline
  <2>. QED
    BY <2>1, <2>2
<1>5. /\ DOMAIN g.means = NamedKeys
      /\ g.means[KneeKey] = Mean(sk) /\ g.tolerances[KneeKey] = tk
      /\ g.means[SlopeKey] = Mean(ss) /\ g.tolerances[SlopeKey] = ts
  BY <1>1, GenericBaseline
<1>6. DOMAIN clean = 1 .. Len(clean) /\ Len(clean) \in Nat
  BY <1>1, LenProperties
<1>7. /\ knees.lo \in Int /\ knees.hi \in Int /\ Within(sk, knees.lo, knees.hi)
      /\ slopes.lo \in Int /\ slopes.hi \in Int /\ Within(ss, slopes.lo, slopes.hi)
  <2>. DEFINE K == {Knee(clean[i]) : i \in DOMAIN clean}
              S == {ElasticSlope(clean[i]) : i \in DOMAIN clean}
  <2>1. K = {sk[i] : i \in 1 .. Len(sk)} /\ S = {ss[i] : i \in 1 .. Len(ss)}
    <3>1. K = {sk[i] : i \in 1 .. Len(sk)}
      BY <1>3, <1>6 DEF Column, Knee
    <3>2. S = {ss[i] : i \in 1 .. Len(ss)}
      BY <1>3, <1>6 DEF Column, ElasticSlope
    <3>. QED
      BY <3>1, <3>2
  <2>2. /\ knees.lo = CHOOSE v \in K : \A w \in K : v <= w
        /\ knees.hi = CHOOSE v \in K : \A w \in K : w <= v
        /\ slopes.lo = CHOOSE v \in S : \A w \in S : v <= w
        /\ slopes.hi = CHOOSE v \in S : \A w \in S : w <= v
    BY DEF Extent
  <2>3. Len(sk) > 0 /\ Len(ss) > 0
    BY <1>1, <1>3, <1>6
  <2>. HIDE DEF K, S, sk, ss, knees, slopes
  <2>4. knees.lo \in Int /\ knees.hi \in Int /\ Within(sk, knees.lo, knees.hi)
    <3>1. LET lo == CHOOSE v \in K : \A w \in K : v <= w
              hi == CHOOSE v \in K : \A w \in K : w <= v
          IN  lo \in Int /\ hi \in Int /\ Within(sk, lo, hi)
      BY <1>3, <2>1, <2>3, ExtentWithin
    <3>. QED
      BY <2>2, <3>1
  <2>5. slopes.lo \in Int /\ slopes.hi \in Int /\ Within(ss, slopes.lo, slopes.hi)
    <3>1. LET lo == CHOOSE v \in S : \A w \in S : v <= w
              hi == CHOOSE v \in S : \A w \in S : w <= v
          IN  lo \in Int /\ hi \in Int /\ Within(ss, lo, hi)
      BY <1>3, <2>1, <2>3, ExtentWithin
    <3>. QED
      BY <2>2, <3>1
  <2>. QED
    BY <2>4, <2>5
<1>. HIDE DEF knees, slopes, sk, ss
<1>8. /\ most(knees) \in Nat /\ tk <= most(knees) /\ Mean(sk) \in Int /\ Mean(sk) <= knees.hi
      /\ most(slopes) \in Nat /\ ts <= most(slopes) /\ Mean(ss) \in Int /\ slopes.lo <= Mean(ss)
  BY <1>1, <1>3, <1>7, ToleranceWithin
<1>. HIDE DEF most, tk, ts
<1>9. 35 \in 0 .. 100 /\ 40 \in 0 .. 100
  OBVIOUS
<1>. DEFINE x == features.knee - Mean(sk) - tk
            y == Mean(ss) - features.slope - ts
            u == Pull(x, tk, 35)
            v == Pull(y, ts, 40)
<1>10. x \in Int /\ y \in Int
  BY <1>2, <1>4, <1>8
<1>11. u >= 35 \/ v >= 40
  <2>1. CASE features.knee > knees.hi + margin(knees)
    <3>. DEFINE delta == features.knee - Mean(sk)
                M == most(knees)
    <3>1. knees.hi + (M + M \div 500 + 1) < features.knee
      BY <2>1
    <3>. HIDE DEF M
    <3>. DEFINE d == M \div 500
    <3>2. M \in Nat /\ d \in Int /\ M < 500 * d + 500 /\ tk <= M
      BY <1>8 DEF M
    <3>. HIDE DEF d
    <3>3. delta \in Int /\ delta > M + d + 1
      BY <1>2, <1>7, <1>8, <3>1, <3>2 DEF d
    <3>. HIDE DEF delta
    <3>4. Pull(delta - tk, tk, 35) >= 35
      BY <1>4, <1>9, <3>2, <3>3, FarPull
    <3>. QED
      BY <3>4 DEF delta
  <2>2. CASE features.slope < slopes.lo - margin(slopes)
    <3>. DEFINE delta == Mean(ss) - features.slope
                M == most(slopes)
    <3>1. features.slope < slopes.lo - (M + M \div 500 + 1)
      BY <2>2
    <3>. HIDE DEF M
    <3>. DEFINE d == M \div 500
    <3>2. M \in Nat /\ d \in Int /\ M < 500 * d + 500 /\ ts <= M
      BY <1>8 DEF M
    <3>. HIDE DEF d
    <3>3. delta \in Int /\ delta > M + d + 1
      BY <1>2, <1>7, <1>8, <3>1, <3>2 DEF d
    <3>. HIDE DEF delta
    <3>4. Pull(delta - ts, ts, 40) >= 40
      BY <1>4, <1>9, <3>2, <3>3, FarPull
    <3>. QED
      BY <3>4 DEF delta
  <2>. QED
    BY <2>1, <2>2
<1>. HIDE DEF x, y, u, v
<1>12. verdict.score > 0
  <2>. DEFINE score == NoisyOr(Deviations(features, b))
  <2>1. verdict.score = score
    BY <1>0 DEF BenchInv, ScoreSignature
  <2>2. score \in 0 .. Full /\ 10 * score >= u /\ 10 * score >= v /\ u \in 0 .. Whole /\ v \in 0 .. Whole
    <3>1. LET p == features.knee - b.knee - b.kneeTolerance
              q == b.slope - features.slope - b.slopeTolerance
              m == Pull(p, b.kneeTolerance, 35)
              n == Pull(q, b.slopeTolerance, 40)
          IN  score \in 0 .. Full /\ 10 * score >= m /\ 10 * score >= n /\ m \in 0 .. Whole
              /\ n \in 0 .. Whole
      BY <1>1, KneeAndSlope
    <3>. HIDE DEF score, b
    <3>. QED
      BY <1>4, <3>1 DEF x, y, u, v
  <2>. HIDE DEF score
  <2>3. score > 0
    BY <1>11, <2>2, Scales
  <2>. QED
    BY <2>1, <2>3
<1>13. /\ \A key \in NamedKeys : key \in DOMAIN generic /\ generic[key] \in Int
       /\ generic[KneeKey] = features.knee /\ generic[SlopeKey] = features.slope
  <2>1. \A key \in NamedKeys : Named(features)[key] \in Int
    <3>1. /\ features.knee \in Int /\ features.slope \in Int /\ features.residual \in Int
          /\ features.rundown \in Int /\ features.ratio \in Int /\ features.reversals \in Int
          /\ features.final \in Int
      BY <1>1 DEF FeaturesType
    <3>. QED
      BY <3>1, NamedIs
  <2>2. CASE curve = NoCurve
    <3>1. generic = Named(features)
      BY <1>0, <2>2 DEF BenchInv
    <3>. QED
      BY <2>1, <3>1, NamedIs
  <2>3. CASE curve # NoCurve
    <3>1. /\ ValidCurve(curve) /\ features = ExtractFeatures(curve)
          /\ generic = Extract(curve, Extractors)
      BY <1>0, <1>1, <2>3 DEF BenchInv
    <3>2. /\ NamedKeys \subseteq DOMAIN generic
          /\ \A key \in NamedKeys \ {ReversalKey} : generic[key] = Named(features)[key]
          /\ generic[ReversalKey] = Stability(curve).reversal_count
      BY <3>1, ExtractAgrees
    <3>3. Stability(curve).reversal_count \in Int
      BY <3>1, ReversalsAgree
    <3>4. /\ KneeKey \in NamedKeys /\ SlopeKey \in NamedKeys
          /\ KneeKey # ReversalKey /\ SlopeKey # ReversalKey
          /\ Named(features)[KneeKey] = features.knee /\ Named(features)[SlopeKey] = features.slope
      BY NamedIs DEF KneeKey, SlopeKey, ReversalKey
    <3>. QED
      BY <2>1, <3>2, <3>3, <3>4
  <2>. QED
    BY <2>2, <2>3
<1>14. result.score > 0
  <2>. DEFINE score == ScoresOf(generic).score
  <2>1. result.score = score
    BY <1>0 DEF BenchInv
  <2>2. /\ WheelRules[1] = Rule(KneeKey, 35, 1) /\ WheelRules[2] = Rule(SlopeKey, 40, -1)
    BY DEF WheelRules, KneeKey, SlopeKey
  <2>3. KneeKey \in NamedKeys /\ SlopeKey \in NamedKeys
    BY NamedIs
  <2>. DEFINE rk == Rule(KneeKey, 35, 1)
              rs == Rule(SlopeKey, 40, -1)
  <2>4. /\ rk.feature = KneeKey /\ rk.weight = 35 /\ rk.direction = 1 /\ Weighable(rk)
        /\ rs.feature = SlopeKey /\ rs.weight = 40 /\ rs.direction = -1 /\ Weighable(rs)
    BY DEF Rule, Weighable, Sides
  <2>. HIDE DEF rk, rs, g
  <2>5. Hit(rk, generic, g) = u
    <3>1. Hit(rk, generic, g) = Tug(rk, generic[KneeKey], g)
      BY <1>1, <1>2, <1>5, <1>13, <2>3, <2>4, HitIsTug
    <3>2. Tug(rk, features.knee, g) = Pull(Excess(features.knee, Mean(sk), tk, 1), tk, 35)
      BY <1>5, <2>4 DEF Tug
    <3>3. Excess(features.knee, Mean(sk), tk, 1) = x
      BY DEF Excess, x
    <3>. QED
      BY <1>13, <3>1, <3>2, <3>3 DEF u
  <2>6. Hit(rs, generic, g) = v
    <3>1. Hit(rs, generic, g) = Tug(rs, generic[SlopeKey], g)
      BY <1>1, <1>2, <1>5, <1>13, <2>3, <2>4, HitIsTug
    <3>2. Tug(rs, features.slope, g) = Pull(Excess(features.slope, Mean(ss), ts, -1), ts, 40)
      BY <1>5, <2>4 DEF Tug
    <3>3. Excess(features.slope, Mean(ss), ts, -1) = y
      BY DEF Excess, y
    <3>. QED
      BY <1>13, <3>1, <3>2, <3>3 DEF v
  <2>7. /\ score \in 0 .. Full
        /\ 10 * score >= Hit(WheelRules[1], generic, g)
        /\ 10 * score >= Hit(WheelRules[2], generic, g)
    <3>1. 1 \in 1 .. 6 /\ 2 \in 1 .. 6
      OBVIOUS
    <3>. QED
      BY <1>1, <1>13, <3>1, GenericScore DEF ScoresOf, g
  <2>8. u \in Int /\ v \in Int
    <3>1. u \in 0 .. Whole /\ v \in 0 .. Whole
      BY <1>4, <1>9, <1>10, PullBounds DEF u, v
    <3>. QED
      BY <3>1, Scales
  <2>. HIDE DEF score
  <2>9. score > 0
    BY <1>11, <2>2, <2>5, <2>6, <2>7, <2>8, Scales DEF rk, rs
  <2>. QED
    BY <2>1, <2>9
<1>. QED
  BY <1>12, <1>14

(***************************************************************************)
(* A slice that is a straight line has no error, and one with a bend in it *)
(* has some: the squared residuals add up, one by one.                     *)
(***************************************************************************)
\* A sum of squares is at least each of them.
LEMMA SquaresAddUp ==
    ASSUME NEW M \in Nat, NEW e, \A j \in 1 .. M : e[j] \in Int,
           NEW s, s[0] = 0, \A j \in 1 .. M : s[j] = s[j - 1] + e[j] * e[j]
    PROVE  /\ s[M] \in Int /\ s[M] >= 0
           /\ \A i \in 1 .. M : s[M] >= e[i] * e[i]
<1>. DEFINE Fine(j) == s[j] \in Int /\ s[j] >= 0 /\ \A i \in 1 .. j : s[j] >= e[i] * e[i]
            good == {j \in 0 .. M : Fine(j)}
<1>1. 0 \in good
  OBVIOUS
<1>2. ASSUME NEW j \in 1 .. M, j - 1 \in good PROVE j \in good
  <2>. DEFINE q == e[j] * e[j]
  <2>1. q \in Int /\ q >= 0
    <3>1. \A a \in Int : a * a \in Int /\ a * a >= 0
      OBVIOUS
    <3>. QED
      BY <3>1
  <2>2. s[j] = s[j - 1] + q /\ Fine(j - 1)
    BY <1>2
  <2>. HIDE DEF q
  <2>3. s[j] \in Int /\ s[j] >= 0 /\ s[j] >= q /\ s[j] >= s[j - 1] /\ s[j - 1] \in Int
    BY <2>1, <2>2
  <2>4. ASSUME NEW i \in 1 .. j PROVE s[j] >= e[i] * e[i]
    <3>1. CASE i = j
      BY <2>3, <3>1 DEF q
    <3>2. CASE i # j
      <4>1. i \in 1 .. (j - 1) /\ i \in 1 .. M
        BY <3>2
      <4>2. s[j - 1] >= e[i] * e[i]
        BY <2>2, <4>1
      <4>3. e[i] \in Int
        BY <4>1
      <4>4. e[i] * e[i] \in Int
        BY <4>3
      <4>. HIDE DEF Fine
      <4>. QED
        BY <2>3, <4>2, <4>4
    <3>. QED
      BY <3>1, <3>2
  <2>. QED
    BY <2>3, <2>4
<1>3. 0 .. M \subseteq good
  <2>. HIDE DEF good
  <2>. QED
    BY <1>1, <1>2, IntervalInduction
<1>. QED
  BY <1>3

\* The sum of the squares of p * ys[i] + q * xs[i] + r over n samples with these sums.
Quadratic(n, x, y, xx, xy, yy, p, q, r) ==
    (p * p) * yy + (q * q) * xx + n * (r * r)
      + 2 * ((p * q) * xy) + 2 * ((p * r) * y) + 2 * ((q * r) * x)

\* The angles alone: how far each is from their mean, scaled.
LEMMA AnglesAddUp ==
    ASSUME NEW n \in Nat \ {0}, NEW x \in Int, NEW y \in Int, NEW xx \in Int, NEW xy \in Int,
           NEW yy \in Int
    PROVE  Quadratic(n, x, y, xx, xy, yy, 0, n, -x) = n * (n * xx - x * x)
BY DEF Quadratic

\* The prefix sums of a curve, all five.
FullSums(pre, xs, ys, N) ==
    /\ pre \in SumsType(N)
    /\ \A i \in 1 .. N :
         /\ xs[i] \in Int /\ ys[i] \in Int
         /\ pre.x[i] = pre.x[i - 1] + xs[i]
         /\ pre.y[i] = pre.y[i - 1] + ys[i]
         /\ pre.xx[i] = pre.xx[i - 1] + xs[i] * xs[i]
         /\ pre.xy[i] = pre.xy[i - 1] + xs[i] * ys[i]
         /\ pre.yy[i] = pre.yy[i - 1] + ys[i] * ys[i]

\* What a slice adds to a prefix sum.
Slice(sum, lo, hi) == sum[hi] - sum[lo]

\* The prefix sums of a valid curve are sums.
LEMMA CurveIsSummed ==
    ASSUME NEW c, ValidCurve(c)
    PROVE  FullSums(Pre(c), c.xs, c.ys, Len(c.xs))
<1>. DEFINE N == Len(c.xs)
            xx == [i \in 1 .. Len(c.xs) |-> c.xs[i] * c.xs[i]]
            xy == [i \in 1 .. Len(c.xs) |-> c.xs[i] * c.ys[i]]
            yy == [i \in 1 .. Len(c.xs) |-> c.ys[i] * c.ys[i]]
<1>1. c.xs \in Seq(Int) /\ c.ys \in Seq(Int) /\ Len(c.ys) = N /\ N \in Nat /\ Pre(c) \in SumsType(N)
  BY CurveSums
<1>2. /\ xx \in Seq(Int) /\ Len(xx) = N /\ xy \in Seq(Int) /\ Len(xy) = N
      /\ \A i \in 1 .. N : xx[i] = c.xs[i] * c.xs[i] /\ xy[i] = c.xs[i] * c.ys[i]
  BY <1>1, ProductsType
<1>3. yy \in Seq(Int) /\ Len(yy) = N /\ \A i \in 1 .. N : yy[i] = c.ys[i] * c.ys[i]
  <2>. DEFINE zz == [i \in 1 .. Len(c.ys) |-> c.ys[i] * c.ys[i]]
  <2>1. zz \in Seq(Int) /\ Len(zz) = Len(c.ys) /\ \A i \in 1 .. Len(c.ys) : zz[i] = c.ys[i] * c.ys[i]
    BY <1>1, ProductsType
  <2>. QED
    BY <1>1, <2>1
<1>4. /\ Pre(c).x = Cumulative(c.xs) /\ Pre(c).y = Cumulative(c.ys)
      /\ Pre(c).xx = Cumulative(xx) /\ Pre(c).xy = Cumulative(xy) /\ Pre(c).yy = Cumulative(yy)
  BY DEF Pre, PrefixSums
<1>5. \A i \in 1 .. N : c.xs[i] \in Int /\ c.ys[i] \in Int
  BY <1>1, ElementOfSeq
<1>. HIDE DEF N, xx, xy, yy
<1>6. \A s \in Seq(Int) : \A i \in 1 .. Len(s) : Cumulative(s)[i] = Cumulative(s)[i - 1] + s[i]
  BY CumulativeIs
<1>7. \A i \in 1 .. N : /\ Pre(c).x[i] = Pre(c).x[i - 1] + c.xs[i]
                        /\ Pre(c).y[i] = Pre(c).y[i - 1] + c.ys[i]
  BY <1>1, <1>4, <1>6 DEF N
<1>8. \A i \in 1 .. N : /\ Pre(c).xx[i] = Pre(c).xx[i - 1] + c.xs[i] * c.xs[i]
                        /\ Pre(c).xy[i] = Pre(c).xy[i - 1] + c.xs[i] * c.ys[i]
                        /\ Pre(c).yy[i] = Pre(c).yy[i - 1] + c.ys[i] * c.ys[i]
  BY <1>2, <1>3, <1>4, <1>6
<1>. QED
  BY <1>1, <1>5, <1>7, <1>8 DEF FullSums, N

\* The sums of a slice are numbers.
LEMMA SliceType ==
    ASSUME NEW N \in Nat, NEW pre \in SumsType(N), NEW lo \in 0 .. N, NEW hi \in 0 .. N
    PROVE  /\ Slice(pre.x, lo, hi) \in Int /\ Slice(pre.y, lo, hi) \in Int
           /\ Slice(pre.xx, lo, hi) \in Int /\ Slice(pre.xy, lo, hi) \in Int
           /\ Slice(pre.yy, lo, hi) \in Int
<1>1. \A s \in [0 .. N -> Int] : s[hi] - s[lo] \in Int
  OBVIOUS
<1>2. /\ pre.x \in [0 .. N -> Int] /\ pre.y \in [0 .. N -> Int] /\ pre.xx \in [0 .. N -> Int]
      /\ pre.xy \in [0 .. N -> Int] /\ pre.yy \in [0 .. N -> Int]
  BY DEF SumsType
<1>. QED
  BY <1>1, <1>2 DEF Slice

\* The sum of squares over a slice.
Squared(pre, lo, hi, p, q, r) ==
    Quadratic(hi - lo, Slice(pre.x, lo, hi), Slice(pre.y, lo, hi), Slice(pre.xx, lo, hi),
              Slice(pre.xy, lo, hi), Slice(pre.yy, lo, hi), p, q, r)

\* It is at least the square of each sample's residual.
LEMMA SquaredAddsUp ==
    ASSUME NEW N \in Nat, NEW pre, NEW xs, NEW ys, FullSums(pre, xs, ys, N),
           NEW lo \in 0 .. N, NEW hi \in lo .. N, NEW p \in Int, NEW q \in Int, NEW r \in Int
    PROVE  LET w == Squared(pre, lo, hi, p, q, r)
               t(i) == p * ys[i] + q * xs[i] + r
           IN  w \in Int /\ w >= 0 /\ \A i \in (lo + 1) .. hi : w >= t(i) * t(i)
<1>. DEFINE M == hi - lo
            s == [j \in 0 .. M |-> Squared(pre, lo, lo + j, p, q, r)]
            t(i) == p * ys[i] + q * xs[i] + r
            e == [j \in 1 .. M |-> t(lo + j)]
<1>0. M \in Nat /\ lo \in Nat /\ pre \in SumsType(N) /\ \A j \in 0 .. M : lo + j \in 0 .. N
  BY DEF FullSums
<1>1. \A j \in 1 .. M : lo + j \in 1 .. N /\ (lo + j) - 1 = lo + (j - 1) /\ j - 1 \in 0 .. M /\ j \in 0 .. M
  BY <1>0
<1>2. \A j \in 1 .. M : e[j] \in Int
  <2>1. \A i \in 1 .. N : t(i) \in Int
    <3>. SUFFICES ASSUME NEW i \in 1 .. N PROVE t(i) \in Int
      OBVIOUS
    <3>1. xs[i] \in Int /\ ys[i] \in Int
      BY DEF FullSums
    <3>. QED
      BY <3>1
  <2>. HIDE DEF t
  <2>. QED
    BY <1>1, <2>1
<1>3. s[0] = 0
  <2>1. s[0] = Squared(pre, lo, lo, p, q, r)
    BY <1>0
  <2>2. /\ lo - lo = 0 /\ Slice(pre.x, lo, lo) = 0 /\ Slice(pre.y, lo, lo) = 0
        /\ Slice(pre.xx, lo, lo) = 0 /\ Slice(pre.xy, lo, lo) = 0 /\ Slice(pre.yy, lo, lo) = 0
    BY <1>0 DEF Slice, SumsType
  <2>. QED
    BY <2>1, <2>2 DEF Squared, Quadratic
<1>4. ASSUME NEW j \in 1 .. M PROVE s[j] = s[j - 1] + e[j] * e[j]
  <2>. DEFINE k == lo + (j - 1)
              u == xs[lo + j]
              v == ys[lo + j]
              a == Slice(pre.x, lo, k)
              b == Slice(pre.y, lo, k)
              aa == Slice(pre.xx, lo, k)
              ab == Slice(pre.xy, lo, k)
              bb == Slice(pre.yy, lo, k)
  <2>1. /\ lo + j \in 1 .. N /\ (lo + j) - 1 = k /\ k \in 0 .. N /\ lo + j \in 0 .. N
        /\ j - 1 \in 0 .. M /\ j \in 0 .. M
    BY <1>0, <1>1
  <2>2. /\ u \in Int /\ v \in Int
        /\ pre.x[lo + j] = pre.x[k] + u /\ pre.y[lo + j] = pre.y[k] + v
        /\ pre.xx[lo + j] = pre.xx[k] + u * u /\ pre.xy[lo + j] = pre.xy[k] + u * v
        /\ pre.yy[lo + j] = pre.yy[k] + v * v
    BY <2>1 DEF FullSums
  <2>3. /\ a \in Int /\ b \in Int /\ aa \in Int /\ ab \in Int /\ bb \in Int
    BY <1>0, <2>1, SliceType
  <2>4. /\ pre.x[k] \in Int /\ pre.y[k] \in Int /\ pre.xx[k] \in Int /\ pre.xy[k] \in Int
        /\ pre.yy[k] \in Int
        /\ pre.x[lo] \in Int /\ pre.y[lo] \in Int /\ pre.xx[lo] \in Int /\ pre.xy[lo] \in Int
        /\ pre.yy[lo] \in Int
    BY <1>0, <2>1 DEF SumsType
  <2>5. u * u \in Int /\ u * v \in Int /\ v * v \in Int
    BY <2>2
  <2>. HIDE DEF k, u, v
  <2>6. /\ Slice(pre.x, lo, lo + j) = a + u /\ Slice(pre.y, lo, lo + j) = b + v
        /\ Slice(pre.xx, lo, lo + j) = aa + u * u /\ Slice(pre.xy, lo, lo + j) = ab + u * v
        /\ Slice(pre.yy, lo, lo + j) = bb + v * v
    BY <2>2, <2>4, <2>5 DEF Slice
  <2>. HIDE DEF a, b, aa, ab, bb
  <2>7. (lo + j) - lo = (j - 1) + 1 /\ k - lo = j - 1 /\ j - 1 \in Int
    BY <1>0 DEF k
  <2>8. s[j] = Quadratic((j - 1) + 1, a + u, b + v, aa + u * u, ab + u * v, bb + v * v, p, q, r)
    BY <2>1, <2>6, <2>7 DEF Squared
  <2>9. s[j - 1] = Quadratic(j - 1, a, b, aa, ab, bb, p, q, r)
    BY <2>1, <2>7 DEF Squared, k, a, b, aa, ab, bb
  <2>10. e[j] = p * v + q * u + r
    BY <2>1 DEF u, v
  <2>. HIDE DEF s, e
  <2>11. Quadratic((j - 1) + 1, a + u, b + v, aa + u * u, ab + u * v, bb + v * v, p, q, r)
           = Quadratic(j - 1, a, b, aa, ab, bb, p, q, r) + (p * v + q * u + r) * (p * v + q * u + r)
    <3>. DEFINE n == j - 1
    <3>1. n \in Int
      BY <2>7
    <3>. HIDE DEF n
    <3>2. Quadratic(n + 1, a + u, b + v, aa + u * u, ab + u * v, bb + v * v, p, q, r)
           = Quadratic(n, a, b, aa, ab, bb, p, q, r) + (p * v + q * u + r) * (p * v + q * u + r)
      BY <2>2, <2>3, <3>1 DEF Quadratic
    <3>. QED
      BY <3>2 DEF n
  <2>. QED
    BY <2>8, <2>9, <2>10, <2>11
<1>. HIDE DEF s, e
<1>5. s[M] \in Int /\ s[M] >= 0 /\ \A i \in 1 .. M : s[M] >= e[i] * e[i]
  <2>. HIDE DEF M
  <2>. QED
    BY <1>0, <1>2, <1>3, <1>4, SquaresAddUp
<1>6. s[M] = Squared(pre, lo, hi, p, q, r)
  <2>1. M \in 0 .. M /\ lo + M = hi
    BY <1>0
  <2>. QED
    BY <2>1 DEF s
<1>7. ASSUME NEW i \in (lo + 1) .. hi PROVE i - lo \in 1 .. M /\ e[i - lo] = t(i)
  <2>1. i - lo \in 1 .. M /\ lo + (i - lo) = i
    BY <1>0
  <2>. QED
    BY <2>1 DEF e
<1>. HIDE DEF t, M
<1>8. \A i \in (lo + 1) .. hi : s[M] >= t(i) * t(i)
  <2>. TAKE i \in (lo + 1) .. hi
  <2>. QED
    BY <1>5, <1>7
<1>. QED
  BY <1>5, <1>6, <1>8 DEF t

\* The denominator of a slope, its numerator, and how far the torques spread.
Spreads(pre, lo, hi) ==
    (hi - lo) * Slice(pre.xx, lo, hi) - Slice(pre.x, lo, hi) * Slice(pre.x, lo, hi)
Rises(pre, lo, hi) ==
    (hi - lo) * Slice(pre.xy, lo, hi) - Slice(pre.x, lo, hi) * Slice(pre.y, lo, hi)
Torques(pre, lo, hi) ==
    (hi - lo) * Slice(pre.yy, lo, hi) - Slice(pre.y, lo, hi) * Slice(pre.y, lo, hi)

\* The squared error of a slice, in parts of n * Spreads.
Misfit(pre, lo, hi) ==
    Torques(pre, lo, hi) * Spreads(pre, lo, hi) - Rises(pre, lo, hi) * Rises(pre, lo, hi)

\* What fit() returns of a slice whose angles differ.
LEMMA FitOf ==
    ASSUME NEW pre, NEW lo, NEW hi, ~(hi - lo < 2), Spreads(pre, lo, hi) # 0
    PROVE  LineFit(pre, lo, hi)
             = Line(Rises(pre, lo, hi), Spreads(pre, lo, hi),
                    (Grain \div ((hi - lo) * Spreads(pre, lo, hi))) * Misfit(pre, lo, hi), hi - lo)
BY DEF LineFit, Spreads, Rises, Torques, Misfit, Slice

\* All of them are whole numbers.
LEMMA MisfitType ==
    ASSUME NEW N \in Nat, NEW pre \in SumsType(N), NEW lo \in 0 .. N, NEW hi \in 0 .. N
    PROVE  /\ Spreads(pre, lo, hi) \in Int /\ Rises(pre, lo, hi) \in Int
           /\ Torques(pre, lo, hi) \in Int /\ Misfit(pre, lo, hi) \in Int
<1>1. /\ Slice(pre.x, lo, hi) \in Int /\ Slice(pre.y, lo, hi) \in Int
      /\ Slice(pre.xx, lo, hi) \in Int /\ Slice(pre.xy, lo, hi) \in Int
      /\ Slice(pre.yy, lo, hi) \in Int /\ hi - lo \in Int
  BY SliceType
<1>2. \A n, a, b, c \in Int : n * a - b * c \in Int
  OBVIOUS
<1>3. /\ Spreads(pre, lo, hi) \in Int /\ Rises(pre, lo, hi) \in Int /\ Torques(pre, lo, hi) \in Int
  BY <1>1, <1>2 DEF Spreads, Rises, Torques
<1>. QED
  BY <1>2, <1>3 DEF Misfit

\* The samples lie on one line that is not upright.
OnOneLine(xs, ys, lo, hi) ==
    \E p \in Int \ {0} : \E q, r \in Int :
        \A i \in (lo + 1) .. hi : p * ys[i] + q * xs[i] + r = 0

\* Angles that differ spread, and then the error is not negative; without any, every
\* sample lies on one line.
LEMMA MisfitIsNatural ==
    ASSUME NEW N \in Nat, NEW pre, NEW xs, NEW ys, FullSums(pre, xs, ys, N),
           NEW lo \in 0 .. N, NEW hi \in lo .. N,
           NEW k \in (lo + 1) .. hi, k + 1 <= hi, xs[k + 1] # xs[k]
    PROVE  /\ Spreads(pre, lo, hi) \in Nat \ {0}
           /\ Misfit(pre, lo, hi) \in Nat
           /\ Misfit(pre, lo, hi) = 0 => OnOneLine(xs, ys, lo, hi)
<1>. DEFINE n == hi - lo
            x == Slice(pre.x, lo, hi)
            y == Slice(pre.y, lo, hi)
            xx == Slice(pre.xx, lo, hi)
            xy == Slice(pre.xy, lo, hi)
            yy == Slice(pre.yy, lo, hi)
            d == Spreads(pre, lo, hi)
            e == Rises(pre, lo, hi)
            f == Torques(pre, lo, hi)
            g == Misfit(pre, lo, hi)
<1>1. pre \in SumsType(N) /\ n \in Nat \ {0} /\ k \in 1 .. N /\ k + 1 \in 1 .. N /\ hi \in 0 .. N
      /\ k + 1 \in (lo + 1) .. hi
  BY DEF FullSums
<1>2. /\ x \in Int /\ y \in Int /\ xx \in Int /\ xy \in Int /\ yy \in Int
  BY <1>1, SliceType
<1>3. /\ d \in Int /\ e \in Int /\ f \in Int /\ g \in Int
  BY <1>1, MisfitType
<1>4. d = n * xx - x * x /\ e = n * xy - x * y /\ f = n * yy - y * y /\ g = f * d - e * e
  BY DEF Spreads, Rises, Torques, Misfit
<1>5. /\ Squared(pre, lo, hi, 0, n, -x) = Quadratic(n, x, y, xx, xy, yy, 0, n, -x)
      /\ Squared(pre, lo, hi, n * d, -(n * e), e * x - d * y)
           = Quadratic(n, x, y, xx, xy, yy, n * d, -(n * e), e * x - d * y)
  BY DEF Squared
<1>6. \A i \in 1 .. N : xs[i] \in Int /\ ys[i] \in Int
  BY DEF FullSums
<1>7. \A p, q, r \in Int :
        /\ Squared(pre, lo, hi, p, q, r) \in Int
        /\ Squared(pre, lo, hi, p, q, r) >= 0
        /\ \A i \in (lo + 1) .. hi :
             Squared(pre, lo, hi, p, q, r)
               >= (p * ys[i] + q * xs[i] + r) * (p * ys[i] + q * xs[i] + r)
  <2>. TAKE p, q, r \in Int
  <2>. QED
    BY SquaredAddsUp
<1>. HIDE DEF n, x, y, xx, xy, yy, d, e, f, g
<1>8. \A a \in Int : a * a <= 0 => a = 0
  OBVIOUS
<1>9. d \in Nat \ {0}
  <2>. DEFINE w == Squared(pre, lo, hi, 0, n, -x)
  <2>1. w = n * d
    <3>1. Quadratic(n, x, y, xx, xy, yy, 0, n, -x) = n * (n * xx - x * x)
      BY <1>1, <1>2, AnglesAddUp
    <3>. QED
      BY <1>4, <1>5, <3>1
  <2>2. w >= 0 /\ \A i \in (lo + 1) .. hi : w >= (0 * ys[i] + n * xs[i] + (-x)) * (0 * ys[i] + n * xs[i] + (-x))
    <3>1. 0 \in Int /\ n \in Int /\ -x \in Int
      BY <1>1, <1>2
    <3>. HIDE DEF w
    <3>. QED
      BY <1>7, <3>1 DEF w
  <2>. HIDE DEF w
  <2>3. d >= 0
    <3>1. \A a, b \in Int : a > 0 /\ a * b >= 0 => b >= 0
      OBVIOUS
    <3>. QED
      BY <1>1, <1>3, <2>1, <2>2, <3>1
  <2>4. ASSUME d = 0 PROVE FALSE
    <3>1. w = 0
      BY <1>1, <2>1, <2>4
    <3>2. \A i \in {k, k + 1} : 0 * ys[i] + n * xs[i] + (-x) = 0
      <4>. TAKE i \in {k, k + 1}
      <4>. DEFINE a == 0 * ys[i] + n * xs[i] + (-x)
      <4>1. i \in (lo + 1) .. hi /\ i \in 1 .. N
        BY <1>1
      <4>2. a \in Int
        BY <1>1, <1>2, <1>6, <4>1
      <4>3. a * a <= 0
        BY <2>2, <3>1, <4>1
      <4>. HIDE DEF a
      <4>. QED
        BY <1>8, <4>2, <4>3 DEF a
    <3>3. n * xs[k + 1] = n * xs[k]
      <4>1. /\ xs[k] \in Int /\ xs[k + 1] \in Int /\ ys[k] \in Int /\ ys[k + 1] \in Int
        BY <1>1, <1>6
      <4>2. 0 * ys[k] + n * xs[k] + (-x) = 0 /\ 0 * ys[k + 1] + n * xs[k + 1] + (-x) = 0
        BY <3>2
      <4>3. \A a, b \in Int : 0 * a + b + (-x) = 0 => b = x
        BY <1>2
      <4>4. n * xs[k] \in Int /\ n * xs[k + 1] \in Int
        BY <1>1, <4>1
      <4>. QED
        BY <4>1, <4>2, <4>3, <4>4
    <3>4. \A a, b \in Int : n * a = n * b => a = b
      BY <1>1
    <3>. QED
      BY <1>1, <1>6, <3>3, <3>4
  <2>. QED
    BY <1>3, <2>3, <2>4
<1>. DEFINE p == n * d
            q == -(n * e)
            r == e * x - d * y
<1>10. p \in Int \ {0} /\ q \in Int /\ r \in Int
  BY <1>1, <1>2, <1>3, <1>9
<1>11. Squared(pre, lo, hi, p, q, r) = n * (d * g)
  <2>. DEFINE w == Squared(pre, lo, hi, p, q, r)
              h == d * g
  <2>1. p * y + q * x + n * r = 0
    BY <1>1, <1>2, <1>3
  <2>2. w \in Int /\ h \in Int
    BY <1>3, <1>7, <1>10
  <2>3. w = Quadratic(n, x, y, xx, xy, yy, p, q, r)
    BY <1>5
  <2>4. n * w = (p * p) * f + (q * q) * d + 2 * ((p * q) * e)
    <3>. HIDE DEF p, q, r, w
    <3>. DEFINE m == p * y + q * x + n * r
    <3>1. p \in Int /\ q \in Int /\ r \in Int /\ n \in Int
      BY <1>1, <1>10
    <3>2. n * Quadratic(n, x, y, xx, xy, yy, p, q, r)
            = (p * p) * f + (q * q) * d + 2 * ((p * q) * e) + m * m
      BY <1>2, <1>4, <3>1 DEF Quadratic
    <3>3. m * m = 0
      BY <2>1
    <3>. HIDE DEF m
    <3>4. (p * p) * f \in Int /\ (q * q) * d \in Int /\ (p * q) * e \in Int
      BY <1>3, <3>1
    <3>. QED
      BY <2>3, <3>2, <3>3, <3>4
  <2>5. (p * p) * f + (q * q) * d + 2 * ((p * q) * e) = n * (n * h)
    BY <1>1, <1>3, <1>4
  <2>6. \A a, b \in Int : n * a = n * b => a = b
    BY <1>1
  <2>. HIDE DEF w, h
  <2>7. w = n * h
    BY <1>1, <2>2, <2>4, <2>5, <2>6
  <2>. QED
    BY <2>7 DEF w, h
<1>. HIDE DEF p, q, r
<1>12. g \in Nat
  <2>1. n * (d * g) >= 0
    BY <1>7, <1>10, <1>11
  <2>2. \A a, b \in Int : a > 0 /\ a * b >= 0 => b >= 0
    OBVIOUS
  <2>3. d * g \in Int
    BY <1>3
  <2>4. d * g >= 0
    BY <1>1, <2>1, <2>2, <2>3
  <2>. QED
    BY <1>3, <1>9, <2>2, <2>4
<1>13. ASSUME g = 0 PROVE \A i \in (lo + 1) .. hi : p * ys[i] + q * xs[i] + r = 0
  <2>. TAKE i \in (lo + 1) .. hi
  <2>. DEFINE a == p * ys[i] + q * xs[i] + r
  <2>1. n * (d * g) = 0
    BY <1>1, <1>9, <1>13
  <2>2. a * a <= 0
    <3>1. Squared(pre, lo, hi, p, q, r) >= a * a
      BY <1>7, <1>10
    <3>. HIDE DEF a
    <3>. QED
      BY <1>11, <2>1, <3>1
  <2>3. a \in Int
    <3>1. i \in 1 .. N
      BY <1>1
    <3>2. xs[i] \in Int /\ ys[i] \in Int
      BY <1>6, <3>1
    <3>. QED
      BY <1>10, <3>2
  <2>. HIDE DEF a
  <2>. QED
    BY <1>8, <2>2, <2>3 DEF a
<1>14. g = 0 => OnOneLine(xs, ys, lo, hi)
  BY <1>10, <1>13 DEF OnOneLine
<1>. QED
  BY <1>9, <1>12, <1>14 DEF d, g

\* Between lo and hi the sum f grows with g and h.
GrowsWith(f, g, h, a, b, lo, hi) ==
    \A i \in (lo + 1) .. hi : f[i] - f[i - 1] = a * (g[i] - g[i - 1]) + b * (h[i] - h[i - 1])

InProportion(f, g, h, a, b, lo, hi) ==
    Slice(f, lo, hi) = a * Slice(g, lo, hi) + b * Slice(h, lo, hi)

\* So its slice is made of theirs.
LEMMA SlicesInProportion ==
    ASSUME NEW N \in Nat, NEW lo \in 0 .. N, NEW hi \in lo .. N, NEW a \in Int, NEW b \in Int,
           NEW f \in [0 .. N -> Int], NEW g \in [0 .. N -> Int], NEW h \in [0 .. N -> Int],
           GrowsWith(f, g, h, a, b, lo, hi)
    PROVE  InProportion(f, g, h, a, b, lo, hi)
<1>. DEFINE M == hi - lo
            Even(k) == f[k] - f[lo] = a * (g[k] - g[lo]) + b * (h[k] - h[lo])
            good == {j \in 0 .. M : Even(lo + j)}
<1>0. M \in Nat /\ lo \in Nat /\ lo + M = hi
  OBVIOUS
<1>1. \A k \in 0 .. N : f[k] \in Int /\ g[k] \in Int /\ h[k] \in Int
  OBVIOUS
<1>2. 0 \in good
  <2>1. Even(lo)
    BY <1>1
  <2>. QED
    BY <1>0, <2>1
<1>3. ASSUME NEW j \in 1 .. M, j - 1 \in good PROVE j \in good
  <2>. DEFINE k == lo + j
  <2>1. k \in (lo + 1) .. hi /\ k \in 0 .. N /\ k - 1 \in 0 .. N /\ lo \in 0 .. N /\ lo + (j - 1) = k - 1
    BY <1>0
  <2>2. Even(k - 1)
    BY <1>3, <2>1
  <2>3. f[k] - f[k - 1] = a * (g[k] - g[k - 1]) + b * (h[k] - h[k - 1])
    BY <2>1 DEF GrowsWith
  <2>4. /\ f[k] \in Int /\ g[k] \in Int /\ h[k] \in Int
        /\ f[k - 1] \in Int /\ g[k - 1] \in Int /\ h[k - 1] \in Int
        /\ f[lo] \in Int /\ g[lo] \in Int /\ h[lo] \in Int
    BY <1>1, <2>1
  <2>. HIDE DEF k
  <2>5. Even(k)
    <3>. DEFINE f0 == f[lo]  f1 == f[k - 1]  f2 == f[k]
                g0 == g[lo]  g1 == g[k - 1]  g2 == g[k]
                h0 == h[lo]  h1 == h[k - 1]  h2 == h[k]
    <3>1. /\ f0 \in Int /\ f1 \in Int /\ f2 \in Int /\ g0 \in Int /\ g1 \in Int /\ g2 \in Int
          /\ h0 \in Int /\ h1 \in Int /\ h2 \in Int
      BY <2>4
    <3>2. f1 - f0 = a * (g1 - g0) + b * (h1 - h0) /\ f2 - f1 = a * (g2 - g1) + b * (h2 - h1)
      BY <2>2, <2>3
    <3>. HIDE DEF f0, f1, f2, g0, g1, g2, h0, h1, h2
    <3>3. f2 - f0 = a * (g2 - g0) + b * (h2 - h0)
      <4>1. \A c \in Int : \A p, q, s \in Int : c * (s - p) = c * (s - q) + c * (q - p)
        OBVIOUS
      <4>2. a * (g2 - g0) = a * (g2 - g1) + a * (g1 - g0) /\ b * (h2 - h0) = b * (h2 - h1) + b * (h1 - h0)
        BY <3>1, <4>1
      <4>3. \A c \in Int : \A p, q \in Int : c * (p - q) \in Int
        OBVIOUS
      <4>4. /\ a * (g2 - g0) \in Int /\ a * (g2 - g1) \in Int /\ a * (g1 - g0) \in Int
            /\ b * (h2 - h0) \in Int /\ b * (h2 - h1) \in Int /\ b * (h1 - h0) \in Int
        BY <3>1, <4>3
      <4>. QED
        BY <3>1, <3>2, <4>2, <4>4
    <3>. QED
      BY <3>3 DEF f0, f2, g0, g2, h0, h2
  <2>. QED
    BY <1>0, <2>5 DEF k
<1>4. 0 .. M \subseteq good
  <2>. HIDE DEF good, M
  <2>. QED
    BY <1>0, <1>2, <1>3, IntervalInduction
<1>5. Even(lo + M)
  <2>1. M \in good
    <3>. HIDE DEF M, good
    <3>. QED
      BY <1>0, <1>4
  <2>. QED
    BY <2>1
<1>. HIDE DEF M
<1>. QED
  BY <1>0, <1>5 DEF Slice, InProportion

\* The samples lie on the line of slope b through a, or step along it.
OnLine(xs, ys, a, b, lo, hi) == \A i \in (lo + 1) .. hi : ys[i] = a + b * xs[i]

StepsBy(xs, ys, b, lo, hi) ==
    \A i \in (lo + 1) .. (hi - 1) : xs[i + 1] - xs[i] = 1 /\ ys[i + 1] - ys[i] = b

\* A straight slice rises in proportion to its spread, and leaves no error.
LEMMA StraightFits ==
    ASSUME NEW N \in Nat, NEW pre, NEW xs, NEW ys, FullSums(pre, xs, ys, N),
           NEW lo \in 0 .. N, NEW hi \in lo .. N, NEW a \in Int, NEW b \in Int,
           OnLine(xs, ys, a, b, lo, hi)
    PROVE  Rises(pre, lo, hi) = b * Spreads(pre, lo, hi) /\ Misfit(pre, lo, hi) = 0
<1>. DEFINE n == hi - lo
            x == Slice(pre.x, lo, hi)
            y == Slice(pre.y, lo, hi)
            xx == Slice(pre.xx, lo, hi)
            xy == Slice(pre.xy, lo, hi)
            yy == Slice(pre.yy, lo, hi)
            count == [i \in 0 .. N |-> i]
<1>1. pre \in SumsType(N) /\ n \in Int /\ hi \in 0 .. N
  BY DEF FullSums
<1>2. /\ x \in Int /\ y \in Int /\ xx \in Int /\ xy \in Int /\ yy \in Int
  BY <1>1, SliceType
<1>3. /\ pre.x \in [0 .. N -> Int] /\ pre.y \in [0 .. N -> Int] /\ pre.xx \in [0 .. N -> Int]
      /\ pre.xy \in [0 .. N -> Int] /\ pre.yy \in [0 .. N -> Int] /\ count \in [0 .. N -> Int]
  <2>1. count \in [0 .. N -> Int]
    OBVIOUS
  <2>. HIDE DEF count
  <2>. QED
    BY <1>1, <2>1 DEF SumsType
<1>4. ASSUME NEW i \in (lo + 1) .. hi
      PROVE  /\ pre.y[i] - pre.y[i - 1] = a * (count[i] - count[i - 1]) + b * (pre.x[i] - pre.x[i - 1])
             /\ pre.xy[i] - pre.xy[i - 1] = a * (pre.x[i] - pre.x[i - 1]) + b * (pre.xx[i] - pre.xx[i - 1])
             /\ pre.yy[i] - pre.yy[i - 1] = a * (pre.y[i] - pre.y[i - 1]) + b * (pre.xy[i] - pre.xy[i - 1])
  <2>. DEFINE u == xs[i]
              v == ys[i]
  <2>1. i \in 1 .. N /\ i \in 0 .. N /\ i - 1 \in 0 .. N
    OBVIOUS
  <2>2. /\ u \in Int /\ v \in Int /\ pre.x[i] = pre.x[i - 1] + u /\ pre.y[i] = pre.y[i - 1] + v
        /\ pre.xx[i] = pre.xx[i - 1] + u * u /\ pre.xy[i] = pre.xy[i - 1] + u * v
        /\ pre.yy[i] = pre.yy[i - 1] + v * v
    BY <2>1 DEF FullSums
  <2>3. v = a + b * u
    BY DEF OnLine
  <2>4. /\ pre.x[i - 1] \in Int /\ pre.y[i - 1] \in Int /\ pre.xx[i - 1] \in Int
        /\ pre.xy[i - 1] \in Int /\ pre.yy[i - 1] \in Int
    BY <1>3, <2>1
  <2>5. count[i] - count[i - 1] = 1
    BY <2>1
  <2>. HIDE DEF u, v, count
  <2>6. u * u \in Int /\ u * v \in Int /\ v * v \in Int
    BY <2>2
  <2>7. /\ pre.x[i] - pre.x[i - 1] = u /\ pre.y[i] - pre.y[i - 1] = v
        /\ pre.xx[i] - pre.xx[i - 1] = u * u /\ pre.xy[i] - pre.xy[i - 1] = u * v
        /\ pre.yy[i] - pre.yy[i - 1] = v * v
    BY <2>2, <2>4, <2>6
  <2>8. v = a * 1 + b * u /\ u * v = a * u + b * (u * u) /\ v * v = a * v + b * (u * v)
    BY <2>2, <2>3
  <2>. QED
    BY <2>5, <2>7, <2>8
<1>. HIDE DEF count
<1>5. Slice(count, lo, hi) = n
  BY <1>1 DEF Slice, count
<1>6. /\ GrowsWith(pre.y, count, pre.x, a, b, lo, hi)
       /\ GrowsWith(pre.xy, pre.x, pre.xx, a, b, lo, hi)
       /\ GrowsWith(pre.yy, pre.y, pre.xy, a, b, lo, hi)
  BY <1>4 DEF GrowsWith
<1>7. /\ InProportion(pre.y, count, pre.x, a, b, lo, hi)
      /\ InProportion(pre.xy, pre.x, pre.xx, a, b, lo, hi)
      /\ InProportion(pre.yy, pre.y, pre.xy, a, b, lo, hi)
  BY <1>3, <1>6, SlicesInProportion
<1>8. y = a * n + b * x /\ xy = a * x + b * xx
  BY <1>5, <1>7 DEF InProportion
<1>9. yy = a * y + b * xy
  BY <1>7 DEF InProportion
<1>. DEFINE d == Spreads(pre, lo, hi)
            e == Rises(pre, lo, hi)
            f == Torques(pre, lo, hi)
<1>10. d = n * xx - x * x /\ e = n * xy - x * y /\ f = n * yy - y * y /\ Misfit(pre, lo, hi) = f * d - e * e
  BY DEF Spreads, Rises, Torques, Misfit
<1>. HIDE DEF n, x, y, xx, xy, yy, d, e, f
<1>11. e = b * d
  BY <1>1, <1>2, <1>8, <1>10
<1>12. f = b * e
  BY <1>1, <1>2, <1>8, <1>9, <1>10
<1>13. d \in Int
  BY <1>1, <1>2, <1>10
<1>14. f * d - e * e = 0
  BY <1>11, <1>12, <1>13
<1>. QED
  BY <1>10, <1>11, <1>14 DEF d, e

\* Even steps make a straight slice.
LEMMA EvenStepsAreStraight ==
    ASSUME NEW lo \in Nat, NEW hi \in Nat, NEW xs, NEW ys, NEW b \in Int,
           \A i \in (lo + 1) .. hi : xs[i] \in Int /\ ys[i] \in Int,
           StepsBy(xs, ys, b, lo, hi),
           lo < hi
    PROVE  \E a \in Int : OnLine(xs, ys, a, b, lo, hi)
<1>. DEFINE M == hi - lo - 1
            a == ys[lo + 1] - b * xs[lo + 1]
            good == {j \in 0 .. M : ys[lo + 1 + j] = a + b * xs[lo + 1 + j]}
<1>1. M \in Nat /\ lo + 1 \in (lo + 1) .. hi
  OBVIOUS
<1>2. xs[lo + 1] \in Int /\ ys[lo + 1] \in Int
  BY <1>1
<1>3. a \in Int
  BY <1>2
<1>4. 0 \in good
  BY <1>1, <1>2
<1>5. ASSUME NEW j \in 1 .. M, j - 1 \in good PROVE j \in good
  <2>. DEFINE k == lo + j
  <2>1. /\ k \in (lo + 1) .. (hi - 1) /\ k \in (lo + 1) .. hi /\ k + 1 \in (lo + 1) .. hi
        /\ lo + 1 + (j - 1) = k /\ lo + 1 + j = k + 1
    BY <1>1
  <2>2. ys[k] = a + b * xs[k]
    BY <1>5, <2>1
  <2>3. xs[k + 1] - xs[k] = 1 /\ ys[k + 1] - ys[k] = b
    BY <2>1 DEF StepsBy
  <2>4. xs[k] \in Int /\ ys[k] \in Int /\ xs[k + 1] \in Int /\ ys[k + 1] \in Int
    BY <2>1
  <2>. HIDE DEF k, a
  <2>5. ys[k + 1] = a + b * xs[k + 1]
    <3>. DEFINE u == xs[k]
    <3>. DEFINE v == ys[k]  w == ys[k + 1]  z == b * u
    <3>0. u \in Int /\ v \in Int /\ w \in Int /\ v = a + z /\ w - v = b
      BY <2>2, <2>3, <2>4
    <3>4. z \in Int /\ xs[k + 1] = u + 1
      BY <2>3, <2>4
    <3>5. w = a + z + b
      <4>. HIDE DEF u, v, w, z
      <4>. QED
        BY <1>3, <3>0, <3>4
    <3>1. xs[k + 1] = u + 1 /\ ys[k + 1] = a + b * u + b /\ u \in Int
      BY <3>0, <3>4, <3>5
    <3>. HIDE DEF u
    <3>2. b * (u + 1) = b * u + b
      BY <3>1
    <3>3. b * u \in Int
      BY <3>1
    <3>. QED
      BY <1>3, <3>1, <3>2, <3>3
  <2>. QED
    BY <2>1, <2>5
<1>6. 0 .. M \subseteq good
  <2>. HIDE DEF good, M
  <2>. QED
    BY <1>1, <1>4, <1>5, IntervalInduction
<1>7. ASSUME NEW i \in (lo + 1) .. hi PROVE ys[i] = a + b * xs[i]
  <2>1. i - lo - 1 \in 0 .. M /\ lo + 1 + (i - lo - 1) = i
    BY <1>1
  <2>. QED
    BY <1>6, <2>1
<1>. QED
  BY <1>3, <1>7 DEF OnLine

\* A run over even angles, and a slice of it that a segment may be fitted to.
EvenRun(c) ==
    /\ c \in RawCurves /\ ValidCurve(c)
    /\ \A i \in 1 .. (Len(c.xs) - 1) : c.xs[i + 1] - c.xs[i] = 1

Fitted(c, lo, hi) ==
    /\ lo \in 0 .. Len(c.xs) /\ hi \in lo .. Len(c.xs)
    /\ lo + 2 <= hi /\ hi - lo <= Len(c.xs) - MinSegment

\* The angles of a curve have one spread, whatever the torques.
LEMMA SpreadOfAngles ==
    ASSUME NEW c, NEW lo, NEW hi
    PROVE  Spreads(PrefixSums(c.xs, c.xs), lo, hi) = Spreads(Pre(c), lo, hi)
BY DEF Pre, PrefixSums, Spreads, Slice

\* A positive error is some Grain-ths.
LEMMA GrainCounts ==
    ASSUME NEW c \in RawCurves, NEW lo, NEW hi, Fitted(c, lo, hi), Len(c.xs) \in Nat,
           Spreads(Pre(c), lo, hi) \in Nat \ {0}
    PROVE  Grain \div ((hi - lo) * Spreads(Pre(c), lo, hi)) \in Nat \ {0}
<1>. DEFINE n == hi - lo
            d == Spreads(Pre(c), lo, hi)
            m == n * d
            pre == PrefixSums(c.xs, c.xs)
<1>1. /\ lo \in 0 .. Len(c.xs) /\ hi \in 0 .. Len(c.xs) /\ lo + 2 <= hi /\ n \in Nat \ {0}
      /\ ~(n < 2) /\ n <= Len(c.xs) - MinSegment
  BY LeastSquaresAssumption DEF Fitted
<1>2. LineFit(pre, lo, hi).run = d
  <2>1. Spreads(pre, lo, hi) = d
    BY SpreadOfAngles
  <2>2. Spreads(pre, lo, hi) # 0
    BY <2>1
  <2>3. LineFit(pre, lo, hi)
          = Line(Rises(pre, lo, hi), Spreads(pre, lo, hi),
                 (Grain \div (n * Spreads(pre, lo, hi))) * Misfit(pre, lo, hi), n)
    BY <1>1, <2>2, FitOf
  <2>. HIDE DEF pre, d, n
  <2>. QED
    BY <2>1, <2>3 DEF Line
<1>3. Grain % m = 0
  <2>1. c.xs \in {a.xs : a \in RawCurves}
    OBVIOUS
  <2>2. Grain % ((hi - lo) * LineFit(PrefixSums(c.xs, c.xs), lo, hi).run) = 0
    BY <1>1, <2>1, GrainAssumption
  <2>. QED
    BY <1>2, <2>2
<1>4. m \in Nat \ {0}
  BY <1>1
<1>. HIDE DEF m
<1>5. Grain = m * (Grain \div m) + (Grain % m) /\ Grain \div m \in Int
  BY <1>4, LeastSquaresAssumption
<1>6. m * (Grain \div m) > 0
  <2>. DEFINE q == Grain \div m
  <2>1. Grain = m * q + (Grain % m) /\ q \in Int
    BY <1>5
  <2>. HIDE DEF q
  <2>2. m * q \in Int
    BY <1>4, <2>1
  <2>. QED
    BY <1>3, <2>1, <2>2, LeastSquaresAssumption DEF q
<1>7. \A a \in Int : m * a > 0 => a > 0
  BY <1>4
<1>8. Grain \div m \in Nat \ {0}
  BY <1>5, <1>6, <1>7
<1>. QED
  BY <1>8 DEF m

\* The error of a slice is a number of Grain-ths for each of its misfit.
LEMMA ErrorOf ==
    ASSUME NEW c, EvenRun(c), NEW lo, NEW hi, Fitted(c, lo, hi)
    PROVE  LET line == LineFit(Pre(c), lo, hi)
               misfit == Misfit(Pre(c), lo, hi)
           IN  /\ line.rise = Rises(Pre(c), lo, hi) /\ line.run = Spreads(Pre(c), lo, hi)
               /\ line.run \in Nat \ {0} /\ line.n = hi - lo
               /\ line.sse \in Nat /\ misfit \in Nat
               /\ line.sse = 0 <=> misfit = 0
<1>. DEFINE N == Len(c.xs)
            d == Spreads(Pre(c), lo, hi)
            g == Grain \div ((hi - lo) * d)
            f == Misfit(Pre(c), lo, hi)
<1>1. ValidCurve(c) /\ c \in RawCurves
  BY DEF EvenRun
<1>2. N \in Nat /\ FullSums(Pre(c), c.xs, c.ys, N)
  BY <1>1, CurveSums, CurveIsSummed
<1>3. lo \in 0 .. N /\ hi \in lo .. N /\ lo + 2 <= hi /\ ~(hi - lo < 2)
  BY <1>2 DEF Fitted
<1>4. /\ lo + 1 \in (lo + 1) .. hi /\ (lo + 1) + 1 <= hi
      /\ lo + 1 \in 1 .. (N - 1)
  BY <1>2, <1>3
<1>5. c.xs[(lo + 1) + 1] # c.xs[lo + 1]
  <2>1. c.xs[(lo + 1) + 1] - c.xs[lo + 1] = 1
    BY <1>4 DEF EvenRun
  <2>2. c.xs[lo + 1] \in Int /\ c.xs[(lo + 1) + 1] \in Int
    <3>1. lo + 1 \in 1 .. N /\ (lo + 1) + 1 \in 1 .. N
      BY <1>2, <1>3
    <3>. QED
      BY <1>2, <3>1 DEF FullSums
  <2>. QED
    BY <2>1, <2>2
<1>6. d \in Nat \ {0} /\ f \in Nat
  BY <1>2, <1>3, <1>4, <1>5, MisfitIsNatural
<1>7. g \in Nat \ {0}
  BY <1>1, <1>2, <1>6, GrainCounts
<1>8. LineFit(Pre(c), lo, hi) = Line(Rises(Pre(c), lo, hi), d, g * f, hi - lo)
  BY <1>3, <1>6, FitOf
<1>. HIDE DEF d, f, g
<1>9. g * f \in Nat /\ (g * f = 0 <=> f = 0)
  BY <1>6, <1>7
<1>. QED
  BY <1>6, <1>8, <1>9 DEF Line, d, f

\* A slice with a bend in it lies on no line.
LEMMA BentHasMisfit ==
    ASSUME NEW c, EvenRun(c), NEW lo, NEW hi, Fitted(c, lo, hi),
           NEW j \in (lo + 2) .. (hi - 1),
           c.ys[j + 1] - c.ys[j] # c.ys[j] - c.ys[j - 1]
    PROVE  Misfit(Pre(c), lo, hi) # 0
<1>. SUFFICES ASSUME Misfit(Pre(c), lo, hi) = 0 PROVE FALSE
  OBVIOUS
<1>. DEFINE N == Len(c.xs)
<1>1. ValidCurve(c) /\ N \in Nat /\ FullSums(Pre(c), c.xs, c.ys, N)
  BY CurveSums, CurveIsSummed DEF EvenRun
<1>2. /\ lo \in 0 .. N /\ hi \in lo .. N
      /\ j - 1 \in (lo + 1) .. hi /\ j \in (lo + 1) .. hi /\ j + 1 \in (lo + 1) .. hi
      /\ j - 1 \in 1 .. (N - 1) /\ j \in 1 .. (N - 1) /\ (j - 1) + 1 = j /\ (j - 1) + 1 <= hi
      /\ j - 1 \in 1 .. N /\ j \in 1 .. N /\ j + 1 \in 1 .. N
  BY <1>1 DEF Fitted
<1>3. c.xs[j + 1] - c.xs[j] = 1 /\ c.xs[j] - c.xs[j - 1] = 1
  BY <1>2 DEF EvenRun
<1>4. /\ c.xs[j - 1] \in Int /\ c.xs[j] \in Int /\ c.xs[j + 1] \in Int
      /\ c.ys[j - 1] \in Int /\ c.ys[j] \in Int /\ c.ys[j + 1] \in Int
  BY <1>1, <1>2 DEF FullSums
<1>5. c.xs[(j - 1) + 1] # c.xs[j - 1]
  <2>1. (j - 1) + 1 = j
    BY <1>2
  <2>2. c.xs[j] # c.xs[j - 1]
    BY <1>3, <1>4
  <2>. QED
    BY <2>1, <2>2
<1>6. OnOneLine(c.xs, c.ys, lo, hi)
  <2>. DEFINE k == j - 1
  <2>1. k \in (lo + 1) .. hi /\ k + 1 <= hi /\ c.xs[k + 1] # c.xs[k]
    BY <1>2, <1>5
  <2>. HIDE DEF k, N
  <2>. QED
    BY <1>1, <1>2, <2>1, MisfitIsNatural
<1>7. PICK p \in Int \ {0} : \E q, r \in Int :
         \A i \in (lo + 1) .. hi : p * c.ys[i] + q * c.xs[i] + r = 0
  BY <1>6 DEF OnOneLine
<1>8. PICK q \in Int, r \in Int : \A i \in (lo + 1) .. hi : p * c.ys[i] + q * c.xs[i] + r = 0
  BY <1>7
<1>. DEFINE u == c.ys[j - 1]
            v == c.ys[j]
            w == c.ys[j + 1]
            x == c.xs[j]
<1>9. /\ p * u + q * (x - 1) + r = 0 /\ p * v + q * x + r = 0 /\ p * w + q * (x + 1) + r = 0
  <2>1. c.xs[j - 1] = x - 1 /\ c.xs[j + 1] = x + 1
    BY <1>3, <1>4
  <2>. QED
    BY <1>2, <1>8, <2>1
<1>10. u \in Int /\ v \in Int /\ w \in Int /\ x \in Int /\ w - v # v - u
  BY <1>4
<1>. HIDE DEF u, v, w, x
<1>11. p * (w - v) = p * (v - u)
  <2>1. /\ q * (x - 1) = q * x - q /\ q * (x + 1) = q * x + q
        /\ p * (w - v) = p * w - p * v /\ p * (v - u) = p * v - p * u
    BY <1>10
  <2>2. p * u \in Int /\ p * v \in Int /\ p * w \in Int /\ q * x \in Int
    BY <1>10
  <2>. QED
    BY <1>9, <2>1, <2>2
<1>12. \A a, b \in Int : p * a = p * b => a = b
  OBVIOUS
<1>13. w - v \in Int /\ v - u \in Int
  BY <1>10
<1>. QED
  BY <1>10, <1>11, <1>12, <1>13

\* A slice of equal levels rises by that level, without error.
LEMMA StraightSlice ==
    ASSUME NEW c, EvenRun(c), NEW lo, NEW hi, Fitted(c, lo, hi), NEW b \in Int,
           \A i \in (lo + 1) .. (hi - 1) : Level(c.ys, i) = b
    PROVE  /\ LineFit(Pre(c), lo, hi).sse = 0
           /\ LineFit(Pre(c), lo, hi).rise = b * LineFit(Pre(c), lo, hi).run
<1>. DEFINE N == Len(c.xs)
<1>1. ValidCurve(c) /\ N \in Nat /\ FullSums(Pre(c), c.xs, c.ys, N)
  BY CurveSums, CurveIsSummed DEF EvenRun
<1>2. /\ lo \in 0 .. N /\ hi \in lo .. N /\ lo \in Nat /\ hi \in Nat /\ lo < hi
      /\ \A i \in (lo + 1) .. hi : i \in 1 .. N
      /\ \A i \in (lo + 1) .. (hi - 1) : i \in 1 .. (N - 1)
  BY <1>1 DEF Fitted
<1>3. \A i \in (lo + 1) .. hi : c.xs[i] \in Int /\ c.ys[i] \in Int
  BY <1>1, <1>2 DEF FullSums
<1>4. StepsBy(c.xs, c.ys, b, lo, hi)
  BY <1>2 DEF EvenRun, Level, StepsBy
<1>5. PICK a \in Int : OnLine(c.xs, c.ys, a, b, lo, hi)
  BY <1>2, <1>3, <1>4, EvenStepsAreStraight
<1>6. Rises(Pre(c), lo, hi) = b * Spreads(Pre(c), lo, hi) /\ Misfit(Pre(c), lo, hi) = 0
  <2>. HIDE DEF N
  <2>. QED
    BY <1>1, <1>2, <1>5, StraightFits
<1>. QED
  BY <1>6, ErrorOf

\* The error of a split is never negative.
LEMMA SplitErrorType ==
    ASSUME NEW c, EvenRun(c), NEW k \in Splits(Len(c.xs))
    PROVE  /\ Fitted(c, 0, k) /\ Fitted(c, k, Len(c.xs))
           /\ LineFit(Pre(c), 0, k).sse \in Nat /\ LineFit(Pre(c), k, Len(c.xs)).sse \in Nat
           /\ SplitError(Pre(c), k)
                = LineFit(Pre(c), 0, k).sse + LineFit(Pre(c), k, Len(c.xs)).sse
<1>1. Len(c.xs) \in Nat /\ Pre(c).n = Len(c.xs)
  BY CurveSums DEF EvenRun
<1>2. Fitted(c, 0, k) /\ Fitted(c, k, Len(c.xs))
  BY <1>1, LeastSquaresAssumption DEF Splits, Fitted
<1>. QED
  BY <1>1, <1>2, ErrorOf DEF SplitError

\* Where two lines meet there is a split without error, and no earlier one.
LEMMA KneeIsBest ==
    ASSUME NEW c \in RawCurves, ValidCurve(c),
           NEW j \in (MinSegment + 1) .. (Len(c.xs) - MinSegment + 1), MeetAt(c, j)
    PROVE  LET line == LineFit(Pre(c), j - 1, Len(c.xs))
           IN  /\ BestSplit(Pre(c)) = j - 1
               /\ line.sse = 0 /\ line.rise = Level(c.ys, j) * line.run
               /\ line.run \in Nat \ {0} /\ line.n \in Nat /\ line.n >= 2
               /\ Level(c.ys, j) \in Int
<1>. DEFINE N == Len(c.xs)
            m == j - 1
            E(k) == SplitError(Pre(c), k)
            Best(k) == /\ \A i \in Splits(N) : E(k) <= E(i)
                       /\ \A i \in Splits(N) : i < k => E(k) < E(i)
<1>1. /\ N \in Nat /\ Pre(c).n = N /\ FullSums(Pre(c), c.xs, c.ys, N)
      /\ MinSegment \in Nat /\ MinSegment >= 2
  BY CurveSums, CurveIsSummed, LeastSquaresAssumption
<1>2. EvenRun(c)
  BY DEF EvenRun, MeetAt
<1>3. m \in Splits(N) /\ j \in Nat /\ j > 1 /\ j < N /\ m + 1 = j
  BY <1>1 DEF Splits
<1>4. \A k \in Splits(N) :
        /\ Fitted(c, 0, k) /\ Fitted(c, k, N)
        /\ LineFit(Pre(c), 0, k).sse \in Nat /\ LineFit(Pre(c), k, N).sse \in Nat
        /\ E(k) = LineFit(Pre(c), 0, k).sse + LineFit(Pre(c), k, N).sse
  BY <1>2, SplitErrorType
<1>5. \A i \in 1 .. (N - 1) : Level(c.ys, i) \in Int
  <2>. TAKE i \in 1 .. (N - 1)
  <2>1. i \in 1 .. N /\ i + 1 \in 1 .. N
    BY <1>1
  <2>2. c.ys[i] \in Int /\ c.ys[i + 1] \in Int
    BY <1>1, <2>1 DEF FullSums
  <2>. QED
    BY <2>2 DEF Level
<1>6. Level(c.ys, 1) \in Int /\ Level(c.ys, j) \in Int
  BY <1>1, <1>3, <1>5
<1>7. LineFit(Pre(c), 0, m).sse = 0
  <2>1. \A i \in (0 + 1) .. (m - 1) : Level(c.ys, i) = Level(c.ys, 1)
    BY <1>3 DEF MeetAt
  <2>. QED
    BY <1>2, <1>3, <1>4, <1>6, <2>1, StraightSlice
<1>8. /\ LineFit(Pre(c), m, N).sse = 0
      /\ LineFit(Pre(c), m, N).rise = Level(c.ys, j) * LineFit(Pre(c), m, N).run
  <2>1. \A i \in (m + 1) .. (N - 1) : Level(c.ys, i) = Level(c.ys, j)
    <3>1. Len(c.ys) = N
      BY CurveSums
    <3>. QED
      BY <1>3, <3>1 DEF MeetAt
  <2>. QED
    BY <1>2, <1>3, <1>4, <1>6, <2>1, StraightSlice
<1>9. E(m) = 0
  BY <1>3, <1>4, <1>7, <1>8
<1>10. ASSUME NEW k \in Splits(N), k < m PROVE E(k) > 0
  <2>1. k \in Nat /\ j \in (k + 2) .. (N - 1) /\ (j - 1) + 1 = j
    BY <1>1, <1>3, <1>10 DEF Splits
  <2>2. c.ys[j + 1] - c.ys[j] # c.ys[j] - c.ys[j - 1]
    <3>1. Level(c.ys, j - 1) = Level(c.ys, 1) /\ Level(c.ys, 1) # Level(c.ys, j)
      BY <1>3 DEF MeetAt
    <3>2. Level(c.ys, j - 1) = c.ys[j] - c.ys[j - 1] /\ Level(c.ys, j) = c.ys[j + 1] - c.ys[j]
      BY <2>1 DEF Level
    <3>. QED
      BY <3>1, <3>2
  <2>3. Fitted(c, k, N)
    BY <1>4
  <2>4. Misfit(Pre(c), k, N) # 0
    BY <1>2, <2>1, <2>2, <2>3, BentHasMisfit
  <2>5. LineFit(Pre(c), k, N).sse # 0
    BY <1>2, <2>3, <2>4, ErrorOf
  <2>. QED
    BY <1>4, <2>5
<1>. HIDE DEF E
<1>11. Best(m)
  <2>1. \A k \in Splits(N) : E(k) \in Nat
    BY <1>4
  <2>. QED
    BY <1>9, <1>10, <2>1
<1>12. BestSplit(Pre(c)) = CHOOSE k \in Splits(N) : Best(k)
  BY <1>1 DEF BestSplit, E
<1>. DEFINE d == BestSplit(Pre(c))
<1>13. d \in Splits(N) /\ Best(d)
  <2>1. \E k \in Splits(N) : Best(k)
    BY <1>3, <1>11
  <2>. HIDE DEF Best, N
  <2>. QED
    BY <1>12, <2>1
<1>. HIDE DEF d
<1>14. d = m
  <2>1. E(d) \in Nat /\ d \in Int /\ m \in Int
    BY <1>1, <1>3, <1>4, <1>13 DEF Splits
  <2>2. E(d) <= E(m)
    BY <1>3, <1>13
  <2>3. E(d) = 0
    BY <1>9, <2>1, <2>2
  <2>4. ~(d < m)
    BY <1>10, <1>13, <2>3
  <2>5. ~(m < d)
    BY <1>3, <1>9, <1>13, <2>3
  <2>. QED
    BY <2>1, <2>4, <2>5
<1>15. /\ LineFit(Pre(c), m, N).run \in Nat \ {0} /\ LineFit(Pre(c), m, N).n = N - m
  <2>1. Fitted(c, m, N)
    BY <1>3, <1>4
  <2>. QED
    BY <1>2, <2>1, ErrorOf
<1>16. N - m \in Nat /\ N - m >= 2
  BY <1>1, <1>3 DEF Splits
<1>. QED
  BY <1>6, <1>8, <1>14, <1>15, <1>16 DEF d

\* The knee, the slope and the residual of such a run.
LEMMA KneeFromInv == BenchInv => KneeFound
<1>. SUFFICES ASSUME BenchInv, Measured, curve # NoCurve,
                     NEW j \in (MinSegment + 1) .. (Len(curve.xs) - MinSegment + 1),
                     MeetAt(curve, j)
              PROVE  /\ features.knee = 100 * curve.xs[j]
                     /\ features.slope = 100 * Level(curve.ys, j)
                     /\ features.residual = 0
  BY DEF KneeFound
<1>. DEFINE N == Len(curve.xs)
            k == BestSplit(Pre(curve))
            line == LineFit(Pre(curve), k, N)
            b == Level(curve.ys, j)
<1>1. ValidCurve(curve) /\ curve \in RawCurves /\ N \in Nat /\ Pre(curve).n = N
  BY Settled, CurveSums DEF BenchInv
<1>2. /\ k = j - 1 /\ line.sse = 0 /\ line.rise = b * line.run /\ line.run \in Nat \ {0}
      /\ line.n \in Nat /\ line.n >= 2 /\ b \in Int
  BY <1>1, KneeIsBest
<1>3. /\ features.knee = 100 * curve.xs[k + 1]
      /\ features.slope = Slope(line) /\ features.residual = Variance(line)
  <2>1. features = ExtractFeatures(curve)
    BY DEF BenchInv
  <2>. QED
    BY <1>1, <2>1 DEF ExtractFeatures, Pre
<1>4. k + 1 = j
  BY <1>1, <1>2, LeastSquaresAssumption
<1>. DEFINE run == line.run
            n == line.n
<1>5. Slope(line) = 100 * b
  <2>1. Slope(line) = (100 * (b * run)) \div run
    BY <1>2 DEF Slope
  <2>2. run \in Nat \ {0} /\ b \in Int
    BY <1>2
  <2>. HIDE DEF run, b
  <2>3. 100 * (b * run) = run * (100 * b)
    BY <2>2
  <2>4. \A a \in Int : (run * a) \div run = a
    BY <2>2
  <2>. QED
    BY <2>1, <2>2, <2>3, <2>4
<1>6. Variance(line) = 0
  <2>1. Grain \div 100 \in Nat \ {0}
    BY LeastSquaresAssumption
  <2>2. \A a \in Nat \ {0} : 0 \div a = 0
    OBVIOUS
  <2>3. line.sse \div (Grain \div 100) = 0
    BY <1>2, <2>1, <2>2
  <2>4. line.n > 2 => line.n - 2 \in Nat \ {0}
    BY <1>2
  <2>. QED
    BY <2>2, <2>3, <2>4 DEF Variance
<1>. QED
  BY <1>3, <1>4, <1>5, <1>6

(***************************************************************************)
(* The scoring properties.                                                 *)
(***************************************************************************)

\* In every run no evidence speaks for a fastener: score_signature() gives at least
\* what the strongest deviation gives alone, and a feature that gets worse never
\* lowers the score of either analyser, whatever the clean runs and the curve.
THEOREM EvidenceAlwaysOnlyAdds == BenchSpec => []EvidenceOnlyAdds
BY BenchInvHolds, EvidenceFromInv, PTL

\* On any curve and baseline the classes and the severity follow the deviations: the
\* class of contamination from knee and slope, under- and over-torque never from an
\* endpoint in spec, and both full deviations make the run critical.
THEOREM ClassesAreAlwaysMeasured == BenchSpec => []ClassesAreMeasured
BY BenchInvHolds, ClassesFromInv, PTL

\* Any curve the constructors let through gets the same features from both analysers,
\* but for the reversals that one of them takes for sensor noise.
THEOREM AnalysersAlwaysAgree == BenchSpec => []GenericAgrees
BY BenchInvHolds, AgreementFromInv, PTL

\* No set of clean runs, however repeatable, leaves a tolerance that hides a knee or a
\* slope far outside everything the clean runs showed, in either analyser.
THEOREM FarIsAlwaysScored == BenchSpec => []FarFromCleanIsScored
BY BenchInvHolds, FarFromInv, PTL

\* The sweep finds the knee of every run that has one, of any length and any slopes: its
\* angle, the slope after it and no residual, as long as errors are counted finely
\* enough that none is rounded away.
THEOREM KneeIsAlwaysFound == BenchSpec => []KneeFound
BY BenchInvHolds, KneeFromInv, PTL
=============================================================================
