--------------------------- MODULE VerdictPipeline ---------------------------
(***************************************************************************)
(* One inspection run through the verdict graph                            *)
(* (src/src/forge/agents/graph.py): ingestion, then the three specialists  *)
(* in any order, then the adjudicator, then cost triage.                   *)
(*                                                                         *)
(* A node is a coroutine that awaits nothing, so it is one step.  LangGraph*)
(* runs the specialists as one superstep: each reads the state ingestion   *)
(* left and writes its own slots, and the adjudicator starts when all of   *)
(* them are done.  Slots without a reducer are written by one node of a    *)
(* superstep; trace and degradations are appended to (operator.add).       *)
(*                                                                         *)
(* UseCase is the second implementation of the same decision,              *)
(* InspectionService.inspect() (src/src/forge/application/usecases).       *)
(***************************************************************************)
EXTENDS Triage, Sequences

CONSTANTS
    Positions,      \* the inspection points
    Scores,         \* the anomaly scores a curve may get
    Markets,        \* the economics a run may be priced with
    Customs         \* the custom_vision_verdict a run may bring, or "none"

ASSUME PipelineAssumption ==
    /\ Positions \subseteq Nat /\ IsFiniteSet(Positions)
    /\ Scores \subseteq 0 .. FullScore
    /\ Markets \subseteq Economics
    /\ Customs \subseteq {"none", "pass", "fail"}

VARIABLES
    input,          \* what the run is given; never changes
    done,           \* the nodes that have run
    curves,         \* inputs.curves: the positions that have one
    quality,        \* state.data_quality
    vision,         \* state.vision, "pass" or "fail"
    outcomes,       \* inputs.outcomes
    fusion,         \* state.fusion
    triage,         \* state.triage
    status,         \* state.status
    trace,          \* state.trace: the agents of its spans
    degradations    \* state.degradations

slots == <<vision, outcomes, fusion, triage>>
vars == <<input, done, curves, quality, slots, status, trace, degradations>>

Specialists == {"vision_inspector", "process_sentinel", "mes_context"}
Nodes == {"ingestion", "adjudicator", "cost_triage"} \cup Specialists

Unset == [unset |-> TRUE]

\* A position has no curve or one with a signature.  The ingestion gate looks for
\* a third kind, "short", with too few samples to analyse; the constructor of a
\* curve refuses those (MIN_CURVE_POINTS), so no run is given one.
Curves ==
    {[kind |-> "absent"]} \cup [kind : {"curve"}, score : Scores, inSpec : BOOLEAN]

OutcomeAt(p) ==
    [position |-> p, score |-> input.curves[p].score, inSpec |-> input.curves[p].inSpec]

-----------------------------------------------------------------------------
Init ==
    /\ input \in [curves : [Positions -> Curves], verifiersPassed : BOOLEAN,
                  custom : Customs, market : Markets]
    /\ done = {}
    /\ curves = {p \in Positions : input.curves[p].kind # "absent"}
    /\ quality = "good"
    /\ vision = "unset"
    /\ outcomes = {}
    /\ fusion = Unset
    /\ triage = Unset
    /\ status = "ingesting"
    /\ trace = <<>>
    /\ degradations = <<>>

\* The reducer of the trace: a node's span is appended.
Record(agent) == Append(trace, agent)

\* The node may run: it has not, and every node with an edge to it has.
Runs(node, after) ==
    /\ node \notin done
    /\ after \subseteq done
    /\ done' = done \cup {node}
    /\ trace' = Record(node)
    /\ UNCHANGED input

\* Curves too short to analyse are dropped; their absence is data quality.
Ingestion ==
    LET valid == {p \in curves : input.curves[p].kind # "short"}
        grade == IF valid = {} THEN "rejected"
                 ELSE IF valid # curves THEN "degraded" ELSE "good"
    IN  /\ Runs("ingestion", {})
        /\ curves' = valid
        /\ quality' = grade
        /\ status' = "analyzing"
        /\ degradations' = IF grade = "degraded"
                           THEN Append(degradations, "data_quality_degraded")
                           ELSE degradations
        /\ UNCHANGED slots

\* A verdict brought along replaces the one of the verifiers.
VisionInspector ==
    /\ Runs("vision_inspector", {"ingestion"})
    /\ vision' = IF input.custom # "none" THEN input.custom
                 ELSE IF input.verifiersPassed THEN "pass" ELSE "fail"
    /\ UNCHANGED <<curves, quality, outcomes, fusion, triage, status, degradations>>

ProcessSentinel ==
    /\ Runs("process_sentinel", {"ingestion"})
    /\ outcomes' = {OutcomeAt(p) : p \in curves}
    /\ UNCHANGED <<curves, quality, vision, fusion, triage, status, degradations>>

\* No source is configured: the context slot stays empty, visibly.
MesContext ==
    /\ Runs("mes_context", {"ingestion"})
    /\ degradations' = Append(degradations, "stale_context")
    /\ UNCHANGED <<curves, quality, slots, status>>

Adjudicator ==
    /\ Runs("adjudicator", Specialists)
    /\ fusion' = Adjudicate(outcomes, input.verifiersPassed)
    /\ status' = "adjudicating"
    /\ UNCHANGED <<curves, quality, vision, outcomes, triage, degradations>>

\* What happens to a unit that passed: it ships, and costs nothing.
Shipped ==
    [recommended |-> "accept", expectedCost |-> 0, reasons |-> {}, requiresHuman |-> FALSE]

Priced(market, adj) ==
    LET decision == TriageOf(market, adj)
    IN  [recommended   |-> decision.recommended,
         expectedCost  |-> decision.expectedCost,
         reasons       |-> decision.reasons,
         requiresHuman |-> NeedsHuman(adj, decision.reasons # {})]

CostTriage ==
    /\ Runs("cost_triage", {"adjudicator"})
    /\ triage' = IF fusion.verdict = "pass" THEN Shipped ELSE Priced(input.market, fusion)
    /\ status' = IF triage'.requiresHuman THEN "awaiting_human" ELSE "complete"
    /\ UNCHANGED <<curves, quality, vision, outcomes, fusion, degradations>>

Finished == done = Nodes /\ UNCHANGED vars

Next ==
    \/ Ingestion
    \/ VisionInspector \/ ProcessSentinel \/ MesContext
    \/ Adjudicator
    \/ CostTriage
    \/ Finished

Spec == Init /\ [][Next]_vars

-----------------------------------------------------------------------------
(* InspectionService.inspect(), with its own copy of the adjudication.     *)

UseCaseAdjudicate(points, verifiersPassed) ==
    LET pure      == {o \in points : FusionOnly(o)}
        anomalous == {o \in points : Anomalous(o)}
    IN  IF ~verifiersPassed THEN VerifierSays
        ELSE IF pure # {} THEN FusionSays(Worst(pure))
        ELSE IF \E o \in points : ~o.inSpec THEN EndpointSays
        ELSE IF anomalous # {} THEN SignatureSays(Worst(anomalous))
        ELSE AllNominal

\* Rejected input is answered at once, and the unit is quarantined.
UseCase ==
    LET valid  == {p \in Positions : input.curves[p].kind = "curve"}
        points == {OutcomeAt(p) : p \in valid}
        adj    == UseCaseAdjudicate(points, input.verifiersPassed)
    IN  IF valid = {}
        THEN [fusion |-> NoSignals,
              triage |-> [recommended |-> "quarantine", expectedCost |-> 0,
                          reasons |-> {"quality gate"}, requiresHuman |-> TRUE]]
        ELSE [fusion |-> adj,
              triage |-> IF adj.verdict = "pass" THEN Shipped ELSE Priced(input.market, adj)]

-----------------------------------------------------------------------------
(* What an inspection promises.                                            *)

Decided == "cost_triage" \in done

AdjudicationType ==
    [verdict : {"pass", "defect", "escalate"}, severity : {"critical", "major", "minor"},
     confidence : 0 .. Certain, primary : {"vision", "process", "fusion", "none"},
     fusionOnly : BOOLEAN, conflict : BOOLEAN]

TriageType ==
    [recommended : Autonomous, expectedCost : Nat, reasons : SUBSET STRING,
     requiresHuman : BOOLEAN]

\* The state of a run is a QCState; the recommendation is never to halt the line.
TypeOK ==
    /\ done \subseteq Nodes
    /\ curves \subseteq Positions
    /\ quality \in {"good", "degraded", "rejected"}
    /\ vision \in {"unset", "pass", "fail"}
    /\ \A o \in outcomes : o \in Outcome /\ o.position \in curves
    /\ fusion = Unset \/ fusion \in AdjudicationType
    /\ triage = Unset \/ /\ triage.recommended \in Autonomous
                         /\ triage.expectedCost \in Nat
                         /\ triage.requiresHuman \in BOOLEAN
    /\ status \in {"ingesting", "analyzing", "adjudicating", "awaiting_human", "complete"}

\* A unit passes only on evidence, and on all of it: some curve could be analysed,
\* every curve that could be is in spec and nominal, and the verifiers confirm the
\* rest.  A missing measurement is not a passing measurement, and one anomalous
\* fastener is not diluted by the nominal ones.
PassesOnlyOnEvidence ==
    Decided /\ fusion.verdict = "pass" =>
        /\ quality # "rejected"
        /\ input.verifiersPassed
        /\ \E p \in Positions : input.curves[p].kind = "curve"
        /\ \A p \in Positions : input.curves[p].kind = "curve" =>
             input.curves[p].inSpec /\ input.curves[p].score < AnomalyThreshold

\* The system may reject a unit on its own, but a unit that did not pass is
\* never accepted on its own - not even one that no curve says anything about.
NeverAcceptsAlone ==
    Decided /\ fusion.verdict # "pass" /\ triage.recommended = "accept" =>
        triage.requiresHuman

\* A decision that nobody is asked about carries its own price: the cost reported
\* is the recommended action's, no other action of any kind is cheaper, and
\* halting the line, were it cheaper, would have asked a human.
AloneAtItsOwnPrice ==
    Decided /\ fusion.verdict # "pass" /\ ~triage.requiresHuman =>
        /\ triage.expectedCost
             = Expected(input.market, triage.recommended, fusion.confidence)
        /\ \A a \in Actions(input.market) :
             triage.expectedCost <= Expected(input.market, a, fusion.confidence)

\* The graph and the use case are one decision, not two: given anything to
\* analyse they agree on the verdict, its price and whether to ask a human, and
\* given nothing at least on the verdict.
AgreesWithUseCase ==
    Decided =>
        /\ fusion = UseCase.fusion
        /\ quality # "rejected" => triage = UseCase.triage

\* Worse evidence never makes the verdict milder: had any one curve of a unit that
\* did not pass scored higher, or been out of spec, or both, the verdict would be
\* the same - no second signal turns a defect into a mere escalation.
WorseIsNeverMilder ==
    Decided /\ fusion.verdict # "pass" =>
        \A o \in outcomes : \A s \in Scores : \A inSpec \in {o.inSpec, FALSE} :
            s >= o.score =>
                Adjudicate((outcomes \ {o}) \cup {[o EXCEPT !.score = s, !.inSpec = inSpec]},
                           input.verifiersPassed).verdict = fusion.verdict
=============================================================================
