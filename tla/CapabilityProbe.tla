--------------------------- MODULE CapabilityProbe ---------------------------
(***************************************************************************)
(* The cache of what the model endpoints can do (CapabilityProbeCache,     *)
(* src/apps/api/capabilities.py): one probe in the background at a time,   *)
(* and a label on what has been measured so far.                           *)
(*                                                                         *)
(* A probe suspends once, in probe() of the LLM service, which asks every  *)
(* configured endpoint in turn; what it finds is left out.  It fails when  *)
(* the service cannot be built or probe() raises.  refresh() is left out:  *)
(* only tests call it.  Time is relative: the measurement has an age in    *)
(* ticks, and stops ageing when it is past its TTL.                        *)
(***************************************************************************)
EXTENDS Integers

CONSTANT ProbeTTL       \* ttl_seconds, in ticks

ASSUME ProbeAssumption == ProbeTTL \in Nat

VARIABLES
    age,        \* how old the measurement is, or NotMeasured
    error,      \* was the last probe that ended a failure?
    running,    \* _running
    probes      \* how many probes are in flight

probeVars == <<age, error, running, probes>>

NotMeasured == -1

\* The state before the boot, and with the probe that the boot starts.
ProbeInit ==
    /\ age = NotMeasured
    /\ error = FALSE
    /\ running = TRUE
    /\ probes = 1

\* Mutant of NeedsRefresh: that a probe is running is not looked at.
NeedsRefreshByAge == age = NotMeasured \/ age > ProbeTTL

NeedsRefresh == ~running /\ (age = NotMeasured \/ age > ProbeTTL)

\* ensure_running(): the flag is up before anything is awaited.
EnsureRunning ==
    /\ IF NeedsRefresh
       THEN running' = TRUE /\ probes' = probes + 1
       ELSE UNCHANGED <<running, probes>>
    /\ UNCHANGED <<age, error>>

\* _run() ends, and the finally clause runs.
Ended == probes > 0 /\ probes' = probes - 1 /\ running' = FALSE

Measures == Ended /\ age' = 0 /\ error' = FALSE

\* Mutant of Fails: the flag is taken down after a success only.
FailsForGood == probes > 0 /\ probes' = probes - 1 /\ error' = TRUE /\ UNCHANGED <<age, running>>

\* The last measurement is kept.
Fails == Ended /\ error' = TRUE /\ UNCHANGED age

ProbeTick ==
    /\ age' = IF age \in 0..ProbeTTL THEN age + 1 ELSE age
    /\ UNCHANGED <<error, running, probes>>

\* Mutant of Status: that the last probe failed is not looked at, nor is the age.
StatusMeasured == IF age = NotMeasured THEN "probing" ELSE "ready"

\* snapshot()
Status ==
    CASE age = NotMeasured -> IF running THEN "probing"
                              ELSE IF error THEN "failed" ELSE "never_run"
      [] error /\ ~running /\ age # NotMeasured -> "failed"
      [] ~(error /\ ~running) /\ age \in 0..ProbeTTL -> "ready"
      [] ~(error /\ ~running) /\ age > ProbeTTL -> "stale"
=============================================================================
