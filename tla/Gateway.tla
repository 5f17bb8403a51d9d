------------------------------- MODULE Gateway -------------------------------
(***************************************************************************)
(* The Admin page behind the rate limiter: a request that is let through   *)
(* may be one for admin_system() (src/apps/api/main.py), which sees that a *)
(* probe is under way when one is due and shows what is known.  It is the  *)
(* only thing after the boot that starts probes, and a probe that fails is *)
(* due again at once: nothing but the limit holds a polled page back.      *)
(***************************************************************************)
EXTENDS RateLimiter, CapabilityProbe

CONSTANT Admins         \* the subjects that may read the page

ASSUME GatewayAssumption == Admins \subseteq Subjects

VARIABLES
    started,    \* started[a]: the ages of the probes that a's pages have started
                \* within a window
    sinceGood   \* ticks since a probe last succeeded, or NotMeasured

gateVars == <<vars, probeVars, started, sinceGood>>

GateInit == Init /\ ProbeInit /\ started = [a \in Admins |-> <<>>] /\ sinceGood = NotMeasured

\* A request for anything else.
Other ==
    /\ \E s \in Subjects : Allow(s) \/ Deny(s)
    /\ UNCHANGED <<probeVars, started, sinceGood>>

\* GET /api/v1/admin/system
AdminPage ==
    /\ EnsureRunning
    /\ \E a \in Admins :
         /\ Allow(a)
         /\ started' = IF probes' > probes THEN [started EXCEPT ![a] = Append(@, 0)]
                                          ELSE started
    /\ UNCHANGED sinceGood

\* A probe ends, in either way.
ProbeEnds ==
    /\ \/ Measures /\ sinceGood' = 0
       \/ Fails /\ UNCHANGED sinceGood
    /\ UNCHANGED <<vars, started>>

GateTick ==
    /\ Tick
    /\ ProbeTick
    /\ started' = [a \in Admins |-> Within(Older(started[a]))]
    /\ sinceGood' = IF sinceGood \in 0..ProbeTTL THEN sinceGood + 1 ELSE sinceGood

GateNext == Other \/ AdminPage \/ ProbeEnds \/ GateTick

GateSpec == GateInit /\ [][GateNext]_gateVars

\* Every endpoint is asked with a timeout, so a probe ends; and time passes.
GateFairness == WF_gateVars(ProbeEnds) /\ WF_gateVars(GateTick)

GateFairSpec == GateSpec /\ GateFairness

-----------------------------------------------------------------------------
(* What the page promises.                                                 *)

\* Probes are expensive: however the page is polled and however probes fail, there is
\* never more than one in flight, and within any window the pages of an admin start no
\* more of them than the admin's limit.
ProbesAreBounded ==
    /\ probes = IF running THEN 1 ELSE 0
    /\ \A a \in Admins : Len(started[a]) <= limit[a]

\* The page is never told less or more than is so: what it shows as ready was
\* measured by a probe that succeeded within the TTL, and none has failed since; and
\* when it shows anything else, a probe is on its way.
PageIsHonest ==
    [][AdminPage =>
        /\ Status' \in {"ready", "stale", "probing"}
        /\ Status' = "ready" => sinceGood \in 0..ProbeTTL /\ ~error
        /\ Status' # "ready" => probes' = 1]_gateVars

\* A page that is read again and again shows a fresh measurement again and again,
\* once probes stop failing: whatever went wrong before has not stopped the probing.
ComesBack ==
    []<><<AdminPage>>_gateVars /\ <>[][~(Fails /\ ProbeEnds)]_gateVars
        => []<>(Status = "ready")
=============================================================================
