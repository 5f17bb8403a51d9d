--------------------------- MODULE CircuitBreaker ---------------------------
(***************************************************************************)
(* One circuit breaker and the coroutines that call through it.  A call is *)
(* admitted by before_call(), runs without the lock for as long as the     *)
(* dependency takes, and then reports on_success() or on_failure() - or    *)
(* never reports, when the task is cancelled or dies of an exception the   *)
(* caller does not catch.  Any number of calls admitted at different       *)
(* moments, in different breaker states, are out at once, and they report  *)
(* in any order: that is what the state machine in the breaker's docstring *)
(* does not show.                                                          *)
(***************************************************************************)
EXTENDS Breaker, FiniteSets

CONSTANTS
    Calls,              \* the coroutines that may be calling at the same time
    CallTimeout,        \* ticks after which a call has always ended
    MayAbandon,         \* may a call end without reporting its outcome?
    FaultInjection      \* may an operator force the breaker open or reset it?

ASSUME CallsAssumption ==
    /\ IsFiniteSet(Calls)
    /\ CallTimeout \in Nat
    /\ MayAbandon \in BOOLEAN
    /\ FaultInjection \in BOOLEAN

VARIABLES
    breaker,    \* the breaker
    age,        \* age[c]: ticks since call c was admitted, or Idle
    trials,     \* the calls out that this half-open episode admitted
    cooling,    \* ticks since a half-open failure, up to OpenDuration
    report      \* what the last step reported: "success", "failure" or "none"

vars == <<breaker, age, trials, cooling, report>>

Idle == -1

Calling == {c \in Calls : age[c] # Idle}

TypeOK ==
    /\ breaker \in BreakerType
    /\ age \in [Calls -> {Idle} \cup 0 .. CallTimeout]
    /\ trials \in SUBSET Calls
    /\ cooling \in 0 .. OpenDuration
    /\ report \in {"success", "failure", "none"}

Init ==
    /\ breaker = NewBreaker
    /\ age = [c \in Calls |-> Idle]
    /\ trials = {}
    /\ cooling = OpenDuration
    /\ report = "none"

-----------------------------------------------------------------------------
\* trials, cooling and report only record history: which calls out belong to the
\* half-open episode in progress, when one last failed, and the last outcome.
TrialsAfter(b, calls) == IF b.state = "HALF_OPEN" THEN calls ELSE {}

\* `await breaker.before_call()` returns.  (When it raises, nothing changes.)
Admit(c) ==
    /\ age[c] = Idle
    /\ Admits(breaker)
    /\ breaker' = BeforeCall(breaker)
    /\ age' = [age EXCEPT ![c] = 0]
    /\ trials' = TrialsAfter(breaker', trials \cup {c})
    /\ report' = "none"
    /\ UNCHANGED cooling

Succeed(c) ==
    /\ age[c] # Idle
    /\ breaker' = OnSuccess(breaker)
    /\ age' = [age EXCEPT ![c] = Idle]
    /\ trials' = TrialsAfter(breaker', trials \ {c})
    /\ report' = "success"
    /\ UNCHANGED cooling

Fail(c) ==
    /\ age[c] # Idle
    /\ breaker' = OnFailure(breaker)
    /\ age' = [age EXCEPT ![c] = Idle]
    /\ trials' = {}
    /\ report' = "failure"
    /\ cooling' = IF breaker.state = "HALF_OPEN" THEN 0 ELSE cooling

\* The call ends with neither on_success() nor on_failure(): LLMService awaits
\* the adapter in a try that handles LLMError only, so a CancelledError (the
\* narrative's asyncio.wait_for) or any other exception passes it by.
Abandon(c) ==
    /\ MayAbandon
    /\ age[c] # Idle
    /\ age' = [age EXCEPT ![c] = Idle]
    /\ trials' = trials \ {c}
    /\ report' = "none"
    /\ UNCHANGED <<breaker, cooling>>

OperatorOpens ==
    /\ FaultInjection
    /\ breaker' = ForceOpen(breaker)
    /\ trials' = {}
    /\ report' = "none"
    /\ UNCHANGED <<age, cooling>>

OperatorResets ==
    /\ FaultInjection
    /\ breaker' = Reset(breaker)
    /\ trials' = {}
    /\ cooling' = OpenDuration
    /\ report' = "none"
    /\ UNCHANGED age

\* Time passes, for the open window and for every call that is out; no call
\* lives past its timeout.
Tick ==
    /\ \A c \in Calling : age[c] < CallTimeout
    /\ breaker' = Elapse(breaker)
    /\ age' = [c \in Calls |-> IF age[c] = Idle THEN Idle ELSE age[c] + 1]
    /\ cooling' = IF cooling < OpenDuration THEN cooling + 1 ELSE cooling
    /\ report' = "none"
    /\ UNCHANGED trials

Next ==
    \/ \E c \in Calls : Admit(c) \/ Succeed(c) \/ Fail(c) \/ Abandon(c)
    \/ OperatorOpens \/ OperatorResets
    \/ Tick

Spec == Init /\ [][Next]_vars

\* The event loop keeps running and so does the clock; a call that is out ends
\* one way or another; and somebody keeps asking for the dependency.
Fairness ==
    /\ WF_vars(Tick)
    /\ \A c \in Calls : WF_vars(Succeed(c) \/ Fail(c) \/ Abandon(c))
    /\ WF_vars(\E c \in Calls : Admit(c))

FairSpec == Spec /\ Fairness

-----------------------------------------------------------------------------
(* Safety.                                                                 *)

\* What each state says of the counters, whatever order the calls report in: a
\* closed breaker is below its failure threshold and carries no stamp; an open
\* one always carries a stamp, so its window always ends (state() would never
\* leave OPEN without one); a half-open one has served its whole window and has
\* not yet seen enough successes to close.
StatesAgree ==
    /\ breaker.state = "CLOSED" =>
         breaker.failures < FailureThreshold /\ breaker.openFor = NotOpened
    /\ breaker.state = "OPEN" => breaker.openFor # NotOpened
    /\ breaker.state = "HALF_OPEN" =>
         breaker.openFor = OpenDuration /\ breaker.successes < SuccessThreshold

\* Half-open admits a strictly limited number of trial calls: of the calls the
\* half-open episode in progress admitted, no more than HalfOpenMaxCalls are
\* out at once.
TrialsLimited == Cardinality(trials) <= HalfOpenMaxCalls

\* A dependency that fails its trial does not get a second trial in the same
\* window: nobody is admitted until a whole open window after a half-open
\* failure, however late the other calls report and whatever they report.
NoSecondTrialInWindow ==
    [][\A c \in Calls : age[c] = Idle /\ age'[c] # Idle => cooling = OpenDuration]_vars

\* Why the two hold.  While the breaker still cools down after a failed trial it
\* is open, and its window started no earlier than that failure.
Cooled ==
    cooling < OpenDuration =>
        breaker.state = "OPEN" /\ breaker.openFor <= cooling

\* Trials are calls that are out and belong to a half-open episode, each in a
\* slot of its own; every other call that is out while the breaker is not closed
\* was admitted before its window started.
TrialsTracked ==
    /\ breaker.state # "HALF_OPEN" => trials = {}
    /\ trials \subseteq Calling
    /\ breaker.state = "HALF_OPEN" => Cardinality(trials) <= breaker.inFlight
    /\ breaker.state # "CLOSED" =>
         \A c \in Calling \ trials : breaker.openFor <= age[c]

\* The promise the callers rely on, with the counters hidden.
Promise == INSTANCE BreakerPromise
    WITH mode <- breaker.state,
         rest <- IF breaker.state = "OPEN" THEN OpenDuration - breaker.openFor
                                           ELSE 0,
         out  <- Calling

\* The breaker implements that promise.
KeepsPromise == Promise!Spec

-----------------------------------------------------------------------------
(* Liveness.                                                               *)

\* From some point on every call that ends reports success, and no operator
\* forces the breaker open.
EventuallyHealthy ==
    <>[][~OperatorOpens /\ \A c \in Calls : ~Fail(c) /\ ~Abandon(c)]_vars

\* Every trial slot is held by a call that ended without reporting.
Wedged ==
    /\ breaker.state = "HALF_OPEN"
    /\ breaker.inFlight = HalfOpenMaxCalls
    /\ trials = {}

\* Once the dependency is healthy the breaker ends up closed for good, unless
\* calls that never reported hold every trial slot.
RecoversUnlessWedged == EventuallyHealthy => <>[](breaker.state = "CLOSED" \/ Wedged)

\* The state machine in the breaker's docstring: half-open leads back to closed
\* by successes, so a breaker in front of a dependency that has become healthy
\* closes.
Recovers == EventuallyHealthy => <>[](breaker.state = "CLOSED")
=============================================================================
