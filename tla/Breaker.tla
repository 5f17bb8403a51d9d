------------------------------- MODULE Breaker -------------------------------
(***************************************************************************)
(* The state of one circuit breaker and what each of its methods does to   *)
(* it (src/src/forge/infrastructure/resilience/breaker.py).  Every method  *)
(* body runs under the breaker's asyncio.Lock and awaits nothing inside    *)
(* it, so a method is one atomic operator from breaker to breaker.         *)
(* CircuitBreaker composes one breaker with its callers; LLMService a      *)
(* registry of breakers with the fallback chain.                           *)
(*                                                                         *)
(* Time is relative: instead of the monotonic clock and the stamp          *)
(* _opened_at, a breaker holds openFor, the time since the stamp, which    *)
(* stops counting at OpenDuration because state() only asks whether the    *)
(* window has elapsed.  For the same reason failures stops counting at     *)
(* FailureThreshold: the code only asks whether it has reached it.  The    *)
(* statistics (_total_calls, _total_failures, _last_error) are left out.   *)
(***************************************************************************)
EXTENDS Integers

CONSTANTS
    FailureThreshold,   \* consecutive failures that open a closed breaker
    SuccessThreshold,   \* consecutive successes that close a half-open one
    OpenDuration,       \* length of the open window, in ticks
    HalfOpenMaxCalls    \* trial calls a half-open breaker admits at a time

ASSUME BreakerAssumption ==
    /\ FailureThreshold \in Nat \ {0}
    /\ SuccessThreshold \in Nat \ {0}
    /\ HalfOpenMaxCalls \in Nat \ {0}
    /\ OpenDuration \in Nat

BreakerStates == {"CLOSED", "OPEN", "HALF_OPEN"}

\* _opened_at is None.
NotOpened == -1

BreakerType ==
    [state     : BreakerStates,
     failures  : 0 .. FailureThreshold,
     successes : 0 .. SuccessThreshold,
     inFlight  : 0 .. HalfOpenMaxCalls,
     openFor   : {NotOpened} \cup 0 .. OpenDuration]

NewBreaker ==
    [state |-> "CLOSED", failures |-> 0, successes |-> 0, inFlight |-> 0,
     openFor |-> NotOpened]

-----------------------------------------------------------------------------
\* state(): the stored state, except that an open breaker whose window has
\* elapsed reports HALF_OPEN.
ReportedState(b) ==
    IF b.state = "OPEN" /\ b.openFor # NotOpened /\ b.openFor >= OpenDuration
    THEN "HALF_OPEN"
    ELSE b.state

\* Mutant of EnterHalfOpen: the trial counters are reset by every call.
EnterHalfOpenEveryTime(b) ==
    [b EXCEPT !.state = "HALF_OPEN", !.inFlight = 0, !.successes = 0]

\* The first call after the window moves the breaker into half-open and resets
\* the trial counters.
EnterHalfOpen(b) ==
    IF b.state = "HALF_OPEN"
    THEN b
    ELSE [state |-> "HALF_OPEN", failures |-> b.failures, successes |-> 0,
          inFlight |-> 0, openFor |-> b.openFor]

\* before_call() returns instead of raising CircuitOpenError.
Admits(b) ==
    \/ ReportedState(b) = "CLOSED"
    \/ /\ ReportedState(b) = "HALF_OPEN"
       /\ EnterHalfOpen(b).inFlight < HalfOpenMaxCalls

\* Mutant of BeforeCall: only the call that enters half-open takes a slot.
BeforeCallUncounted(b) ==
    IF ReportedState(b) = "HALF_OPEN" /\ b.state = "OPEN"
    THEN [EnterHalfOpen(b) EXCEPT !.inFlight = @ + 1]
    ELSE b

\* The breaker after a before_call() that returned.  One that raises leaves the
\* breaker alone, because entering half-open frees every trial slot and so
\* always admits (HalfOpenMaxCalls > 0).
BeforeCall(b) ==
    IF ReportedState(b) = "HALF_OPEN"
    THEN [EnterHalfOpen(b) EXCEPT !.inFlight = @ + 1]
    ELSE b

\* Mutant of OnSuccess: a trial success does not clear the failures.
OnSuccessKeepsFailures(b) ==
    IF b.state # "HALF_OPEN"
    THEN [b EXCEPT !.failures = 0]
    ELSE IF b.successes + 1 >= SuccessThreshold
    THEN [b EXCEPT !.successes = 0, !.state = "CLOSED", !.openFor = NotOpened]
    ELSE [b EXCEPT !.successes = @ + 1]

\* on_success(): clears the failures; in half-open it also frees a trial slot
\* (never below zero) and closes the breaker on the SuccessThreshold-th success.
OnSuccess(b) ==
    LET closes == b.successes + 1 >= SuccessThreshold
    IN  IF b.state # "HALF_OPEN"
        THEN [b EXCEPT !.failures = 0]
        ELSE [state     |-> IF closes THEN "CLOSED" ELSE "HALF_OPEN",
              failures  |-> 0,
              successes |-> IF closes THEN 0 ELSE b.successes + 1,
              inFlight  |-> IF b.inFlight > 0 THEN b.inFlight - 1 ELSE 0,
              openFor   |-> IF closes THEN NotOpened ELSE b.openFor]

\* Mutant of OnFailure: a failed trial opens the breaker with the old stamp.
OnFailureKeepsStamp(b) ==
    IF b.state = "HALF_OPEN"
    THEN [b EXCEPT !.successes = 0, !.inFlight = 0, !.state = "OPEN"]
    ELSE IF b.failures + 1 >= FailureThreshold
    THEN [b EXCEPT !.successes = 0, !.failures = FailureThreshold,
                   !.state = "OPEN", !.openFor = 0]
    ELSE [b EXCEPT !.successes = 0, !.failures = @ + 1]

\* Mutant of OnFailure: a failed trial counts like any other failure.
OnFailureToleratesTrial(b) ==
    IF b.failures + 1 >= FailureThreshold
    THEN [b EXCEPT !.successes = 0, !.failures = FailureThreshold,
                   !.state = "OPEN", !.openFor = 0]
    ELSE [b EXCEPT !.successes = 0, !.failures = @ + 1]

\* on_failure(): in half-open it opens the breaker at once and leaves the count
\* of failures alone; otherwise it counts, and at the threshold opens the breaker
\* - or, when it is open already, starts its window again.
OnFailure(b) ==
    LET trial == b.state = "HALF_OPEN"
        count == IF trial \/ b.failures = FailureThreshold THEN b.failures
                                                           ELSE b.failures + 1
        opens == trial \/ count = FailureThreshold
    IN  [state     |-> IF opens THEN "OPEN" ELSE b.state,
         failures  |-> count,
         successes |-> 0,
         inFlight  |-> IF trial THEN 0 ELSE b.inFlight,
         openFor   |-> IF opens THEN 0 ELSE b.openFor]

\* force_open(): only the state and the stamp change.
ForceOpen(b) ==
    [state |-> "OPEN", failures |-> b.failures, successes |-> b.successes,
     inFlight |-> b.inFlight, openFor |-> 0]

Reset(b) == NewBreaker

\* One tick of the clock the window is measured with.
Elapse(b) ==
    IF b.openFor \in 0 .. OpenDuration - 1
    THEN [b EXCEPT !.openFor = @ + 1]
    ELSE b
=============================================================================
