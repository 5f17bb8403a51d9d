------------------------ MODULE CircuitBreakerProofs ------------------------
(***************************************************************************)
(* Proofs about CircuitBreaker, for every number of callers and every      *)
(* configuration of the breaker.                                           *)
(***************************************************************************)
EXTENDS CircuitBreaker, FiniteSetTheorems, TLAPS

(***************************************************************************)
(* What each method returns: a breaker, with these fields.                 *)
(***************************************************************************)

\* before_call() of an admitted call: a closed breaker is left alone, any other
\* ends up half-open with one more slot taken, counted from zero when the call
\* is the one that entered half-open.
LEMMA BeforeCallFields ==
    ASSUME NEW b \in BreakerType, Admits(b)
    PROVE  /\ BeforeCall(b) \in BreakerType
           /\ BeforeCall(b).failures = b.failures
           /\ BeforeCall(b).openFor = b.openFor
           /\ b.state = "CLOSED" => BeforeCall(b) = b
           /\ b.state # "CLOSED" =>
                /\ BeforeCall(b).state = "HALF_OPEN"
                /\ b.state = "OPEN" => b.openFor = OpenDuration
                /\ BeforeCall(b).inFlight =
                     IF b.state = "HALF_OPEN" THEN b.inFlight + 1 ELSE 1
                /\ BeforeCall(b).successes =
                     IF b.state = "HALF_OPEN" THEN b.successes ELSE 0
<1>. USE BreakerAssumption DEF BreakerType, BreakerStates, NotOpened
<1>1. CASE b.state = "CLOSED"
  BY <1>1 DEF BeforeCall, ReportedState
<1>2. CASE b.state = "OPEN"
  <2>. DEFINE e == EnterHalfOpen(b)
  <2>1. /\ e \in BreakerType
        /\ e.state = "HALF_OPEN" /\ e.inFlight = 0 /\ e.successes = 0
        /\ e.failures = b.failures /\ e.openFor = b.openFor
    BY <1>2 DEF EnterHalfOpen
  <2>2. ReportedState(b) = "HALF_OPEN" /\ b.openFor = OpenDuration
    BY <1>2 DEF Admits, ReportedState
  <2>3. BeforeCall(b) = [e EXCEPT !.inFlight = @ + 1]
    BY <2>2 DEF BeforeCall
  <2>. HIDE DEF e
  <2>4. QED
    BY <1>2, <2>1, <2>2, <2>3
<1>3. CASE b.state = "HALF_OPEN"
  <2>1. ReportedState(b) = "HALF_OPEN" /\ b.inFlight < HalfOpenMaxCalls
    BY <1>3 DEF Admits, ReportedState, EnterHalfOpen
  <2>2. BeforeCall(b) = [b EXCEPT !.inFlight = @ + 1]
    BY <1>3, <2>1 DEF BeforeCall, EnterHalfOpen
  <2>3. QED
    BY <1>3, <2>1, <2>2
<1>4. QED
  BY <1>1, <1>2, <1>3

\* on_success().
LEMMA OnSuccessFields ==
    ASSUME NEW b \in BreakerType
    PROVE  /\ OnSuccess(b) \in BreakerType
           /\ OnSuccess(b).failures = 0
           /\ b.state # "HALF_OPEN" =>
                /\ OnSuccess(b).state = b.state
                /\ OnSuccess(b).openFor = b.openFor
                /\ OnSuccess(b).successes = b.successes
                /\ OnSuccess(b).inFlight = b.inFlight
           /\ b.state = "HALF_OPEN" =>
                /\ OnSuccess(b).inFlight = IF b.inFlight > 0 THEN b.inFlight - 1 ELSE 0
                /\ \/ /\ OnSuccess(b).state = "CLOSED"
                      /\ OnSuccess(b).openFor = NotOpened
                   \/ /\ OnSuccess(b).state = "HALF_OPEN"
                      /\ OnSuccess(b).openFor = b.openFor
                      /\ OnSuccess(b).successes < SuccessThreshold
  BY BreakerAssumption DEF BreakerType, BreakerStates, OnSuccess, NotOpened

\* on_failure(): it opens the breaker with a fresh stamp, at once when it was
\* half-open, or only counts the failure.
LEMMA OnFailureFields ==
    ASSUME NEW b \in BreakerType
    PROVE  /\ OnFailure(b) \in BreakerType
           /\ \/ OnFailure(b).state = "OPEN" /\ OnFailure(b).openFor = 0
              \/ /\ b.state # "HALF_OPEN"
                 /\ OnFailure(b).state = b.state
                 /\ OnFailure(b).openFor = b.openFor
                 /\ OnFailure(b).failures < FailureThreshold
           /\ OnFailure(b).state # "HALF_OPEN"
  BY BreakerAssumption DEF BreakerType, BreakerStates, OnFailure, NotOpened

\* A tick: only openFor changes, and it stops at OpenDuration.
LEMMA ElapseFields ==
    ASSUME NEW b \in BreakerType
    PROVE  /\ Elapse(b) \in BreakerType
           /\ Elapse(b).state = b.state
           /\ Elapse(b).failures = b.failures
           /\ Elapse(b).successes = b.successes
           /\ Elapse(b).inFlight = b.inFlight
           /\ Elapse(b).openFor = IF b.openFor \in 0 .. OpenDuration - 1
                                  THEN b.openFor + 1 ELSE b.openFor
  BY BreakerAssumption DEF BreakerType, BreakerStates, Elapse, NotOpened

\* force_open(): open, with a fresh stamp.
LEMMA ForceOpenFields ==
    ASSUME NEW b \in BreakerType
    PROVE  /\ ForceOpen(b) \in BreakerType
           /\ ForceOpen(b).state = "OPEN"
           /\ ForceOpen(b).openFor = 0
  BY BreakerAssumption DEF BreakerType, BreakerStates, ForceOpen, NotOpened

\* reset(): as new.
LEMMA ResetFields ==
    ASSUME NEW b
    PROVE  /\ Reset(b) \in BreakerType
           /\ Reset(b).state = "CLOSED"
           /\ Reset(b).openFor = NotOpened
           /\ Reset(b).failures = 0
  BY BreakerAssumption DEF BreakerType, BreakerStates, Reset, NewBreaker, NotOpened

-----------------------------------------------------------------------------
(***************************************************************************)
(* The inductive invariant.  StatesAgree is needed for itself; Cooled is   *)
(* what makes NoSecondTrialInWindow follow from a guard; TrialsTracked     *)
(* makes TrialsLimited follow from the count of slots, provided no call    *)
(* outlives an open window.                                                *)
(***************************************************************************)
IInv == TypeOK /\ StatesAgree /\ Cooled

\* The breaker as constructed satisfies the invariant.
LEMMA InitIInv == Init => IInv
  BY BreakerAssumption
     DEF Init, IInv, TypeOK, StatesAgree, Cooled, NewBreaker, BreakerType,
         BreakerStates, NotOpened, Idle

\* An admission preserves it: whoever gets through an elapsed window finds the
\* cool-down over, because the window started no earlier.
LEMMA AdmitIInv == ASSUME IInv, NEW c \in Calls, Admit(c) PROVE IInv'
<1>1. breaker \in BreakerType /\ Admits(breaker) /\ breaker' = BeforeCall(breaker)
  BY DEF IInv, TypeOK, Admit
<1>2. TypeOK'
  BY <1>1, BeforeCallFields, CallsAssumption, BreakerAssumption
     DEF IInv, TypeOK, Admit, TrialsAfter, Idle
<1>3. StatesAgree'
  BY <1>1, BeforeCallFields, BreakerAssumption
     DEF IInv, StatesAgree, BreakerType, BreakerStates, NotOpened
<1>4. cooling' = OpenDuration
  <2>1. SUFFICES cooling = OpenDuration
    BY DEF Admit
  <2>2. SUFFICES ASSUME cooling < OpenDuration PROVE FALSE
    BY BreakerAssumption DEF IInv, TypeOK
  <2>3. breaker.state = "OPEN" /\ breaker.openFor < OpenDuration
    BY <1>1, <2>2, BreakerAssumption
       DEF IInv, Cooled, TypeOK, BreakerType, NotOpened
  <2>4. QED
    BY <1>1, <2>3, BreakerAssumption
       DEF Admits, ReportedState, BreakerType, NotOpened
<1>5. QED
  BY <1>2, <1>3, <1>4, BreakerAssumption DEF IInv, Cooled

\* A reported success preserves it: success never opens a breaker, and closing one
\* forgets its stamp.
LEMMA SucceedIInv == ASSUME IInv, NEW c \in Calls, Succeed(c) PROVE IInv'
<1>1. breaker \in BreakerType /\ breaker' = OnSuccess(breaker)
  BY DEF IInv, TypeOK, Succeed
<1>2. TypeOK'
  BY <1>1, OnSuccessFields DEF IInv, TypeOK, Succeed, TrialsAfter, Idle
<1>3. StatesAgree'
  BY <1>1, OnSuccessFields, BreakerAssumption
     DEF IInv, StatesAgree, BreakerType, BreakerStates, NotOpened
<1>4. Cooled'
  BY <1>1, OnSuccessFields DEF IInv, Cooled, Succeed
<1>5. QED
  BY <1>2, <1>3, <1>4 DEF IInv

\* A reported failure preserves it: whenever it opens the breaker, or finds it open
\* and full, the stamp is fresh, and so no older than the cool-down.
LEMMA FailIInv == ASSUME IInv, NEW c \in Calls, Fail(c) PROVE IInv'
<1>1. breaker \in BreakerType /\ breaker' = OnFailure(breaker)
  BY DEF IInv, TypeOK, Fail
<1>2. TypeOK'
  BY <1>1, OnFailureFields, BreakerAssumption DEF IInv, TypeOK, Fail, Idle
<1>3. StatesAgree'
  BY <1>1, OnFailureFields, BreakerAssumption
     DEF IInv, StatesAgree, BreakerType, BreakerStates, NotOpened
<1>4. Cooled'
  BY <1>1, OnFailureFields, BreakerAssumption
     DEF IInv, TypeOK, Cooled, Fail
<1>5. QED
  BY <1>2, <1>3, <1>4 DEF IInv

\* So do force_open() and reset().
LEMMA OperatorIInv == ASSUME IInv, OperatorOpens \/ OperatorResets PROVE IInv'
<1>1. CASE OperatorOpens
  BY <1>1, ForceOpenFields, BreakerAssumption
     DEF OperatorOpens, IInv, TypeOK, StatesAgree, Cooled, NotOpened
<1>2. CASE OperatorResets
  BY <1>2, ResetFields, BreakerAssumption
     DEF OperatorResets, IInv, TypeOK, StatesAgree, Cooled, NotOpened
<1>3. QED
  BY <1>1, <1>2

\* So does the passing of time: window and cool-down age together.
LEMMA TickIInv == ASSUME IInv, Tick PROVE IInv'
<1>1. breaker \in BreakerType /\ breaker' = Elapse(breaker)
  BY DEF IInv, TypeOK, Tick
<1>2. TypeOK'
  BY <1>1, ElapseFields, BreakerAssumption, CallsAssumption
     DEF IInv, TypeOK, Tick, Calling, Idle
<1>3. StatesAgree'
  BY <1>1, ElapseFields, BreakerAssumption
     DEF IInv, StatesAgree, BreakerType, BreakerStates, NotOpened
<1>4. Cooled'
  BY <1>1, ElapseFields, BreakerAssumption
     DEF IInv, TypeOK, Cooled, Tick, StatesAgree, BreakerType, NotOpened
<1>5. QED
  BY <1>2, <1>3, <1>4 DEF IInv

\* The invariant is inductive.
LEMMA NextIInv == IInv /\ [Next]_vars => IInv'
<1>1. ASSUME IInv, NEW c \in Calls, Abandon(c) PROVE IInv'
  BY <1>1 DEF Abandon, IInv, TypeOK, StatesAgree, Cooled, Idle
<1>2. ASSUME IInv, UNCHANGED vars PROVE IInv'
  BY <1>2 DEF vars, IInv, TypeOK, StatesAgree, Cooled
<1>3. QED
  BY <1>1, <1>2, AdmitIInv, SucceedIInv, FailIInv, OperatorIInv, TickIInv DEF Next

\* It holds throughout, for every value of the constants.
LEMMA AlwaysIInv == Spec => []IInv
  BY InitIInv, NextIInv, PTL DEF Spec

\* The breaker's fields stay in range and consistent with its state, whatever
\* order any number of calls report in (breaker.py, every method).
THEOREM TypeCorrect == Spec => []TypeOK
<1>1. IInv => TypeOK
  BY DEF IInv
<1>2. QED
  BY <1>1, AlwaysIInv, PTL

\* What a state of the breaker says of its counters is so in every reachable state:
\* a closed breaker is below its threshold, an open one carries a stamp, a half-open
\* one has served its window (breaker.py:104-153).
THEOREM StatesAlwaysAgree == Spec => []StatesAgree
<1>1. IInv => StatesAgree
  BY DEF IInv
<1>2. QED
  BY <1>1, AlwaysIInv, PTL

\* breaker.py:143: a dependency that fails its trial does not get a second trial
\* in the same window.  Whoever is admitted found the window over, and the window
\* started no earlier than the failure.
THEOREM NoSecondTrial == Spec => NoSecondTrialInWindow
<1>1. ASSUME IInv, [Next]_vars
      PROVE  [\A c \in Calls : age[c] = Idle /\ age'[c] # Idle => cooling = OpenDuration]_vars
  <2>1. SUFFICES ASSUME Next, NEW d \in Calls, age[d] = Idle, age'[d] # Idle
                 PROVE  cooling = OpenDuration
    BY <1>1
  <2>2. ASSUME NEW c \in Calls, Admit(c) PROVE cooling = OpenDuration
    <3>1. SUFFICES ASSUME cooling < OpenDuration PROVE FALSE
      BY <1>1, BreakerAssumption DEF IInv, TypeOK
    <3>2. /\ breaker.state = "OPEN" /\ breaker.openFor \in Int
          /\ breaker.openFor < OpenDuration
      BY <1>1, <3>1, BreakerAssumption
         DEF IInv, Cooled, TypeOK, BreakerType, NotOpened
    <3>3. QED
      BY <2>2, <3>2, BreakerAssumption DEF Admit, Admits, ReportedState
  <2>3. ASSUME NEW c \in Calls, Succeed(c) \/ Fail(c) \/ Abandon(c) PROVE FALSE
    BY <1>1, <2>1, <2>3 DEF Succeed, Fail, Abandon, IInv, TypeOK
  <2>4. ASSUME OperatorOpens \/ OperatorResets \/ Tick PROVE FALSE
    BY <1>1, <2>1, <2>4 DEF OperatorOpens, OperatorResets, Tick, IInv, TypeOK
  <2>5. QED
    BY <2>1, <2>2, <2>3, <2>4 DEF Next
<1>2. QED
  BY <1>1, AlwaysIInv, PTL DEF Spec, NoSecondTrialInWindow

-----------------------------------------------------------------------------
(***************************************************************************)
(* Trials.                                                                 *)
(***************************************************************************)

\* No trials at the start.
LEMMA InitTrials == Init => TrialsTracked
  BY FS_EmptySet DEF Init, TrialsTracked, NewBreaker, Calling

\* There are finitely many trials, because there are finitely many callers.
LEMMA TrialsFinite == ASSUME TypeOK PROVE IsFiniteSet(trials) /\ Cardinality(trials) \in Nat
  BY CallsAssumption, FS_Subset, FS_CardinalityType DEF TypeOK

\* An admitted trial takes a slot of its own.
LEMMA AdmitTrials ==
    ASSUME IInv, TrialsTracked, NEW c \in Calls, Admit(c) PROVE TrialsTracked'
<1>. DEFINE b == breaker
<1>1. /\ b \in BreakerType /\ Admits(b) /\ breaker' = BeforeCall(b)
      /\ age' = [age EXCEPT ![c] = 0] /\ age \in [Calls -> {Idle} \cup 0 .. CallTimeout]
  BY DEF IInv, TypeOK, Admit
<1>2. c \notin trials /\ IsFiniteSet(trials) /\ Cardinality(trials) \in Nat
  BY TrialsFinite DEF IInv, Admit, TrialsTracked, Calling
<1>3. Calling' = Calling \cup {c}
  BY <1>1, CallsAssumption DEF Calling, Idle
<1>4. CASE b.state = "CLOSED"
  <2>1. breaker' = breaker /\ trials' = {} /\ trials = {}
    BY <1>1, <1>4, BeforeCallFields DEF Admit, TrialsAfter, TrialsTracked
  <2>2. QED
    BY <1>4, <2>1 DEF TrialsTracked
<1>5. CASE b.state # "CLOSED"
  <2>1. /\ breaker'.state = "HALF_OPEN" /\ breaker'.openFor = b.openFor
        /\ breaker'.inFlight = IF b.state = "HALF_OPEN" THEN b.inFlight + 1 ELSE 1
    BY <1>1, <1>5, BeforeCallFields
  <2>2. trials' = trials \cup {c}
    BY <2>1 DEF Admit, TrialsAfter
  <2>3. Cardinality(trials') = Cardinality(trials) + 1
    BY <1>2, <2>2, FS_AddElement
  <2>4. Cardinality(trials') <= breaker'.inFlight
    <3>1. CASE b.state = "HALF_OPEN"
      BY <1>1, <1>2, <2>1, <2>3, <3>1 DEF TrialsTracked, BreakerType
    <3>2. CASE b.state = "OPEN"
      BY <1>2, <2>1, <2>3, <3>2, FS_EmptySet DEF TrialsTracked
    <3>3. QED
      BY <1>1, <1>5, <3>1, <3>2 DEF BreakerType, BreakerStates
  <2>5. \A d \in Calling' \ trials' : breaker'.openFor <= age'[d]
    BY <1>1, <1>3, <1>5, <2>1, <2>2 DEF TrialsTracked, Calling
  <2>6. QED
    BY <1>3, <2>1, <2>2, <2>4, <2>5 DEF TrialsTracked
<1>6. QED
  BY <1>4, <1>5

\* A half-open episode only starts when the window is over, so the calls that
\* outlived it would have to be older than an open window.
LEMMA OnlyTrialsOut ==
    ASSUME CallTimeout < OpenDuration, IInv, TrialsTracked,
           breaker.state = "HALF_OPEN"
    PROVE  Calling = trials
  BY BreakerAssumption, CallsAssumption
     DEF IInv, TypeOK, StatesAgree, TrialsTracked, Calling, Idle

\* A trial that succeeds gives back the slot it took.
LEMMA SucceedTrials ==
    ASSUME CallTimeout < OpenDuration, IInv, TrialsTracked,
           NEW c \in Calls, Succeed(c)
    PROVE  TrialsTracked'
<1>. DEFINE b == breaker
<1>1. /\ b \in BreakerType /\ breaker' = OnSuccess(b)
      /\ age' = [age EXCEPT ![c] = Idle] /\ age \in [Calls -> {Idle} \cup 0 .. CallTimeout]
      /\ c \in Calling
  BY DEF IInv, TypeOK, Succeed, Calling
<1>2. IsFiniteSet(trials) /\ Cardinality(trials) \in Nat
  BY TrialsFinite DEF IInv
<1>3. Calling' = Calling \ {c} /\ \A d \in Calling' : age'[d] = age[d]
  BY <1>1 DEF Calling, Idle
<1>4. CASE b.state = "HALF_OPEN"
  <2>1. c \in trials /\ Calling = trials
    BY <1>1, <1>4, OnlyTrialsOut
  <2>2. Cardinality(trials \ {c}) = Cardinality(trials) - 1 /\ Cardinality(trials) >= 1
    <3>1. Cardinality(trials \ {c}) = Cardinality(trials) - 1
      BY <1>2, <2>1, FS_RemoveElement
    <3>2. Cardinality(trials) # 0
      BY <1>2, <2>1, FS_EmptySet
    <3>3. QED
      BY <1>2, <3>1, <3>2
  <2>3. Cardinality(trials \ {c}) <= breaker'.inFlight
    <3>1. breaker'.inFlight = IF b.inFlight > 0 THEN b.inFlight - 1 ELSE 0
      BY <1>1, <1>4, OnSuccessFields
    <3>2. Cardinality(trials) <= b.inFlight /\ b.inFlight \in Nat
      BY <1>1, <1>4 DEF TrialsTracked, BreakerType
    <3>3. QED
      BY <1>2, <2>2, <3>1, <3>2
  <2>4. /\ Calling' = trials \ {c}
        /\ \/ breaker'.state = "HALF_OPEN" /\ trials' = trials \ {c}
           \/ breaker'.state = "CLOSED" /\ trials' = {}
    BY <1>1, <1>3, <1>4, <2>1, OnSuccessFields DEF Succeed, TrialsAfter
  <2>5. CASE breaker'.state = "HALF_OPEN" /\ trials' = trials \ {c}
    BY <2>3, <2>4, <2>5 DEF TrialsTracked
  <2>6. CASE breaker'.state = "CLOSED" /\ trials' = {}
    BY <2>6 DEF TrialsTracked
  <2>7. QED
    BY <2>4, <2>5, <2>6
<1>5. CASE b.state # "HALF_OPEN"
  <2>1. breaker'.state = b.state /\ breaker'.openFor = b.openFor
    BY <1>1, <1>5, OnSuccessFields
  <2>2. trials = {} /\ trials' = {}
    BY <1>5, <2>1 DEF TrialsTracked, Succeed, TrialsAfter
  <2>3. QED
    BY <1>3, <1>5, <2>1, <2>2 DEF TrialsTracked
<1>6. QED
  BY <1>4, <1>5

\* A failure ends the episode, or leaves a breaker that is not half-open alone.
LEMMA FailTrials ==
    ASSUME CallTimeout < OpenDuration, IInv, TrialsTracked,
           NEW c \in Calls, Fail(c)
    PROVE  TrialsTracked'
<1>. DEFINE b == breaker
<1>1. /\ b \in BreakerType /\ breaker' = OnFailure(b) /\ trials' = {}
      /\ age' = [age EXCEPT ![c] = Idle] /\ age \in [Calls -> {Idle} \cup 0 .. CallTimeout]
  BY DEF IInv, TypeOK, Fail
<1>2. Calling' = Calling \ {c} /\ \A d \in Calling' : age'[d] = age[d] /\ age[d] \in Nat
  BY <1>1, CallsAssumption DEF Calling, Idle
<1>3. breaker'.state # "HALF_OPEN"
  BY <1>1, OnFailureFields
<1>4. breaker'.state # "CLOSED" => \A d \in Calling' : breaker'.openFor <= age'[d]
  <2>1. CASE breaker'.openFor = 0
    BY <1>2, <2>1
  <2>2. CASE /\ b.state # "HALF_OPEN" /\ breaker'.state = b.state
             /\ breaker'.openFor = b.openFor
    BY <1>2, <2>2 DEF TrialsTracked
  <2>3. QED
    BY <1>1, <2>1, <2>2, OnFailureFields
<1>5. QED
  BY <1>1, <1>3, <1>4 DEF TrialsTracked

\* A trial that vanishes keeps its slot: fewer trials than slots.
LEMMA AbandonTrials ==
    ASSUME IInv, TrialsTracked, NEW c \in Calls, Abandon(c) PROVE TrialsTracked'
<1>1. /\ age' = [age EXCEPT ![c] = Idle] /\ age \in [Calls -> {Idle} \cup 0 .. CallTimeout]
      /\ trials' = trials \ {c} /\ breaker' = breaker
  BY DEF IInv, TypeOK, Abandon
<1>2. Calling' = Calling \ {c} /\ \A d \in Calling' : age'[d] = age[d]
  BY <1>1 DEF Calling, Idle
<1>3. breaker.state = "HALF_OPEN" => Cardinality(trials') <= breaker.inFlight
  <2>1. IsFiniteSet(trials) /\ Cardinality(trials) \in Nat /\ breaker.inFlight \in Nat
    BY TrialsFinite DEF IInv, TypeOK, BreakerType
  <2>2. Cardinality(trials') \in {Cardinality(trials), Cardinality(trials) - 1}
    BY <1>1, <2>1, FS_RemoveElement
  <2>3. QED
    BY <2>1, <2>2 DEF TrialsTracked
<1>4. QED
  BY <1>1, <1>2, <1>3 DEF TrialsTracked

\* An operator ends the episode.
LEMMA OperatorTrials ==
    ASSUME IInv, TrialsTracked, OperatorOpens \/ OperatorResets PROVE TrialsTracked'
<1>1. trials' = {} /\ age' = age /\ breaker'.state # "HALF_OPEN"
      /\ (breaker'.state # "CLOSED" => breaker'.openFor = 0)
  BY ForceOpenFields, ResetFields DEF OperatorOpens, OperatorResets, IInv, TypeOK
<1>2. \A d \in Calling : age[d] \in Nat
  BY CallsAssumption DEF Calling, IInv, TypeOK
<1>3. QED
  BY <1>1, <1>2 DEF TrialsTracked, Calling

\* Time ages windows and calls alike.
LEMMA TickTrials ==
    ASSUME IInv, TrialsTracked, Tick PROVE TrialsTracked'
<1>. DEFINE b == breaker
<1>1. b \in BreakerType /\ breaker' = Elapse(b) /\ trials' = trials
  BY DEF IInv, TypeOK, Tick
<1>2. /\ Calling' = Calling
      /\ \A d \in Calling : age[d] \in Nat /\ age'[d] = age[d] + 1
  BY CallsAssumption DEF IInv, TypeOK, Tick, Calling, Idle
<1>3. /\ breaker'.state = b.state /\ breaker'.inFlight = b.inFlight
      /\ breaker'.openFor \in Int /\ b.openFor \in Int
      /\ breaker'.openFor <= b.openFor + 1
  BY <1>1, ElapseFields, BreakerAssumption DEF BreakerType, NotOpened
<1>4. QED
  BY <1>1, <1>2, <1>3 DEF TrialsTracked

\* TrialsTracked is inductive relative to the invariant.
LEMMA NextTrials ==
    ASSUME CallTimeout < OpenDuration
    PROVE  IInv /\ TrialsTracked /\ [Next]_vars => TrialsTracked'
<1>1. ASSUME TrialsTracked, UNCHANGED vars PROVE TrialsTracked'
  BY <1>1 DEF vars, TrialsTracked, Calling
<1>2. QED
  BY <1>1, AdmitTrials, SucceedTrials, FailTrials, AbandonTrials, OperatorTrials,
     TickTrials DEF Next

\* breaker.py:12: half-open admits a strictly limited number of trial calls.  It
\* does when no call outlives an open window: a call admitted before the window
\* that reports a success during the trials frees a slot it never took.
THEOREM HalfOpenIsATrickle ==
    ASSUME CallTimeout < OpenDuration
    PROVE  Spec => []TrialsLimited
<1>1. IInv /\ TrialsTracked => TrialsLimited
  <2>1. SUFFICES ASSUME IInv, TrialsTracked PROVE Cardinality(trials) <= HalfOpenMaxCalls
    BY DEF TrialsLimited
  <2>2. breaker.inFlight \in 0 .. HalfOpenMaxCalls
    BY <2>1 DEF IInv, TypeOK, BreakerType
  <2>3. QED
    BY <2>1, <2>2, TrialsFinite, FS_EmptySet, BreakerAssumption DEF TrialsTracked, IInv
<1>2. QED
  BY <1>1, InitTrials, NextTrials, AlwaysIInv, PTL DEF Spec

-----------------------------------------------------------------------------
(***************************************************************************)
(* The breaker implements BreakerPromise: each of its steps is a step of   *)
(* the promise under the mapping of KeepsPromise.                          *)
(***************************************************************************)

\* The breaker starts as the promise does.
LEMMA InitPromise == Init => Promise!Init
  BY CallsAssumption DEF Init, Promise!Init, NewBreaker, Calling, Idle

\* Every step of the breaker is a step of the promise or a stutter.
LEMMA NextPromise == IInv /\ IInv' /\ [Next]_vars => [Promise!Next]_(Promise!pvars)
<1>. SUFFICES ASSUME IInv, IInv', [Next]_vars
              PROVE  [Promise!Next]_(Promise!pvars)
  OBVIOUS
<1>. USE BreakerAssumption DEF IInv
<1>1. ASSUME NEW c \in Calls, Admit(c) PROVE Promise!Start(c)
  BY <1>1, BeforeCallFields, CallsAssumption
     DEF Promise!Start, Admit, TypeOK, StatesAgree, Calling, Idle, BreakerType,
         BreakerStates, NotOpened
<1>2. ASSUME NEW c \in Calls, Succeed(c) PROVE Promise!EndWell(c)
  BY <1>2, OnSuccessFields
     DEF Promise!EndWell, Succeed, TypeOK, Calling, Idle, BreakerType,
         BreakerStates, NotOpened
<1>3. ASSUME NEW c \in Calls, Fail(c) PROVE Promise!EndBadly(c)
  BY <1>3, OnFailureFields
     DEF Promise!EndBadly, Fail, TypeOK, Calling, Idle, BreakerType,
         BreakerStates, NotOpened
<1>4. ASSUME NEW c \in Calls, Abandon(c) PROVE Promise!Vanish(c)
  BY <1>4 DEF Promise!Vanish, Abandon, TypeOK, Calling, Idle
<1>5. ASSUME OperatorOpens \/ OperatorResets PROVE Promise!Operate
  BY <1>5, ForceOpenFields, ResetFields
     DEF Promise!Operate, OperatorOpens, OperatorResets, TypeOK, Calling, NotOpened
<1>6. ASSUME Tick PROVE Promise!Wait
  BY <1>6, ElapseFields, CallsAssumption
     DEF Promise!Wait, Tick, TypeOK, StatesAgree, Calling, Idle, BreakerType,
         BreakerStates, NotOpened
<1>7. ASSUME UNCHANGED vars PROVE UNCHANGED Promise!pvars
  BY <1>7 DEF vars, Promise!pvars, Calling
<1>8. QED
  BY <1>1, <1>2, <1>3, <1>4, <1>5, <1>6, <1>7 DEF Next, Promise!Next

\* Whatever the counters do, the callers get the behaviour BreakerPromise states.
THEOREM Implements == Spec => KeepsPromise
  BY InitPromise, NextPromise, AlwaysIInv, PTL DEF Spec, KeepsPromise, Promise!Spec
=============================================================================
