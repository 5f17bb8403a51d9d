----------------------------- MODULE LLMService -----------------------------
(***************************************************************************)
(* LLMService.generate: the response cache, the fallback chain of a tier,  *)
(* the downgrade to a lower tier, one breaker per endpoint, and the        *)
(* degradations that every demoted answer carries                          *)
(* (src/src/forge/infrastructure/llm/service.py), together with what       *)
(* narrate() in the verdict graph makes of the answer.                     *)
(*                                                                         *)
(* The code is asyncio: a request runs without interruption from one await *)
(* that really suspends to the next.  Only the HTTP call of a network      *)
(* endpoint does - the breakers' locks are never held across an await, and *)
(* the fake adapter awaits nothing - so a step of a request takes it from  *)
(* its start, or from the end of a call, through every refusing breaker to *)
(* the next call, or to the answer.                                        *)
(***************************************************************************)
EXTENDS Breaker, Sequences, FiniteSets

CONSTANTS
    Endpoints,      \* the configured (provider, model) pairs
    FakeEndpoints,  \* those whose provider is of kind "fake"
    ProviderOf,     \* ProviderOf[e]: the name of the provider of e
    Chain,          \* Chain[t]: the fallback chain of tier t
    Requests,       \* the requests that may be running at the same time
    Asks,           \* what may be asked: [tier, pack, prompt, image]
    CacheTTL        \* ttl_seconds of the cache, in ticks

Tiers == DOMAIN Chain

ASSUME LLMAssumption ==
    /\ FakeEndpoints \subseteq Endpoints
    /\ Chain \in [Tiers -> Seq(Endpoints)]
    /\ \A a \in Asks : a.tier \in Tiers
    /\ CacheTTL \in Nat

VARIABLES
    breakers,   \* breakers[BreakerKey(e)]: the registry's breaker of e
    cache,      \* cache[k]: the entry stored under key k, or NoEntry
    run,        \* run[r]: where request r is
    answer,     \* what the last step handed to a caller, or NoAnswer
    faulty      \* the endpoints a call of which has ever failed

vars == <<breakers, cache, run, answer, faulty>>

NoEntry  == [stored |-> FALSE]
NoAnswer == [outcome |-> "none"]
NotRunning == [pc |-> "idle"]

-----------------------------------------------------------------------------
(* The route of a request: the chain of its tier, then the chain of the    *)
(* tier below.                                                             *)

Kinds == {"llm_tier_downgrade", "circuit_open", "cache_served",
          "budget_exceeded", "rule_engine_fallback"}

\* Mutant of HasLower: an exhausted tier is the end of the route.
HasNoLower(t) == FALSE

\* _DOWNGRADE: only the reasoning tier has a lower one.
HasLower(t) == t = "reasoning" /\ "fast" \in Tiers

Stops(t) ==
    1 .. Len(Chain[t]) + (IF HasLower(t) THEN Len(Chain["fast"]) ELSE 0)

InOwnChain(t, i) == i <= Len(Chain[t])

Position(t, i) == IF InOwnChain(t, i) THEN i ELSE i - Len(Chain[t])

EndpointAt(t, i) ==
    IF InOwnChain(t, i) THEN Chain[t][i] ELSE Chain["fast"][Position(t, i)]

\* Mutant of BreakerKey: one breaker per provider, whatever the model.
BreakerKeyByProvider(e) ==
    CHOOSE f \in Endpoints : ProviderOf[f] = ProviderOf[e]

\* One breaker per (provider, model) pair.
BreakerKey(e) == e

Allows(bs, t, i) == Admits(bs[BreakerKey(EndpointAt(t, i))])

\* The first stop from i on whose breaker admits the call, if there is one.
Candidates(bs, t, i) == {j \in Stops(t) : j >= i /\ Allows(bs, t, j)}

FirstOf(js) == CHOOSE j \in js : \A k \in js : j <= k

\* Mutant of Refusals: a refusal is forgotten.
RefusalsUnrecorded(bs, t, i) == {}

\* The walk passed a refusing breaker on its way from stop i.
Refusals(bs, t, i) ==
    LET js   == Candidates(bs, t, i)
        past == IF js = {} THEN {k \in Stops(t) : k >= i}
                           ELSE {k \in Stops(t) : k >= i /\ k < FirstOf(js)}
    IN  IF past = {} THEN {} ELSE {"circuit_open"}

\* Mutant of Demotions: only the position in a chain counts.
DemotionsByPosition(t, i, truncated) ==
    (IF truncated THEN {"budget_exceeded"} ELSE {})
    \cup (IF Position(t, i) > 1 THEN {"llm_tier_downgrade"} ELSE {})
    \cup (IF EndpointAt(t, i) \in FakeEndpoints THEN {"rule_engine_fallback"}
                                                ELSE {})

\* What an answer from stop i of the route of tier t is marked with.
Demotions(t, i, truncated) ==
    (IF truncated THEN {"budget_exceeded"} ELSE {})
    \cup (IF ~InOwnChain(t, i) \/ Position(t, i) > 1
          THEN {"llm_tier_downgrade"} ELSE {})
    \cup (IF EndpointAt(t, i) \in FakeEndpoints
          THEN {"rule_engine_fallback"} ELSE {})

-----------------------------------------------------------------------------
(* The cache.                                                              *)

\* Mutant of CacheKey: the tier is not part of the key.
CacheKeyByPrompt(a) == [pack |-> a.pack, prompt |-> a.prompt]

\* key(): the tier, the pack and the text of the messages - not their images.
CacheKey(a) == [tier |-> a.tier, pack |-> a.pack, prompt |-> a.prompt]

CacheKeys == {CacheKey(a) : a \in Asks}

Completion(a, i, calls, degradations, truncated) ==
    [outcome      |-> "completion",
     ask          |-> a,            \* what the text was written for
     to           |-> a,            \* what it is handed out as an answer to
     stop         |-> i,            \* which endpoint wrote the text
     calls        |-> calls,        \* how many endpoints were called for it
     degradations |-> degradations,
     fromCache    |-> FALSE,
     truncated    |-> truncated]

\* get(): the stored answer, marked, if there is one within its TTL.
Lookup(a) ==
    LET entry == cache[CacheKey(a)]
    IN  IF entry.stored
        THEN {[entry.completion EXCEPT !.to = a, !.fromCache = TRUE,
                                       !.degradations = @ \cup {"cache_served"}]}
        ELSE {}

\* put()
Store(a, completion) ==
    cache' = [cache EXCEPT ![CacheKey(a)] =
                [stored |-> TRUE, completion |-> completion, age |-> 0]]

-----------------------------------------------------------------------------
Init ==
    /\ breakers = [e \in Endpoints |-> NewBreaker]
    /\ cache = [k \in CacheKeys |-> NoEntry]
    /\ run = [r \in Requests |-> NotRunning]
    /\ answer = NoAnswer
    /\ faulty = {}

Finish(r, result) ==
    /\ run' = [run EXCEPT ![r] = NotRunning]
    /\ answer' = result

\* Request r, asking a, walks on from stop i with the breakers bs, the calls
\* made and the degradations collected so far: to a call of a network endpoint,
\* to the fake adapter's immediate answer, or to the end of the route, where
\* generate() raises.
Walk(r, a, i, bs, calls, degradations) ==
    LET t    == a.tier
        js   == Candidates(bs, t, i)
        j    == FirstOf(js)
        e    == EndpointAt(t, j)
        k    == BreakerKey(e)
        ds   == degradations \cup Refusals(bs, t, i)
        done == Completion(a, j, calls + 1, ds \cup Demotions(t, j, FALSE), FALSE)
    IN  \/ /\ js # {} /\ e \notin FakeEndpoints
           /\ breakers' = [bs EXCEPT ![k] = BeforeCall(@)]
           /\ run' = [run EXCEPT ![r] = [pc |-> "calling", ask |-> a, stop |-> j,
                                         calls |-> calls + 1,
                                         degradations |-> ds]]
           /\ answer' = NoAnswer
           /\ UNCHANGED cache
        \/ /\ js # {} /\ e \in FakeEndpoints
           /\ breakers' = [bs EXCEPT ![k] = OnSuccess(BeforeCall(@))]
           /\ Store(a, done)
           /\ Finish(r, done)
        \/ /\ js = {}
           /\ breakers' = bs
           /\ Finish(r, [outcome |-> "unavailable", ask |-> a])
           /\ UNCHANGED cache

\* generate(request) is called.
Ask(r, a) ==
    /\ run[r].pc = "idle"
    /\ IF Lookup(a) # {}
       THEN /\ \E hit \in Lookup(a) : Finish(r, hit)
            /\ UNCHANGED <<breakers, cache>>
       ELSE Walk(r, a, 1, breakers, 0, {})
    /\ UNCHANGED faulty

CallKey(r) == BreakerKey(EndpointAt(run[r].ask.tier, run[r].stop))

\* The endpoint answers, in full or cut off at the token budget.
Answered(r, truncated) ==
    LET a    == run[r].ask
        done == Completion(a, run[r].stop, run[r].calls,
                           run[r].degradations
                             \cup Demotions(a.tier, run[r].stop, truncated),
                           truncated)
    IN  /\ run[r].pc = "calling"
        /\ breakers' = [breakers EXCEPT ![CallKey(r)] = OnSuccess(@)]
        /\ Store(a, done)
        /\ Finish(r, done)
        /\ UNCHANGED faulty

\* Mutant of ProviderFails: the walk starts again at the head of the chain.
ProviderFailsRestarts(r) ==
    /\ run[r].pc = "calling"
    /\ Walk(r, run[r].ask, 1,
            [breakers EXCEPT ![CallKey(r)] = OnFailure(@)],
            0, run[r].degradations)
    /\ faulty' = faulty \cup {EndpointAt(run[r].ask.tier, run[r].stop)}

\* The adapter raises an LLMError: the breaker counts it, the walk goes on.
ProviderFails(r) ==
    /\ run[r].pc = "calling"
    /\ Walk(r, run[r].ask, run[r].stop + 1,
            [breakers EXCEPT ![CallKey(r)] = OnFailure(@)],
            run[r].calls, run[r].degradations)
    /\ faulty' = faulty \cup {EndpointAt(run[r].ask.tier, run[r].stop)}

\* The call ends with an exception the chain does not handle: narrate()'s
\* wait_for cancels it, or the adapter raises something else than an LLMError.
\* The breaker is told nothing.
Cancelled(r) ==
    /\ run[r].pc = "calling"
    /\ Finish(r, [outcome |-> "cancelled", ask |-> run[r].ask])
    /\ UNCHANGED <<breakers, cache, faulty>>

\* Time passes for the open windows and the cache entries.  An entry past its
\* TTL, which get() drops when it next comes upon it, is dropped here.
Tick ==
    /\ breakers' = [e \in Endpoints |-> Elapse(breakers[e])]
    /\ cache' = [k \in CacheKeys |->
                   IF ~cache[k].stored \/ cache[k].age = CacheTTL
                   THEN NoEntry
                   ELSE [cache[k] EXCEPT !.age = @ + 1]]
    /\ answer' = NoAnswer
    /\ UNCHANGED <<run, faulty>>

Next ==
    \/ \E r \in Requests :
         \/ \E a \in Asks : Ask(r, a)
         \/ \E truncated \in BOOLEAN : Answered(r, truncated)
         \/ ProviderFails(r)
         \/ Cancelled(r)
    \/ Tick

Spec == Init /\ [][Next]_vars

\* Every HTTP call ends: the client carries a timeout.
Fairness ==
    \A r \in Requests :
        WF_vars((\E truncated \in BOOLEAN : Answered(r, truncated))
                \/ ProviderFails(r) \/ Cancelled(r))

FairSpec == Spec /\ Fairness

-----------------------------------------------------------------------------
(* What the service promises.                                              *)

EndpointOf(c) == EndpointAt(c.ask.tier, c.stop)

CompletionType ==
    [outcome : {"completion"}, ask : Asks, to : Asks, stop : Nat, calls : Nat,
     degradations : SUBSET Kinds, fromCache : BOOLEAN, truncated : BOOLEAN]

\* The texts that callers hold or that the cache may hand out.
Texts ==
    {c \in {answer} : c.outcome = "completion"}
    \cup {cache[k].completion : k \in {l \in CacheKeys : cache[l].stored}}

\* Every breaker stays within its bounds, and so do requests and texts.
TypeOK ==
    /\ breakers \in [Endpoints -> BreakerType]
    /\ \A k \in CacheKeys :
         \/ cache[k] = NoEntry
         \/ /\ cache[k].completion \in CompletionType
            /\ cache[k].age \in 0 .. CacheTTL
    /\ \A r \in Requests : run[r].pc = "calling" =>
         /\ run[r].stop \in Stops(run[r].ask.tier)
         /\ run[r].degradations \subseteq Kinds
    /\ answer.outcome = "completion" => answer \in CompletionType
    /\ faulty \subseteq Endpoints \ FakeEndpoints

\* Sharing an answer never crosses a tier, a pack or a prompt.
AnswersThePrompt ==
    answer.outcome = "completion" =>
        /\ answer.to.tier = answer.ask.tier
        /\ answer.to.pack = answer.ask.pack
        /\ answer.to.prompt = answer.ask.prompt

\* ... nor an image: an analysis of a picture is handed out as the answer to a
\* request about that picture.  The key leaves images out, so the cache breaks it.
AnswersItsOwnImage ==
    answer.outcome = "completion" => answer.to.image = answer.ask.image

\* A demoted text never passes as the nominal one, straight from the chain or
\* out of the cache: a text that carries no degradation was written, in full and
\* just now, by the head of the chain of the tier that was asked; a text says that
\* a circuit was open exactly when fewer endpoints were called for it than its stop
\* lies down the route; and it says that no model was involved exactly when the
\* fake adapter wrote it, by which the callers tell LLM from RULE.
NothingPassesAsNominal ==
    \A c \in Texts :
        /\ c.degradations = {} =>
             c.stop = 1 /\ c.calls = 1 /\ ~c.fromCache /\ ~c.truncated
        /\ "circuit_open" \in c.degradations <=> c.calls < c.stop
        /\ "rule_engine_fallback" \in c.degradations
             <=> EndpointOf(c) \in FakeEndpoints

\* An endpoint answers only for itself: as long as no call of it has failed its
\* breaker is as new, and nobody was ever demoted past it, however its siblings of
\* the same provider fare in this and in other tiers.
EndpointsAnswerForThemselves ==
    \A e \in Endpoints \ faulty :
        /\ breakers[e] = NewBreaker
        /\ \A c \in Texts :
             \A i \in 1 .. c.stop - 1 : EndpointAt(c.ask.tier, i) # e

\* generate() gives up only when everything on the route has failed before, and
\* never when the route, the lower tier included, holds the fake adapter: broken
\* models, and breakers wedged by cancelled calls, cost quality, not availability.
GivesUpOnlyWhenExhausted ==
    answer.outcome = "unavailable" =>
        \A t \in {answer.ask.tier} \cup (IF answer.ask.tier = "reasoning"
                                         THEN {"fast"} \cap Tiers ELSE {}) :
            \A i \in DOMAIN Chain[t] : Chain[t][i] \in faulty

\* Every request ends: however the endpoints fail, the walk never goes round.
EveryRequestEnds ==
    \A r \in Requests : run[r].pc = "calling" ~> run[r].pc = "idle"
=============================================================================
