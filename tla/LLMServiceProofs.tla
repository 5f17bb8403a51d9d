--------------------------- MODULE LLMServiceProofs ---------------------------
(***************************************************************************)
(* Proofs about LLMService and Replies, for any endpoints, chains, asks,   *)
(* number of requests, thresholds and TTL.                                 *)
(***************************************************************************)
EXTENDS Replies, WellFoundedInduction, TLAPS

(***************************************************************************)
(* The route of a tier.                                                    *)
(***************************************************************************)

\* A set of numbers that is not empty has a least one.
LEMMA LeastNumber ==
    ASSUME NEW js, js \subseteq Nat, js # {}
    PROVE  FirstOf(js) \in js /\ \A k \in js : FirstOf(js) <= k
<1>1. \E x \in js : \A y \in js : ~(<<y, x>> \in OpToRel(<, Nat))
  BY NatLessThanWellFounded, WFMin
<1>2. PICK x \in js : \A y \in js : ~(<<y, x>> \in OpToRel(<, Nat))
  BY <1>1
<1>3. \A y \in js : ~(y < x)
  BY <1>2 DEF OpToRel
<1>4. \A y \in js : x <= y
  BY <1>3
<1>. QED
  BY <1>4 DEF FirstOf

\* Every stop of a route is an endpoint.
LEMMA RouteType ==
    ASSUME NEW t \in Tiers
    PROVE  /\ Stops(t) \subseteq Nat \ {0}
           /\ \A i \in Stops(t) : EndpointAt(t, i) \in Endpoints
           /\ \A i \in Stops(t) : \A k \in 1 .. i : k \in Stops(t)
<1>1. Chain[t] \in Seq(Endpoints) /\ ("fast" \in Tiers => Chain["fast"] \in Seq(Endpoints))
  BY LLMAssumption DEF Tiers
<1>. DEFINE own == Len(Chain[t])
            lower == IF HasLower(t) THEN Len(Chain["fast"]) ELSE 0
<1>2. own \in Nat /\ lower \in Nat /\ Stops(t) = 1 .. own + lower
  BY <1>1 DEF HasLower, Stops
<1>. HIDE DEF own, lower
<1>3. ASSUME NEW i \in Stops(t) PROVE EndpointAt(t, i) \in Endpoints
  <2>1. CASE i <= own
    BY <1>1, <1>2, <1>3, <2>1 DEF EndpointAt, InOwnChain, own
  <2>2. CASE ~(i <= own)
    <3>1. HasLower(t) /\ i - own \in 1 .. Len(Chain["fast"])
      <4>1. i \in Nat /\ i - own \in 1 .. lower
        BY <1>2, <1>3, <2>2
      <4>. QED
        BY <4>1 DEF lower
    <3>2. Chain["fast"] \in Seq(Endpoints)
      BY <1>1, <3>1 DEF HasLower
    <3>. QED
      BY <2>2, <3>1, <3>2 DEF EndpointAt, InOwnChain, Position, own
  <2>. QED
    BY <2>1, <2>2
<1>4. Stops(t) \subseteq Nat \ {0} /\ \A i \in Stops(t) : \A k \in 1 .. i : k \in Stops(t)
  BY <1>2
<1>. QED
  BY <1>3, <1>4

\* The walk goes to the first stop whose breaker admits it.
LEMMA FirstAdmitted ==
    ASSUME NEW bs, NEW t \in Tiers, NEW i \in Nat \ {0}, Candidates(bs, t, i) # {}
    PROVE  LET j == FirstOf(Candidates(bs, t, i))
           IN  /\ j \in Stops(t) /\ j \in Nat /\ j >= i
               /\ Allows(bs, t, j)
               /\ \A k \in Stops(t) : k >= i /\ k < j => ~Allows(bs, t, k)
<1>. DEFINE js == Candidates(bs, t, i)
            j == FirstOf(js)
<1>1. js \subseteq Nat /\ Stops(t) \subseteq Nat
  BY RouteType DEF Candidates
<1>. HIDE DEF js
<1>2. j \in js /\ \A k \in js : j <= k
  BY <1>1, LeastNumber DEF js
<1>. HIDE DEF j
<1>3. \A k \in Stops(t) : k >= i /\ k < j => k \notin js
  BY <1>1, <1>2
<1>. QED
  BY <1>1, <1>2, <1>3 DEF j, js, Candidates

(***************************************************************************)
(* The inductive invariant.  An endpoint no call of which has failed has a *)
(* new breaker, so whoever walked past an endpoint finds it faulty; what   *)
(* a request and a text remember of the walk adds up to the stop they are  *)
(* at.  The parts are stated for any set of faulty endpoints, because the  *)
(* set grows in the step that uses them.                                   *)
(***************************************************************************)
GoodBreakers(bs, faults) ==
    /\ DOMAIN bs = Endpoints
    /\ \A e \in Endpoints \ faults : bs[e] = NewBreaker

GoodFaults(faults) == faults \subseteq Endpoints \ FakeEndpoints

\* Everything on the route of tier t before stop i is faulty.
Passed(t, i, faults) ==
    \A k \in Stops(t) : k < i => EndpointAt(t, k) \in faults

GoodRun(q, faults) ==
    /\ q.pc \in {"idle", "calling"}
    /\ q.pc = "calling" =>
         /\ q.ask \in Asks
         /\ q.stop \in Stops(q.ask.tier)
         /\ q.calls \in 1 .. q.stop
         /\ q.degradations \subseteq {"circuit_open"}
         /\ "circuit_open" \in q.degradations <=> q.calls < q.stop
         /\ EndpointAt(q.ask.tier, q.stop) \notin FakeEndpoints
         /\ Passed(q.ask.tier, q.stop, faults)

GoodText(c, faults) ==
    /\ c \in CompletionType
    /\ c.stop \in Stops(c.ask.tier)
    /\ c.calls \in 1 .. c.stop
    /\ "circuit_open" \in c.degradations <=> c.calls < c.stop
    /\ "rule_engine_fallback" \in c.degradations <=> EndpointOf(c) \in FakeEndpoints
    /\ c.degradations = {} => c.stop = 1 /\ ~c.fromCache /\ ~c.truncated
    /\ c.stop # 1 \/ c.fromCache \/ c.truncated => c.degradations # {}
    /\ CacheKey(c.to) = CacheKey(c.ask)
    /\ Passed(c.ask.tier, c.stop, faults)

IsEntry(entry) == entry.stored = TRUE /\ {"stored", "completion"} \subseteq DOMAIN entry

GoodCache(entries, faults) ==
    /\ DOMAIN entries = CacheKeys
    /\ \A k \in CacheKeys :
         /\ \/ entries[k] = NoEntry
            \/ IsEntry(entries[k])
         /\ entries[k].stored => /\ GoodText(entries[k].completion, faults)
                                 /\ CacheKey(entries[k].completion.ask) = k

GoodAnswer(result, faults) ==
    /\ result.outcome \in {"none", "completion", "unavailable", "cancelled"}
    /\ result.outcome = "completion" => GoodText(result, faults)
    /\ result.outcome = "unavailable" =>
         /\ result.ask \in Asks
         /\ \A k \in Stops(result.ask.tier) :
              EndpointAt(result.ask.tier, k) \in faults
    /\ result.outcome = "cancelled" => result.ask \in Asks

SInv ==
    /\ GoodBreakers(breakers, faulty)
    /\ GoodFaults(faulty)
    /\ DOMAIN run = Requests /\ \A r \in Requests : GoodRun(run[r], faulty)
    /\ GoodCache(cache, faulty)
    /\ GoodAnswer(answer, faulty)

\* Nothing that is good turns bad when another endpoint fails.
LEMMA FaultsOnlyGrow ==
    ASSUME NEW F, NEW G, F \subseteq G
    PROVE  /\ \A q : GoodRun(q, F) => GoodRun(q, G)
           /\ \A c : GoodText(c, F) => GoodText(c, G)
           /\ \A entries : GoodCache(entries, F) => GoodCache(entries, G)
<1>1. \A t, i : Passed(t, i, F) => Passed(t, i, G)
  BY DEF Passed
<1>2. \A q : GoodRun(q, F) => GoodRun(q, G)
  BY <1>1 DEF GoodRun
<1>3. \A c : GoodText(c, F) => GoodText(c, G)
  BY <1>1 DEF GoodText
<1>. QED
  BY <1>2, <1>3 DEF GoodCache

(***************************************************************************)
(* What the breakers' methods leave of a new breaker.                      *)
(***************************************************************************)
LEMMA NewBreakerStays ==
    /\ Admits(NewBreaker)
    /\ BeforeCall(NewBreaker) = NewBreaker
    /\ OnSuccess(NewBreaker) = NewBreaker
    /\ Elapse(NewBreaker) = NewBreaker
<1>1. ReportedState(NewBreaker) = "CLOSED"
  BY DEF ReportedState, NewBreaker
<1>2. OnSuccess(NewBreaker) = NewBreaker
  BY DEF OnSuccess, NewBreaker
<1>3. Elapse(NewBreaker) = NewBreaker
  <2>1. NewBreaker.openFor = -1
    BY DEF NewBreaker, NotOpened
  <2>2. ~(NewBreaker.openFor \in 0 .. OpenDuration - 1)
    BY <2>1, BreakerAssumption
  <2>. QED
    BY <2>2 DEF Elapse
<1>. QED
  BY <1>1, <1>2, <1>3 DEF Admits, BeforeCall

(***************************************************************************)
(* A text that is written now.                                             *)
(***************************************************************************)
LEMMA FreshText ==
    ASSUME NEW a \in Asks, NEW j \in Stops(a.tier), NEW n \in 1 .. j,
           NEW ds, ds \subseteq {"circuit_open"}, "circuit_open" \in ds <=> n < j,
           NEW truncated \in BOOLEAN, NEW F, Passed(a.tier, j, F),
           NEW done,
           done = Completion(a, j, n, ds \cup Demotions(a.tier, j, truncated), truncated)
    PROVE  GoodText(done, F)
<1>. DEFINE dem == Demotions(a.tier, j, truncated)
            all == ds \cup dem
<1>. HIDE DEF all
<1>0. done = Completion(a, j, n, all, truncated)
  BY DEF all
<1>. USE DEF all
<1>1. a.tier \in Tiers /\ j \in Nat \ {0}
  BY LLMAssumption, RouteType
<1>2. /\ dem \subseteq {"budget_exceeded", "llm_tier_downgrade", "rule_engine_fallback"}
      /\ "rule_engine_fallback" \in dem <=> EndpointAt(a.tier, j) \in FakeEndpoints
      /\ truncated => "budget_exceeded" \in dem
      /\ ~InOwnChain(a.tier, j) \/ Position(a.tier, j) > 1 => "llm_tier_downgrade" \in dem
  BY DEF Demotions
<1>3. j # 1 => ~InOwnChain(a.tier, j) \/ Position(a.tier, j) > 1
  BY <1>1 DEF Position
<1>. HIDE DEF dem
<1>4. all \subseteq Kinds
  BY <1>2 DEF Kinds
<1>5. /\ "circuit_open" \in all <=> n < j
      /\ "rule_engine_fallback" \in all <=> EndpointAt(a.tier, j) \in FakeEndpoints
      /\ truncated \/ j # 1 => all # {}
  BY <1>2, <1>3
<1>. HIDE DEF all
<1>6. /\ done \in CompletionType
      /\ done.ask = a /\ done.to = a /\ done.stop = j /\ done.calls = n
      /\ done.degradations = all /\ done.fromCache = FALSE
      /\ done.truncated = truncated /\ done.outcome = "completion"
  BY <1>0, <1>1, <1>4 DEF Completion, CompletionType
<1>. QED
  BY <1>5, <1>6 DEF GoodText, EndpointOf

(***************************************************************************)
(* The walk down the route.                                                *)
(***************************************************************************)

\* A breaker that refuses has counted a failure.
LEMMA RefusalsAreFaulty ==
    ASSUME NEW bs, NEW F, GoodBreakers(bs, F), NEW t \in Tiers, NEW k \in Stops(t),
           ~Allows(bs, t, k)
    PROVE  EndpointAt(t, k) \in F
BY RouteType, NewBreakerStays DEF GoodBreakers, Allows, BreakerKey

\* Calls that go well, or that only begin, leave new breakers new.
LEMMA CallsKeepBreakers ==
    ASSUME NEW bs, NEW F, GoodBreakers(bs, F), NEW e \in Endpoints
    PROVE  /\ GoodBreakers([bs EXCEPT ![e] = BeforeCall(@)], F)
           /\ GoodBreakers([bs EXCEPT ![e] = OnSuccess(@)], F)
           /\ GoodBreakers([bs EXCEPT ![e] = OnSuccess(BeforeCall(@))], F)
           /\ GoodBreakers([bs EXCEPT ![e] = OnFailure(@)], F \cup {e})
BY NewBreakerStays DEF GoodBreakers

\* From stop i on, the walk has passed only faulty endpoints and counts its calls.
LEMMA WalkGoesOn ==
    ASSUME NEW bs, NEW F, GoodBreakers(bs, F), NEW t \in Tiers, NEW i \in Nat \ {0},
           Passed(t, i, F), NEW n \in 0 .. i - 1,
           NEW ds, ds \subseteq {"circuit_open"}, "circuit_open" \in ds <=> n < i - 1,
           Candidates(bs, t, i) # {}
    PROVE  LET j   == FirstOf(Candidates(bs, t, i))
               all == ds \cup Refusals(bs, t, i)
           IN  /\ j \in Stops(t) /\ n + 1 \in 1 .. j /\ Passed(t, j, F)
               /\ all \subseteq {"circuit_open"}
               /\ "circuit_open" \in all <=> n + 1 < j
<1>. DEFINE j    == FirstOf(Candidates(bs, t, i))
            past == {k \in Stops(t) : k >= i /\ k < j}
            all  == ds \cup Refusals(bs, t, i)
<1>1. /\ j \in Stops(t) /\ j \in Nat /\ j >= i
      /\ \A k \in Stops(t) : k >= i /\ k < j => ~Allows(bs, t, k)
  BY FirstAdmitted
<1>2. Refusals(bs, t, i) = IF past = {} THEN {} ELSE {"circuit_open"}
  BY DEF Refusals
<1>. HIDE DEF j
<1>3. Passed(t, j, F)
  <2>1. ASSUME NEW k \in Stops(t), k < j PROVE EndpointAt(t, k) \in F
    <3>1. CASE k < i
      BY <3>1 DEF Passed
    <3>2. CASE ~(k < i)
      <4>1. k \in Nat
        BY RouteType
      <4>2. ~Allows(bs, t, k)
        BY <1>1, <2>1, <3>2, <4>1
      <4>. QED
        BY <4>2, RefusalsAreFaulty
    <3>. QED
      BY <3>1, <3>2
  <2>. QED
    BY <2>1 DEF Passed
<1>4. past = {} <=> i = j
  <2>1. i < j => i \in past
    BY <1>1, RouteType
  <2>2. i = j => past = {}
    BY <1>1, RouteType
  <2>. QED
    BY <1>1, <2>1, <2>2
<1>5. n + 1 \in 1 .. j
  BY <1>1
<1>6. all \subseteq {"circuit_open"} /\ ("circuit_open" \in all <=> n + 1 < j)
  <2>1. all \subseteq {"circuit_open"}
    BY <1>2
  <2>2. "circuit_open" \in all <=> ("circuit_open" \in ds \/ i # j)
    BY <1>2, <1>4
  <2>3. n + 1 < j <=> (n < i - 1 \/ i # j)
    BY <1>1
  <2>. QED
    BY <2>1, <2>2, <2>3
<1>. QED
  BY <1>1, <1>3, <1>5, <1>6 DEF j

\* Where no breaker admits the call, everything on the route is faulty.
LEMMA WalkGivesUp ==
    ASSUME NEW bs, NEW F, GoodBreakers(bs, F), NEW t \in Tiers, NEW i \in Nat \ {0},
           Passed(t, i, F), Candidates(bs, t, i) = {}
    PROVE  \A k \in Stops(t) : EndpointAt(t, k) \in F
<1>. SUFFICES ASSUME NEW k \in Stops(t) PROVE EndpointAt(t, k) \in F
  OBVIOUS
<1>1. CASE k < i
  BY <1>1 DEF Passed
<1>2. CASE ~(k < i)
  <2>1. k >= i
    BY <1>2, RouteType
  <2>2. ~Allows(bs, t, k)
    BY <2>1 DEF Candidates
  <2>. QED
    BY <2>2, RefusalsAreFaulty
<1>. QED
  BY <1>1, <1>2

(***************************************************************************)
(* The steps.                                                              *)
(***************************************************************************)

\* What a request writes to the cache and hands out is good if the text is.
LEMMA StoreKeepsCache ==
    ASSUME NEW a \in Asks, NEW done, NEW F, GoodText(done, F), done.ask = a,
           GoodCache(cache, F), Store(a, done)
    PROVE  GoodCache(cache', F)
<1>1. CacheKey(a) \in CacheKeys
  BY DEF CacheKeys
<1>2. cache' = [cache EXCEPT ![CacheKey(a)]
                  = [stored |-> TRUE, completion |-> done, age |-> 0]]
  BY DEF Store
<1>3. DOMAIN cache' = CacheKeys
  BY <1>2 DEF GoodCache
<1>4. ASSUME NEW k \in CacheKeys
      PROVE  /\ \/ cache'[k] = NoEntry
                \/ IsEntry(cache'[k])
             /\ cache'[k].stored => /\ GoodText(cache'[k].completion, F)
                                    /\ CacheKey(cache'[k].completion.ask) = k
  <2>1. CASE k = CacheKey(a)
    <3>1. cache'[k] = [stored |-> TRUE, completion |-> done, age |-> 0]
      BY <1>1, <1>2, <2>1 DEF GoodCache
    <3>2. IsEntry(cache'[k])
      BY <3>1 DEF IsEntry
    <3>. QED
      BY <2>1, <3>1, <3>2
  <2>2. CASE k # CacheKey(a)
    <3>1. cache'[k] = cache[k]
      BY <1>2, <2>2 DEF GoodCache
    <3>. QED
      BY <3>1 DEF GoodCache
  <2>. QED
    BY <2>1, <2>2
<1>. QED
  BY <1>3, <1>4 DEF GoodCache

\* A request that ends leaves good requests and a good answer.
LEMMA FinishKeepsRuns ==
    ASSUME NEW r \in Requests, NEW result, NEW F, GoodAnswer(result, F),
           DOMAIN run = Requests, \A q \in Requests : GoodRun(run[q], F),
           Finish(r, result)
    PROVE  /\ DOMAIN run' = Requests /\ \A q \in Requests : GoodRun(run'[q], F)
           /\ GoodAnswer(answer', F)
<1>1. run' = [run EXCEPT ![r] = NotRunning] /\ answer' = result
  BY DEF Finish
<1>2. GoodRun(NotRunning, F)
  BY DEF GoodRun, NotRunning
<1>3. \A q \in Requests : run'[q] = run[q] \/ run'[q] = NotRunning
  BY <1>1
<1>. QED
  BY <1>1, <1>2, <1>3

LEMMA WalkKeepsSInv ==
    ASSUME NEW r \in Requests, NEW a \in Asks, NEW i \in Nat \ {0}, NEW bs,
           NEW n \in 0 .. i - 1, NEW ds, ds \subseteq {"circuit_open"},
           "circuit_open" \in ds <=> n < i - 1,
           NEW F, faulty' = F, GoodFaults(F), GoodBreakers(bs, F), Passed(a.tier, i, F),
           DOMAIN run = Requests, \A q \in Requests : GoodRun(run[q], F),
           GoodCache(cache, F),
           Walk(r, a, i, bs, n, ds)
    PROVE  SInv'
<1>. DEFINE t    == a.tier
            js   == Candidates(bs, t, i)
            j    == FirstOf(js)
            e    == EndpointAt(t, j)
            all  == ds \cup Refusals(bs, t, i)
            done == Completion(a, j, n + 1, all \cup Demotions(t, j, FALSE), FALSE)
<1>1. t \in Tiers
  BY LLMAssumption
<1>2. SUFFICES /\ GoodBreakers(breakers', F)
               /\ DOMAIN run' = Requests /\ \A q \in Requests : GoodRun(run'[q], F)
               /\ GoodCache(cache', F)
               /\ GoodAnswer(answer', F)
  BY DEF SInv
<1>3. CASE js = {}
  <2>1. /\ breakers' = bs /\ cache' = cache
        /\ Finish(r, [outcome |-> "unavailable", ask |-> a])
    BY <1>3 DEF Walk
  <2>2. \A k \in Stops(t) : EndpointAt(t, k) \in F
    BY <1>1, <1>3, WalkGivesUp
  <2>3. GoodAnswer([outcome |-> "unavailable", ask |-> a], F)
    BY <2>2 DEF GoodAnswer
  <2>. QED
    BY <2>1, <2>3, FinishKeepsRuns
<1>4. CASE js # {}
  <2>1. /\ j \in Stops(t) /\ n + 1 \in 1 .. j /\ Passed(t, j, F)
        /\ all \subseteq {"circuit_open"}
        /\ "circuit_open" \in all <=> n + 1 < j
    BY <1>1, <1>4, WalkGoesOn
  <2>2. e \in Endpoints
    BY <1>1, <2>1, RouteType
  <2>3. CASE e \notin FakeEndpoints
    <3>. DEFINE q == [pc |-> "calling", ask |-> a, stop |-> j, calls |-> n + 1,
                      degradations |-> all]
    <3>1. /\ breakers' = [bs EXCEPT ![e] = BeforeCall(@)]
          /\ run' = [run EXCEPT ![r] = q]
          /\ answer' = NoAnswer /\ cache' = cache
      BY <1>4, <2>3 DEF Walk, BreakerKey
    <3>2. GoodRun(q, F)
      BY <2>1, <2>3 DEF GoodRun
    <3>3. DOMAIN run' = Requests /\ \A p \in Requests : run'[p] = run[p] \/ run'[p] = q
      BY <3>1
    <3>4. GoodAnswer(NoAnswer, F)
      BY DEF GoodAnswer, NoAnswer
    <3>. QED
      BY <2>2, <3>1, <3>2, <3>3, <3>4, CallsKeepBreakers
  <2>4. CASE e \in FakeEndpoints
    <3>1. /\ breakers' = [bs EXCEPT ![e] = OnSuccess(BeforeCall(@))]
          /\ Store(a, done) /\ Finish(r, done)
      BY <1>4, <2>4 DEF Walk, BreakerKey
    <3>. DEFINE m == n + 1
                cut == FALSE
    <3>2. GoodText(done, F) /\ done.outcome = "completion" /\ done.ask = a
      <4>1. /\ j \in Stops(a.tier) /\ m \in 1 .. j /\ Passed(a.tier, j, F)
            /\ all \subseteq {"circuit_open"}
            /\ "circuit_open" \in all <=> m < j
            /\ cut \in BOOLEAN
        BY <2>1
      <4>2. done = Completion(a, j, m, all \cup Demotions(a.tier, j, cut), cut)
        OBVIOUS
      <4>. HIDE DEF done, j, m, all, cut
      <4>3. GoodText(done, F)
        BY <4>1, <4>2, FreshText
      <4>4. done.outcome = "completion" /\ done.ask = a
        BY <4>2 DEF Completion
      <4>. QED
        BY <4>3, <4>4
    <3>. HIDE DEF done
    <3>3. GoodAnswer(done, F)
      BY <3>2 DEF GoodAnswer
    <3>4. GoodCache(cache', F)
      BY <3>1, <3>2, StoreKeepsCache
    <3>5. /\ DOMAIN run' = Requests /\ \A q \in Requests : GoodRun(run'[q], F)
          /\ GoodAnswer(answer', F)
      BY <3>1, <3>3, FinishKeepsRuns
    <3>6. GoodBreakers(breakers', F)
      BY <2>2, <3>1, CallsKeepBreakers
    <3>. QED
      BY <3>4, <3>5, <3>6
  <2>. QED
    BY <2>3, <2>4
<1>. QED
  BY <1>3, <1>4

\* Nothing has happened at the start.
LEMMA InitSInv == Init => SInv
<1>. SUFFICES ASSUME Init PROVE SInv
  OBVIOUS
<1>1. GoodBreakers(breakers, faulty) /\ GoodFaults(faulty)
  BY DEF Init, GoodBreakers, GoodFaults
<1>2. DOMAIN run = Requests /\ \A r \in Requests : GoodRun(run[r], faulty)
  BY DEF Init, GoodRun, NotRunning
<1>3. GoodCache(cache, faulty)
  BY DEF Init, GoodCache, NoEntry
<1>4. GoodAnswer(answer, faulty)
  BY DEF Init, GoodAnswer, NoAnswer
<1>. QED
  BY <1>1, <1>2, <1>3, <1>4 DEF SInv

\* A stored text, handed out again, says so.
LEMMA HitIsGood ==
    ASSUME NEW a \in Asks, GoodCache(cache, faulty), NEW hit \in Lookup(a)
    PROVE  GoodAnswer(hit, faulty)
<1>. DEFINE c == cache[CacheKey(a)].completion
<1>1. CacheKey(a) \in CacheKeys
  BY DEF CacheKeys
<1>2. /\ cache[CacheKey(a)].stored
      /\ hit = [c EXCEPT !.to = a, !.fromCache = TRUE,
                         !.degradations = @ \cup {"cache_served"}]
  BY DEF Lookup
<1>3. GoodText(c, faulty) /\ CacheKey(c.ask) = CacheKey(a)
  BY <1>1, <1>2 DEF GoodCache
<1>. HIDE DEF c
<1>4. /\ hit \in CompletionType /\ hit.outcome = "completion"
      /\ hit.ask = c.ask /\ hit.to = a /\ hit.stop = c.stop /\ hit.calls = c.calls
      /\ hit.degradations = c.degradations \cup {"cache_served"}
  BY <1>2, <1>3 DEF GoodText, CompletionType, Kinds
<1>5. GoodText(hit, faulty)
  BY <1>3, <1>4 DEF GoodText, EndpointOf
<1>. QED
  BY <1>4, <1>5 DEF GoodAnswer

LEMMA AskKeepsSInv ==
    ASSUME SInv, NEW r \in Requests, NEW a \in Asks, Ask(r, a)
    PROVE  SInv'
<1>1. CASE Lookup(a) # {}
  <2>1. PICK hit \in Lookup(a) : Finish(r, hit)
    BY <1>1 DEF Ask
  <2>2. UNCHANGED <<breakers, cache, faulty>>
    BY <1>1 DEF Ask
  <2>3. GoodAnswer(hit, faulty)
    BY HitIsGood DEF SInv
  <2>4. /\ DOMAIN run' = Requests /\ \A q \in Requests : GoodRun(run'[q], faulty)
        /\ GoodAnswer(answer', faulty)
    BY <2>1, <2>3, FinishKeepsRuns DEF SInv
  <2>. QED
    BY <2>2, <2>4 DEF SInv
<1>2. CASE Lookup(a) = {}
  <2>1. Walk(r, a, 1, breakers, 0, {}) /\ faulty' = faulty
    BY <1>2 DEF Ask
  <2>2. Passed(a.tier, 1, faulty)
    BY RouteType, LLMAssumption DEF Passed
  <2>. DEFINE i == 1
              n == 0
              ds == {}
  <2>3. /\ i \in Nat \ {0} /\ n \in 0 .. i - 1 /\ ds \subseteq {"circuit_open"}
        /\ ("circuit_open" \in ds <=> n < i - 1)
    OBVIOUS
  <2>4. Walk(r, a, i, breakers, n, ds) /\ Passed(a.tier, i, faulty)
    BY <2>1, <2>2
  <2>. HIDE DEF i, n, ds
  <2>. QED
    BY <2>1, <2>3, <2>4, WalkKeepsSInv DEF SInv
<1>. QED
  BY <1>1, <1>2

LEMMA AnsweredKeepsSInv ==
    ASSUME SInv, NEW r \in Requests, NEW truncated \in BOOLEAN, Answered(r, truncated)
    PROVE  SInv'
<1>. DEFINE a    == run[r].ask
            j    == run[r].stop
            n    == run[r].calls
            ds   == run[r].degradations
            done == Completion(a, j, n, ds \cup Demotions(a.tier, j, truncated), truncated)
<1>1. /\ breakers' = [breakers EXCEPT ![EndpointAt(a.tier, j)] = OnSuccess(@)]
      /\ Store(a, done) /\ Finish(r, done) /\ faulty' = faulty
  BY DEF Answered, CallKey, BreakerKey
<1>2. /\ a \in Asks /\ j \in Stops(a.tier) /\ n \in 1 .. j
      /\ ds \subseteq {"circuit_open"}
      /\ "circuit_open" \in ds <=> n < j
      /\ Passed(a.tier, j, faulty)
  BY DEF Answered, SInv, GoodRun
<1>3. done = Completion(a, j, n, ds \cup Demotions(a.tier, j, truncated), truncated)
  OBVIOUS
<1>4. done.outcome = "completion" /\ done.ask = a
  BY DEF Completion
<1>5. EndpointAt(a.tier, j) \in Endpoints
  BY <1>2, RouteType, LLMAssumption
<1>. HIDE DEF a, j, n, ds, done
<1>6. GoodText(done, faulty)
  BY <1>2, <1>3, FreshText
<1>7. GoodAnswer(done, faulty)
  BY <1>4, <1>6 DEF GoodAnswer
<1>8. GoodCache(cache', faulty)
  BY <1>1, <1>2, <1>4, <1>6, StoreKeepsCache DEF SInv
<1>9. /\ DOMAIN run' = Requests /\ \A q \in Requests : GoodRun(run'[q], faulty)
      /\ GoodAnswer(answer', faulty)
  BY <1>1, <1>7, FinishKeepsRuns DEF SInv
<1>10. GoodBreakers(breakers', faulty)
  BY <1>1, <1>5, CallsKeepBreakers DEF SInv
<1>. QED
  BY <1>1, <1>8, <1>9, <1>10 DEF SInv

LEMMA ProviderFailsKeepsSInv ==
    ASSUME SInv, NEW r \in Requests, ProviderFails(r)
    PROVE  SInv'
<1>. DEFINE a  == run[r].ask
            j  == run[r].stop
            i  == j + 1
            n  == run[r].calls
            ds == run[r].degradations
            e  == EndpointAt(a.tier, j)
            F  == faulty \cup {e}
            bs == [breakers EXCEPT ![e] = OnFailure(@)]
<1>1. Walk(r, a, i, bs, n, ds) /\ faulty' = F
  BY DEF ProviderFails, CallKey, BreakerKey
<1>2. /\ a \in Asks /\ j \in Stops(a.tier) /\ n \in 1 .. j
      /\ ds \subseteq {"circuit_open"}
      /\ "circuit_open" \in ds <=> n < j
      /\ e \notin FakeEndpoints
      /\ Passed(a.tier, j, faulty)
  BY DEF ProviderFails, SInv, GoodRun
<1>3. e \in Endpoints /\ Stops(a.tier) \subseteq Nat \ {0}
  BY <1>2, RouteType, LLMAssumption
<1>4. i \in Nat \ {0} /\ n \in 0 .. i - 1 /\ ("circuit_open" \in ds <=> n < i - 1)
  BY <1>2, <1>3
<1>5. GoodBreakers(bs, F)
  BY <1>3, CallsKeepBreakers DEF SInv
<1>6. GoodFaults(F)
  BY <1>2, <1>3 DEF SInv, GoodFaults
<1>7. Passed(a.tier, i, F)
  <2>1. ASSUME NEW k \in Stops(a.tier), k < i PROVE EndpointAt(a.tier, k) \in F
    <3>1. k < j \/ k = j
      BY <1>2, <1>3, <2>1
    <3>. QED
      BY <1>2, <3>1 DEF Passed
  <2>. QED
    BY <2>1 DEF Passed
<1>. HIDE DEF a, i, n, ds, F, bs
<1>8. /\ \A q \in Requests : GoodRun(run[q], F)
      /\ GoodCache(cache, F) /\ DOMAIN run = Requests
  <2>1. faulty \subseteq F
    BY DEF F
  <2>. QED
    BY <2>1, FaultsOnlyGrow DEF SInv
<1>. QED
  BY <1>1, <1>2, <1>4, <1>5, <1>6, <1>7, <1>8, WalkKeepsSInv

LEMMA CancelledKeepsSInv ==
    ASSUME SInv, NEW r \in Requests, Cancelled(r)
    PROVE  SInv'
<1>. DEFINE result == [outcome |-> "cancelled", ask |-> run[r].ask]
<1>1. Finish(r, result) /\ UNCHANGED <<breakers, cache, faulty>>
  BY DEF Cancelled
<1>2. GoodAnswer(result, faulty)
  BY DEF Cancelled, SInv, GoodRun, GoodAnswer
<1>3. /\ DOMAIN run' = Requests /\ \A q \in Requests : GoodRun(run'[q], faulty)
      /\ GoodAnswer(answer', faulty)
  BY <1>1, <1>2, FinishKeepsRuns DEF SInv
<1>. QED
  BY <1>1, <1>3 DEF SInv

LEMMA TickKeepsSInv == SInv /\ Tick => SInv'
<1>. SUFFICES ASSUME SInv, Tick PROVE SInv'
  OBVIOUS
<1>1. GoodBreakers(breakers', faulty)
  BY NewBreakerStays DEF Tick, SInv, GoodBreakers
<1>2. GoodCache(cache', faulty)
  <2>1. DOMAIN cache' = CacheKeys
    BY DEF Tick
  <2>2. ASSUME NEW k \in CacheKeys
        PROVE  \/ cache'[k] = NoEntry
               \/ cache[k].stored /\ cache'[k] = [cache[k] EXCEPT !.age = @ + 1]
    BY DEF Tick
  <2>3. ASSUME NEW k \in CacheKeys
        PROVE  /\ \/ cache'[k] = NoEntry
                  \/ IsEntry(cache'[k])
               /\ cache'[k].stored => /\ cache[k].stored
                                      /\ cache'[k].completion = cache[k].completion
    <3>1. CASE cache'[k] = NoEntry
      BY <3>1 DEF NoEntry
    <3>2. CASE cache[k].stored /\ cache'[k] = [cache[k] EXCEPT !.age = @ + 1]
      <4>. DEFINE entry == cache[k]
      <4>1. \/ entry = NoEntry
            \/ IsEntry(entry)
        BY DEF SInv, GoodCache
      <4>. HIDE DEF entry
      <4>2. entry = NoEntry => ~entry.stored
        BY DEF NoEntry
      <4>3. entry.stored /\ cache'[k] = [entry EXCEPT !.age = @ + 1]
        BY <3>2 DEF entry
      <4>4. IsEntry(entry)
        BY <4>1, <4>2, <4>3
      <4>5. /\ IsEntry([entry EXCEPT !.age = @ + 1])
            /\ [entry EXCEPT !.age = @ + 1].completion = entry.completion
        BY <4>4 DEF IsEntry
      <4>. QED
        BY <4>3, <4>5 DEF entry
    <3>. QED
      BY <2>2, <3>1, <3>2
  <2>. QED
    BY <2>1, <2>3 DEF SInv, GoodCache
<1>3. GoodAnswer(answer', faulty) /\ UNCHANGED <<run, faulty>>
  BY DEF Tick, GoodAnswer, NoAnswer
<1>. QED
  BY <1>1, <1>2, <1>3 DEF SInv

\* The invariant always holds.
LEMMA ServiceInvariant == Spec => []SInv
<1>1. SInv /\ [Next]_vars => SInv'
  <2>. SUFFICES ASSUME SInv, [Next]_vars PROVE SInv'
    OBVIOUS
  <2>1. CASE UNCHANGED vars
    BY <2>1 DEF vars, SInv
  <2>2. CASE Tick
    BY <2>2, TickKeepsSInv
  <2>3. ASSUME NEW r \in Requests, NEW a \in Asks, Ask(r, a) PROVE SInv'
    BY <2>3, AskKeepsSInv
  <2>4. ASSUME NEW r \in Requests, NEW truncated \in BOOLEAN, Answered(r, truncated)
        PROVE  SInv'
    BY <2>4, AnsweredKeepsSInv
  <2>5. ASSUME NEW r \in Requests, ProviderFails(r) \/ Cancelled(r) PROVE SInv'
    BY <2>5, ProviderFailsKeepsSInv, CancelledKeepsSInv
  <2>. QED
    BY <2>1, <2>2, <2>3, <2>4, <2>5 DEF Next
<1>. QED
  BY <1>1, InitSInv, PTL DEF Spec

(***************************************************************************)
(* What the service and its callers promise, always.                       *)
(***************************************************************************)

\* Every text that is held or stored is good.
LEMMA GoodTexts ==
    ASSUME SInv, NEW c \in Texts
    PROVE  GoodText(c, faulty)
<1>1. CASE c = answer /\ answer.outcome = "completion"
  BY <1>1 DEF SInv, GoodAnswer
<1>2. CASE c \in {cache[k].completion : k \in {l \in CacheKeys : cache[l].stored}}
  BY <1>2 DEF SInv, GoodCache
<1>. QED
  BY <1>1, <1>2 DEF Texts

\* No endpoint is demoted for what another one did.
THEOREM EndpointsAlwaysAnswerForThemselves == Spec => []EndpointsAnswerForThemselves
<1>1. SInv => EndpointsAnswerForThemselves
  <2>. SUFFICES ASSUME SInv, NEW e \in Endpoints \ faulty
                PROVE  /\ breakers[e] = NewBreaker
                       /\ \A c \in Texts : \A i \in 1 .. c.stop - 1 :
                            EndpointAt(c.ask.tier, i) # e
    BY DEF EndpointsAnswerForThemselves
  <2>1. breakers[e] = NewBreaker
    BY DEF SInv, GoodBreakers
  <2>2. ASSUME NEW c \in Texts, NEW i \in 1 .. c.stop - 1
        PROVE  EndpointAt(c.ask.tier, i) # e
    <3>1. GoodText(c, faulty)
      BY GoodTexts
    <3>2. c.ask \in Asks /\ c.ask.tier \in Tiers /\ c.stop \in Stops(c.ask.tier)
      BY <3>1, LLMAssumption DEF GoodText, CompletionType
    <3>3. i \in Stops(c.ask.tier) /\ i < c.stop
      BY <3>2, RouteType
    <3>4. EndpointAt(c.ask.tier, i) \in faulty
      BY <3>1, <3>3 DEF GoodText, Passed
    <3>. QED
      BY <3>4
  <2>. QED
    BY <2>1, <2>2
<1>. QED
  BY <1>1, ServiceInvariant, PTL

\* No demoted text looks like the nominal one.
THEOREM NothingEverPassesAsNominal == Spec => []NothingPassesAsNominal
<1>1. SInv => NothingPassesAsNominal
  <2>. SUFFICES ASSUME SInv, NEW c \in Texts
                PROVE  /\ c.degradations = {} =>
                            c.stop = 1 /\ c.calls = 1 /\ ~c.fromCache /\ ~c.truncated
                       /\ "circuit_open" \in c.degradations <=> c.calls < c.stop
                       /\ "rule_engine_fallback" \in c.degradations
                            <=> EndpointOf(c) \in FakeEndpoints
    BY DEF NothingPassesAsNominal
  <2>1. GoodText(c, faulty)
    BY GoodTexts
  <2>2. c.degradations = {} => c.calls = 1
    BY <2>1 DEF GoodText
  <2>. QED
    BY <2>1, <2>2 DEF GoodText
<1>. QED
  BY <1>1, ServiceInvariant, PTL

\* Only a route that has failed everywhere is given up, and one with the fake
\* adapter never is.
THEOREM AlwaysGivesUpOnlyWhenExhausted == Spec => []GivesUpOnlyWhenExhausted
<1>1. SInv => GivesUpOnlyWhenExhausted
  <2>. DEFINE t == answer.ask.tier
  <2>. SUFFICES ASSUME SInv, answer.outcome = "unavailable",
                       NEW u \in {t} \cup (IF t = "reasoning" THEN {"fast"} \cap Tiers
                                                              ELSE {}),
                       NEW i \in DOMAIN Chain[u]
                PROVE  Chain[u][i] \in faulty
    BY DEF GivesUpOnlyWhenExhausted
  <2>1. t \in Tiers /\ \A k \in Stops(t) : EndpointAt(t, k) \in faulty
    BY LLMAssumption DEF SInv, GoodAnswer
  <2>2. u \in Tiers /\ (u = t \/ (u = "fast" /\ HasLower(t)))
    BY <2>1 DEF HasLower
  <2>. HIDE DEF t
  <2>3. Chain[u] \in Seq(Endpoints) /\ Chain[t] \in Seq(Endpoints)
    BY <2>1, <2>2, LLMAssumption
  <2>. DEFINE own   == Len(Chain[t])
              lower == IF HasLower(t) THEN Len(Chain["fast"]) ELSE 0
  <2>4. own \in Nat /\ lower \in Nat /\ Stops(t) = 1 .. own + lower
    <3>1. HasLower(t) => Chain["fast"] \in Seq(Endpoints)
      BY LLMAssumption DEF HasLower
    <3>. QED
      BY <2>3, <3>1 DEF Stops
  <2>5. CASE u = t
    <3>1. i \in 1 .. own /\ EndpointAt(t, i) = Chain[u][i]
      BY <2>3, <2>5 DEF EndpointAt, InOwnChain
    <3>. HIDE DEF own, lower
    <3>2. i \in Stops(t)
      BY <2>4, <3>1
    <3>. QED
      BY <2>1, <3>1, <3>2
  <2>6. CASE u = "fast" /\ HasLower(t)
    <3>1. i \in 1 .. lower
      BY <2>3, <2>6
    <3>. DEFINE k == own + i
    <3>. HIDE DEF k
    <3>2. EndpointAt(t, k) = IF k <= own THEN Chain[t][k] ELSE Chain[u][k - own]
      BY <2>6 DEF EndpointAt, InOwnChain, Position
    <3>. HIDE DEF own, lower
    <3>3. k \in Stops(t) /\ ~(k <= own) /\ k - own = i
      BY <2>4, <3>1 DEF k
    <3>. QED
      BY <2>1, <3>2, <3>3
  <2>. QED
    BY <2>2, <2>5, <2>6
<1>. QED
  BY <1>1, ServiceInvariant, PTL

\* No reply claims more than it has.
THEOREM RepliesAlwaysOwnUp == Spec => []RepliesOwnUp
<1>1. SInv => RepliesOwnUp
  <2>. SUFFICES ASSUME SInv, NEW reply \in Told(answer)
                PROVE  IF reply.source = "llm"
                       THEN /\ EndpointOf(answer) \notin FakeEndpoints
                            /\ AnswersThePrompt
                            /\ answer.stop # 1 \/ answer.fromCache \/ answer.truncated
                                 => reply.degradations # {}
                       ELSE reply.degradations # {}
    BY DEF RepliesOwnUp
  <2>1. answer.outcome \in {"completion", "unavailable", "cancelled"}
    BY DEF SInv, GoodAnswer, Told
  <2>2. answer.ask.tier \in {"reasoning", "fast", "vision"}
    BY <2>1, LLMAssumption, RepliesAssumption DEF SInv, GoodAnswer, GoodText, CompletionType
  <2>3. reply \in ChatReplies(answer) \cup VisionReplies(answer) \cup Narratives(answer)
    BY <2>1, <2>2 DEF Told
  <2>4. CASE answer.outcome # "completion"
    <3>1. reply.source # "llm" /\ reply.degradations = {"llm_unavailable"}
      BY <2>1, <2>3, <2>4 DEF ChatReplies, VisionReplies, Narratives, Reply, Unreachable
    <3>. QED
      BY <3>1
  <2>5. CASE answer.outcome = "completion"
    <3>1. GoodText(answer, faulty)
      BY <2>5 DEF SInv, GoodAnswer
    <3>2. \/ reply \in {Credited(answer, "rule"), Credited(answer, "measured")}
          \/ reply = Reply("rule", {"llm_unavailable"})
          \/ reply = Reply("measured", IF FromModel(answer) THEN {"llm_tier_downgrade"}
                                                            ELSE answer.degradations)
      BY <2>3, <2>5 DEF ChatReplies, VisionReplies, Narratives, Unreachable
    <3>3. CASE reply.source = "llm"
      <4>1. FromModel(answer) /\ reply.degradations = answer.degradations
        BY <3>2, <3>3 DEF Credited, Reply
      <4>2. AnswersThePrompt
        BY <3>1 DEF GoodText, AnswersThePrompt, CacheKey
      <4>. QED
        BY <3>1, <3>3, <4>1, <4>2 DEF GoodText, FromModel
    <3>4. CASE reply.source # "llm"
      <4>1. \/ reply.degradations = answer.degradations /\ ~FromModel(answer)
            \/ reply.degradations = {"llm_unavailable"}
            \/ reply.degradations = {"llm_tier_downgrade"}
        BY <3>2, <3>4 DEF Credited, Reply
      <4>. QED
        BY <3>4, <4>1 DEF FromModel
    <3>. QED
      BY <3>3, <3>4
  <2>. QED
    BY <2>4, <2>5
<1>. QED
  BY <1>1, ServiceInvariant, PTL
=============================================================================
