# A TLA+ model of DefectSense

DefectSense inspects wheel assemblies: torque curves and vision verifiers go
through a deterministic graph of agents that decides pass, defect or escalate and
prices the actions; a language model explains the verdict afterwards; an HTTP and
WebSocket API stores, lists, assigns and streams the inspections; a React client
shows them. This directory holds TLA+ modules of the parts whose order of events,
failures or arithmetic is hard to test, TLC runs of small instances, and TLAPS
proofs of the properties that matter most.

Paths are relative to the repository: `apps/...`, `src/forge/...`, `config/...`.

## 1. Inventory

| part | code | state it keeps | operations | what makes it correct |
|---|---|---|---|---|
| Circuit breaker | `src/forge/infrastructure/resilience/breaker.py` | state, failure and success counters, half-open slots, time stamp | `before_call`, `on_success`, `on_failure`, `force_open`, `reset` | open means no calls for a whole window; half-open is a trickle; a healthy dependency is used again |
| LLM service | `src/forge/infrastructure/llm/service.py`, `config.py`, `openai_compat.py`, `fake.py` | response cache, breaker per (provider, model), probe results | `generate`, `probe`, `capabilities`, `is_tier_available` | a demoted or cached answer says so; an answer is given for the question asked; the walk ends; one bad model does not shut out its siblings |
| Verdict graph | `src/forge/agents/graph.py`, `domain/state.py` | the channels of one run | six nodes, three of them in one superstep, `narrate` | no pass without evidence; the order of the specialists does not matter |
| Adjudication, cost triage | `domain/adjudication.py`, `domain/cost.py` | none | `adjudicate`, `needs_human`, `triage` | severity is not diluted; nothing dubious is accepted without a human; the price is that of the action |
| Inspection use case | `application/usecases/inspect.py` | none | `inspect`, `_adjudicate` | a second implementation that must not drift |
| Torque and signals | `domain/torque.py`, `domain/signals.py` | none | curve validation, two-segment fit, features, learned baselines, noisy-OR score, classes | the knee is the best one; the two analysers measure the same; more evidence never lowers the score |
| Inspection API | `apps/api/main.py` | caches of views and states, subscribers, counters | create, narrate, list, get, metrics, broadcast, `/ws/live` | storage is authoritative; views agree with custody; no frame is lost in silence |
| Assignment | `apps/api/routers/defects.py` | `_ASSIGNMENTS` and its documents | assign, list | custody is shown, stored and survives as far as the storage allows |
| Persistence | `src/forge/infrastructure/persistence/*.py` | records, documents | save, get, list, put; the ladder MongoDB, file, memory | a write is atomic and lasts as far as the tier goes, over failures and reboots |
| Rate limiter | `apps/api/ratelimit.py` | hits per subject | check, prune | a window slides exactly; `Retry-After` is honest |
| Users, tokens | `src/forge/infrastructure/auth.py`, `apps/api/routers/auth.py` | user directory | sync, register, login, refresh | a committed user stays; no name twice |
| Permissions | `apps/api/security.py`, `config/rbac.yaml` | none | require, station scope | nobody is shown, or counted, another station's units |
| Capability probe | `apps/api/capabilities.py`, `llm/probe.py` | last result, running task | snapshot, ensure_running, refresh | one probe at a time; what is shown as measured was measured |
| Assistant, vision | `apps/api/routers/assistant.py`, `vision.py` | none | chat, analyze_image | fallbacks are labelled |
| Web client | `apps/web/src/useLiveFeed.ts`, `auth.tsx` | one WebSocket, a board, a token, a user, a cookie | reconnect, hydrate, sign in, refresh, sign out | the board agrees with the server; one connection; one identity, and nobody else comes back after a sign-out |
| Knowledge retrieval | `RAG/latestchroma.py`, `eval_retrieval.py` | a vector index | ingest, search | - |
| Bootstrap, notifications, tools, pages | the rest | - | - | - |

How they interact. `create_inspection()` runs the graph, saves through the
persistence port, assigns a worker, renders and caches a view, broadcasts it to the
subscribers' queues and starts the narrative. The narrative asks the LLM service,
which goes through its breakers, and patches the view. Reads and assignments go
through the same cache; the web client reads the list and the feed. All handlers
run on one asyncio event loop: between two awaits that really suspend they are
atomic, and that is what one action of a model is. Threads appear in two places. The
breaker's lock is never held over an await. The synchronous dependencies that
authenticate a request run in worker threads, where they may seed an empty user
directory or find it half seeded by another; the models seed it in one step, since no
property speaks of demo accounts that are unknown for a moment.

The hard behaviours: calls that report late, never or after cancellation; endpoints
that fail half-way down a chain; cached answers; state read before an await and
used after it; a saved but not yet announced unit; bounded queues and caches;
restarts with part of the state in memory only; a client whose snapshot and
subscription are not one step; windows and budgets at their boundary. `hazards` in
PROJECT.json lists them at their lines, with the properties that cover them.

## 2. Modules

**Breaker** gives each method of `CircuitBreaker` as an operator on a record with
the fields of the class. `_opened_at` is `openFor`, the ticks since it was stamped,
which stop at `OpenDuration` (later is not different). **CircuitBreaker** puts one
breaker before callers that interleave: `Admit`, `Succeed`, `Fail` are the three
calls of `LLMService._run_chain()`; `Abandon` is a call that ends and reports
neither, as a cancelled one does; `OperatorOpens` and `OperatorResets` are the fault
injection; `Tick` is the clock. `trials`, `cooling` and `report` are history
variables. **BreakerPromise** is the abstract specification: the state, what is left
of the window, the calls that are out, no counters.

**LLMService** composes one `Breaker` per endpoint with the cache and the walk down
the chain of a tier and the one below it. A step of a request goes to its next HTTP
call, since nothing else suspends: `Ask`, `Answered`, `ProviderFails`, `Cancelled`.
An ask is tier, pack, prompt and image; an answer records the ask it was written
for (`ask`) and the one it is given to (`to`). **Replies** adds both ends of it: the
chains that `load()` makes of the configured entries, and what `narrate()`, the chat
endpoint and the image endpoint tell the user of each outcome, as the source and the
degradations of a reply. **MCLLMService** is the instance; its chains are checked to
be what `ChainOf` makes of entries with repeated, switched-off and keyless models.

**Triage** has the pure functions: `Adjudicate`, `NeedsHuman`, `Triage`, the action
costs; probabilities and prices are integers in fixed units, so comparisons at
thresholds are exact. **VerdictPipeline** runs the six nodes in the graph's order,
the specialists in any order, and states the use case as the operator `UseCase`.
**MCVerdictPipeline** holds the demo plant's rates.

**LeastSquares** fits lines to slices of a series from prefix sums, exactly: a slope
is a fraction, a sum of squared errors is counted in parts that divide evenly.
**TorqueSignature** is the torque analyser: the curve's validation, the two-segment
fit, the features, the baseline learned from clean runs, deviations, the noisy-OR
score and the ranked classes. **Signals** is the generic analyser that is to take its
place, with its extractors, its rules and limits. **SignatureBench** sends one run
through both (`Learn`, `Refuse`, `Measure`, `Score`), and **MCSignatureBench** names
the curves, features and baselines.

**Storage** is the ladder of `open_storage()` at each boot and the writes of each
tier, cut where they suspend: the lock of a file store, its temporary file and its
rename; a MongoDB write whose effect and whose answer are two steps, either of which
may fail; memory, which does not suspend and evicts the oldest. `Reboot` ends the
process at any moment and opens whatever is there. **DurableStore** is what a store
promises: a write takes effect at one moment between its call and its return, or
never, and nothing else is lost than the tier is known to lose. `Promise` in
`Storage` is the refinement mapping (`KeptBy`: what the tier would read back;
`TakenCalls`: a write that has been renamed but not returned has taken effect).
**InspectionReads** adds the requests that read: the page of `_visible_views()` with
its total, cut between `list()` and the records and between MongoDB's count and find;
`_gather_context()` of the assistant; the station scope of both; the cache of states
that `persist()` fills. **MCInspectionReads** is the instance.

**RateLimiter** has the window of each subject as the ages of its hits, the
middleware's pruning every so many requests, and `Retry-After` as a promise that
counts down. **CapabilityProbe** is the cache of what the endpoints can do:
`ensure_running()`, the background task's end, the age of the measurement and the
status it is shown with. **Gateway** composes them: a request that the limiter lets
through may be one for `admin_system()`, which starts probes.

**Inspections** is the life of a record in the API process. `Inspect`, `Save`,
`SaveFails`, `Respond` are `create_inspection()` cut at its await of the repository;
`Inspect` includes what `persist()` does before that await, which is to put the state
into `state.states` (`Remember`). `Narrate` and `NarrateFails` are the background task;
`Resolve` and `ResolveStored` are a read cut at its await. `assign_defect()` is `Assign`,
which takes a unit in `state.states` at once, saved or not, and asks the repository for
any other (`AssignStored`); `WriteByUnit` and `WriteByKey` are its two writes, and
`AssignFails` is a read or a write that raises. `saved` is kept for each of the two
storages, and `rung` is the one this process has opened. `Restart` loses the memory,
opens either, and has of the assignments what `sync_assignments_from_mongo()` finds
(`Sync`): nothing in the file store, and in MongoDB all of them, or those that came
before the cursor raised, which the code logs and goes on. `whole` is history: whether
the reading got to the end. The LRU order is `recency`, apart from `views`, which is a
function. **MCInspections** is the instance.

**LiveFeed** is the feed from `broadcast()` to the board: the bounded queue with its
`dropped` count, the handler's `Take` and `Send`, the page's single WebSocket with
its error and close events, its reconnect timers, and `hydrate()`, `pushLocal()`,
`onmessage`. The list that `hydrate()` asks for has at most `ListLimit` units (25 in the
code), any of those saved and in any order: the model does not say which are the last,
since units are created, saved and announced in different orders. `sub[s].before`,
`sub[s].listed`, `listing.beyond` (what the list had no room for) and `ledger` are
history.

**Directory** is the user directory as the set of its names: `Register`, `Find`,
`Put`, `Answer`, `Refuse` are `register()` cut at its calls of the store; `SyncSeed`,
`SyncClear`, `SyncRead`, `SyncLoad`, `SyncFails` are `sync_users_with_mongo()`;
`Lookup` is anything that finds the dictionary empty and has it seeded. **Session**
composes it with the browser. Every function of `AuthProvider` asks, and the server
decides at one moment. The headers of its answer arrive at another, and with them the
cookie, which the browser stores (`CookieArrives`); the body arrives at a third, and the
page takes token and user from it (`Granted`). Anything may come between, and the
network may fail before, between and after (`Lost`). A sign-out leaves the cookie
(`Forgotten`): the handler deletes it on a response that is not the one it returns.
`busy` is the form of the login page, which has one sign-in under way. A token is whose
it is and whether it has expired. `left`, `kept`, `under` and `late` are the history of
the last sign-out, `behind` and `astray` that of answers that cross. **MCSession** is the
instance, in which the waiting functions are interchangeable.

**CircuitBreakerProofs**, **LLMServiceProofs**, **VerdictPipelineProofs** (with the
scoring, whose scores the verdict is made from), **InspectionsProofs**, **StorageProofs**
(with the requests that read), **SessionProofs** (with the directory), **LiveFeedProofs**
and **GatewayProofs** (with the limiter and the probe cache) hold the theorems.

Operators introduced by "Mutant of" change a definition the way a plausible bug
would; no specification uses them. They serve to confirm that each property can be
broken.

## 3. Runs

| run | what it shows | bounds |
|---|---|---|
| `breaker` | counters agree with the state; half-open admits at most its slots; a failed trial costs a whole window; the breaker implements `BreakerPromise`; it closes again unless wedged | 4 callers, 2 slots, thresholds 2, window 3 ticks, calls at most 2 |
| `breaker_leak` | violated: with one slot, a trial that never reports keeps the breaker half-open for good | 2 callers |
| `llm` | no demotion is hidden, siblings are not contaminated, giving up means exhaustion, no reply claims a model it has not had, requests end | 2 requests, 3 endpoints, 3 tiers, cached until the next tick |
| `llm_images` | violated: two images under one prompt share a cached answer | 2 images, TTL 1 |
| `verdict` | no pass without evidence, nothing dubious accepted alone, decisions carry their own price, the graph and the use case agree, worse evidence is never milder | 2 positions, 5 scores at the thresholds, 4 economics |
| `scoring` | the sweep finds the knee, the generic analyser measures the same, evidence only adds, class and score agree, a repeatable process does not blind the detector | all curves of 6 and 7 samples over 3 values, lines of 7 to 9 with one sample off |
| `inspections` | what is returned and shown is on record, what is assigned is, too, or its inspection is unanswered or failed; a cached view names the worker of the moment; custody is lost only by a restart that did not read it back | 2 units, 1 place in each cache, 1 read, 1 assignment, 2 workers, MongoDB and files |
| `storage` | the store implements `DurableStore`; a page's total and its rows add up; the assistant is grounded on what its caller may see | 3 inspections and 2 documents of one file name, 2 writers, `MaxWrites` 3, `MaxBoots` 1, memory for 2 records, limits of 1 and 2 |
| `feed` | every frame is accounted for, the board lacks only what was dropped or what the list had no room for, one WebSocket, reconnection | 2 units, 2 connection names, queue, wire, board and list of 1, 3 timers |
| `feed_takeover` | violated: a unit between the list and the subscription is never shown | the same, a list of 2 |
| `directory` | a token means that the user is stored, no overlap forgets a registered user, page and cookie are two people's only where two answers crossed, nobody else comes back after a sign-out | 1 demo account, 1 name to register, 1 registration, 1 synchronisation, 2 waiting functions of the page, MongoDB |
| `ratelimit` | the window slides exactly, denials are deserved, `Retry-After` is kept, each admin starts a bounded number of probes, the Admin page is honest and comes back | 2 subjects, limits 1 and 2, window of 3 ticks of half a second, pruning every 2 requests, probe TTL 1 tick |

Why the bounds are enough. A breaker with two slots and four callers has a trial
that succeeds, one that fails, one that vanishes and a straggler of the closed
state at the same time; more callers repeat one of the roles, and the proofs cover
all numbers. In the LLM instance a model is shared by two tiers and a provider by
two models, so that both kinds of contamination would show; a chain of two, and a
downgrade, has every kind of stop. The scores of the verdict are those on either
side of the anomaly threshold and of the confidence band; two fasteners are enough
for one to hide another. With segments of three, six samples have one split, seven
two and nine four: ties, flat and vertical segments and splits at both ends occur;
the features that such short curves cannot reach are given, on either side of their
thresholds. Two units in a cache of one evict each other at every read, in the cache
of states as in that of views; one assignment is overtaken by the automatic one, by
reads and by boots, and the theorems hold for any number. Three writes by two writers let one be
cut off, one overtake it and one evict; with one reboot the process opens on any
other rung than the one it wrote to; three inspections and a page of one make a page
that is full, a total larger than it, and a scan that stops at its cap. A queue of
one with one frame on the wire drops with the second unit, and a list of one leaves one
of two units out. Two waiting functions let
any refresh, sign-in and sign-out overtake each other. A window of 3 ticks that is no
multiple of a second (2 ticks) makes rounding matter. The environment's bounds are
`MaxTimers` (losing a connection waits until fewer reconnects are due), `MaxWrites`,
`MaxBoots`, `Asked`, and the sets of callers, requests, reads, tasks and assignments.

Deadlock is checked in every run but `storage`: a boot that opens nothing, when no
boots are left, stops there, as the process does.

### Where the code disagrees with what it says

Three runs are counterexamples to what the repository says of itself:

- `breaker_leak`: the chain reports outcomes on return and on `LLMError` only; a
  cancelled or otherwise failing trial leaks its slot, and a breaker with one slot
  refuses a healthy dependency for good. The docstring's state machine has no such
  end. `breaker` shows that this is the only way not to recover.
- `llm_images`: the cache key leaves images out; the vision endpoint puts the
  picture nowhere else.
- `feed_takeover`: live events do not quite take over from where the list ends.

The other findings in PROJECT.json were read off while modelling, and need no run.
Three are about behaviours that the modules have and their properties make room for:

- Signing out does not last. `logout()` deletes the cookie on the response that FastAPI
  injects (`apps/api/routers/auth.py:116`) and returns another one, whose headers say
  nothing of it. The next load of the page signs the same person in.
  `NobodyElseComesBack` says what is left of the promise: it is nobody else.
- A page may show one person and hold the cookie of another, when the headers and the
  bodies of a refresh and of a sign-in cross; a reload then changes who is signed in.
  `OneIdentity` says that this is the only way.
- A unit whose save is under way or failed can be assigned, with its verdict announced
  and the assignment stored, although no repository has the record. `ShownIsOnRecord`
  says that there are no others.

And in short:
`fusion_only` is documented as "no single signal would have caught this" and computed
from one fastener alone; a null narrative is documented as "the model has not
answered yet" and is also what a re-rendered view shows; probe results are kept per
provider while chains hold several of its models; `open_storage()` can raise; the
Admin page never shows `failed`; the noise floors of the two analysers differ; the
pack's anomaly threshold reaches nobody; `reset_in` is not when the window is empty;
`narrate()` can raise.

Seen as well, and promised by no document:

- *Assignments and views.* Concurrent assignments may leave another worker in the
  document than in memory; an assignment made between the save and the response of an
  inspection is overwritten by the automatic one.
- *Feed.* `board` may exceed its 50 items, because neither the list nor `pushLocal()`
  makes room; the count of dropped frames reaches the client, which does not look at
  it; a late close event of an old WebSocket switches the indicator off while the new
  one is open.
- *Users.* Two registrations of one name that overlap between `find()` and `put()`
  both succeed; while a synchronisation has the dictionary empty, or after it failed
  there, valid tokens are refused and demo accounts are seeded anew; in file mode
  registrations are written and never read back.
- *Session.* A refresh or sign-in under way when the user signs out signs in again; a late
  refusal may sign out somebody who has just signed in; a request that is retried after a
  refresh carries the token of whoever is signed in by then; `activeToken`, which the live
  feed reads, survives a sign-out.
- *Storage.* MongoDB's count and find are two queries, so a total may be short of
  what was saved in between; the assistant's scoped context may be empty while the
  page lists older records of the station; a state is cached although its save
  failed; a record that `list()` skips as corrupt makes `get()` raise; two document
  keys may have one file name, and the later write takes its place; records written
  to one tier are not seen after a boot onto another; the docstring has MongoDB fall
  back to memory where the code falls back to files.
- *Replies.* The image endpoint replaces the degradations of an answer that is not
  JSON by its own, and narration likewise; a model's `defect_count` is taken over
  while invalid entries of its list are skipped; the fallback names a model among its
  sources.
- *Scoring.* The ceilings of residual, reversal and run-down slope serve as their own
  tolerance, so that between one and two times the ceiling a curve is classified and
  scores nothing.
- *Adjudication.* The rule for an anomalous signature can never apply: an anomalous
  point is either in spec, and the fusion rule comes first, or out of spec, and the
  endpoint rule does. This is why `VerdictOfEvidence` has no such case.

## 4. Fairness

- `CircuitBreaker`: the clock ticks; a call that is out ends (the HTTP client has a
  timeout); somebody keeps asking. `EventuallyHealthy` is a premise of the recovery
  property: from some point on, calls that end report success.
- `LLMService`: every HTTP call ends one way or another. Nothing is assumed of its
  outcome.
- `Gateway`: a probe ends, because each endpoint is asked with a timeout, and the
  clock ticks (weak fairness). Nothing is assumed of requests.
- `LiveFeed`: timers and events are run by the browser, a closing handshake ends
  (weak fairness); a connection that is attempted again and again is made some time
  (strong fairness): the server comes back. Mounting, publishing, sending and
  receiving are not fair.
- Everything else is safety only, without fairness.

## 5. Proofs

`CircuitBreakerProofs`, for every number of callers, every threshold and duration:

- one lemma per method says which fields it returns; the state machine's lemmas cite
  those and never open the methods again;
- `IInv == TypeOK /\ StatesAgree /\ Cooled`. `StatesAgree` alone is not enough for
  `NoSecondTrialInWindow`: one has to know that while the breaker cools down after a
  failed trial it is open and its window started no earlier than the failure, which
  is `Cooled`. Theorems `TypeCorrect`, `StatesAlwaysAgree`, `NoSecondTrial`;
- `TrialsTracked` on top of it: each trial holds a slot, and each other call that is
  out while the breaker is not closed was admitted before the window started. With
  the assumption `CallTimeout < OpenDuration` (the configured budgets are 6 and 8
  seconds, the window 30) no call of an older episode is left when half-open begins,
  so none can give back a slot that it does not hold. Theorem `HalfOpenIsATrickle`;
- `Implements`: each action of the breaker is a step of `BreakerPromise` or leaves
  its variables alone.

`LLMServiceProofs`, for any endpoints, chains, asks, number of requests, thresholds
and TTL. The invariant `SInv` says of each request and each text, held or stored,
that everything before its stop is faulty and that its calls and degradations add up
to that stop; it rests on `GoodBreakers`, that an endpoint which never failed has a
new breaker, since a new breaker admits and calls that go well leave it new. Its parts
take the set of faulty endpoints as a parameter, because the step that walks past an
endpoint is also the one that adds it. `FirstAdmitted` needs that a set of numbers has
a least member, which is taken from the library's well-founded induction
(`LeastNumber`). The assumption on `Replies` is that the tiers are those of
`ModelTier`.

`VerdictPipelineProofs`, for any points, scores, threshold and economics. `VInv` says
that what each node left is what it computes from what its predecessors left, whatever
ran in between. `VerdictOfEvidence` gives the verdict as a function of the evidence,
free of the order of the rules: escalate without points, defect if the verifiers fail
or any point is suspicious, pass otherwise. Three theorems follow from it. Two more are
about the price. `AlwaysAloneAtItsOwnPrice` needs only the definition of `Triage`: the
action taken alone is the cheapest one and its price is the one quoted.
`NeverAcceptsAloneWhereEscapesMatter` says that nothing dubious is accepted without
a human, under the premise `EscapesMatter`: in every market, twice the uncertainty of a
signature without a score, times the price of an escape, is more than a unit of money.
The premise is needed: where an escape costs less than that, a unit whose curve is
missing is cheapest shipped, and `triage()` ships it with nobody asked. The demo
plant's rates satisfy it a thousandfold.

The second half of `VerdictPipelineProofs` is about `SignatureBench`, for any curves of
any length over any angles, any features, clean runs, limits and sigma. The inductive
invariant `BenchInv` is short: features and baselines are those that the operators give
for the curve and the clean runs. The work is in what those operators give.

- *The noisy-OR.* Both scores are chains of factors that can only lower what is left of
  the full score, each rounded down (`Lowered`, `NoisyOrLowers`, `ScoreLowers`); a chain
  is determined by its factors, monotone in them and bounded by each. The deviations are
  six parts, one for each feature, and a part is monotone in its feature, on the side
  that counts (`DepartureMonotone`, `FlatteningMonotone`). Theorem
  `EvidenceAlwaysOnlyAdds`.
- *The fit.* The spread of the angles of a slice, the denominator of every slope, is never
  negative, by induction over the slice (`OneMore`, `SpreadIsNatural`), so every fit is a
  line. Each analyser sweeps over the splits and keeps the first of least error; exactly
  one split is that, so they find the same (`SweepsAgree`). Theorem
  `AnalysersAlwaysAgree`, for every feature that both have.
- *The classes.* A deviation is reported exactly when its excess is positive, under its
  feature's own name (`DeviationsMention`); 1.5 tolerances past the edge it counts fully
  (`PullFull`). Theorem `ClassesAreAlwaysMeasured`.
- *The tolerance.* The squared distances from a mean lie under a chord, so sigma times
  the deviation is at most sigma times the range (`SpreadWithin`): a tolerance is at most
  that, or a fiftieth of the mean. Theorem `FarIsAlwaysScored`.
- *The knee.* The sum of squares over a slice, for any line, is at least the square of each
  sample's residual (`SquaredAddsUp`). A slice along a line has no error (`StraightFits`); one
  with a bend in it lies on no line and has some (`BentHasMisfit`), which is not rounded
  away. So where two lines meet, a split has no error exactly if it cuts at the sample
  they share, on either side of it; the sweep keeps the earlier, and its second segment
  begins at the knee. Theorem `KneeIsAlwaysFound`.

Two statements had been too strong and were corrected when their proofs failed, each
false on inputs that the run does not reach. Of torques below zero the two analysers
take different magnitudes as the scale of noise, so the claim on reversals is for torques
that are not negative. A strength is counted in thousandths, so past a very large
tolerance a departure counts only from a five-hundredth of it on. Assumptions: a segment
and a baseline need at least two samples, errors are counted in a hundredth or less,
what arrives has as many angles as torques, and, for the knee, `GrainAssumption`: the
error of every slice of the curves that arrive is a whole number of `Grain`-ths, so that
the model's integers compare errors as exactly as the code's floats. Any finite set
of curves has such a `Grain`, the product of all its denominators; TLC evaluates the
assumption on the run's.

`InspectionsProofs`, for any units, workers, reads and assignments, either size of cache
and boots onto either storage: `IInv == Sorts /\ InHandIsOnRecord /\ AssignedIsKnown /\
ShownIsOnRecord /\ ViewsShowCustody`. A read that has waited for the repository renders a
view of a unit of which nothing is cached, so one must know meanwhile that its record
exists: that is `InHandIsOnRecord`. That an assigned unit is on record, unanswered or
failed has to be known of every state in `state.states`, of every assignment that is
between its writes, and of the documents in MongoDB, which a later boot reads back:
that is `AssignedIsKnown`. Theorems `ViewsAlwaysShowCustody`, `ShownIsAlwaysOnRecord`,
`CustodyIsAlwaysKept`. Assumptions: there is a worker on the shop floor, and "nobody" is
none of them.

`StorageProofs`, for any keys, file names, writers, bounds and any sequence of tiers:
`Implements` shows that every step of `Storage` is one of `DurableStore` or changes
nothing that it sees. The inductive invariant says that a caller writes a file only
while the deployment is in file mode and writes under a key that exists, and that the
memory's order lists each record it holds exactly once, so that the eviction counts
what is there. `ReadsImplementStorage` shows that
composing it with the requests that read adds no write, so the promise carries over.
`PageAlwaysAddsUp` and `AlwaysGroundedInScope` are about those requests, for any
inspections, stations, scopes and limits. Their invariant, `ReadsInv`, is that what was
stored when a listing began is stored still when it is answered, since inspections are
never deleted; the rest is what the operators on lists give: `NewestFirst` is the
stored ids in descending order (an enumeration of a set of numbers exists because the
smallest size without one would have a successor), `Among` keeps the order and drops
what is out of scope, `FirstOf` cuts. The assumption `Window <= Backfill` is the code's
`_CONTEXT_WINDOW * 3`.

`SessionProofs`, part 1, the directory, for any names and any number of registrations and
synchronisations: `RegisteredStaysKnown` speaks of the moments when no
synchronisation has the dictionary empty; `NobodyForgotten` says what holds in
between: a registered user is known, or is about to be read, or has been read and is
about to be entered. It rests on `Committed` and `TokenMeansStored` (what is read
includes every registered user) and on `DemoSeeded` (entering what was read never
takes away the demo accounts that an empty dictionary stands for).

Part 2, the browser, for any names and any number of waiting functions: a session uses the
directory as `Directory` allows (`ImplementsDirectory`, so the theorems of
part 1 hold of the composition); `AlwaysOneIdentity`: the token is the user's, and page and
cookie are two people's only while the body that belongs to the cookie is awaited, or after
answers crossed; `NobodyElseEverComesBack`: after a sign-out only the answers to what was
under way can bring anybody but the one whose cookie was kept. The inductive invariant
adds `LatestBroughtCookie` (a body awaited that no later cookie has left behind is of the
cookie's owner, so that applying it mends the page) and `OnlyOldAnswersBringOthers` (what
was begun after the sign-out is `Harmless`: no sign-in, and no cookie but the one kept).

`LiveFeedProofs`, for any units, connections, capacities and number of timers:
`AlwaysOneFeed`, `FramesAlwaysAccounted`, `BoardAlwaysLacksOnlyWhatWasDropped` and
`TypeCorrect`. The inductive invariant `LInv` has five parts: the types; `Holds`, a
subscription belongs to an open socket, and a socket without one has nothing on the wire;
`OnlyTheCurrent`, a socket that is connecting or open is the page's own; `Accounted`,
frames published to a subscriber are those dropped, waiting, on the wire, lost with the
connection or received; `Covered`, two accounts of what a page lacks: of what was
announced since it subscribed, the feed tells of all that it has not brought (`Missing`);
and with the list in, that goes for all that was announced, but for what the list had no
room for and was announced before (`Lacks`). What the list left out and was announced
since is in the first account, which does not need the list. `Seeded` and `MissedIn` are
recursive functions, and what they sum is proved by induction over the numbers of an
interval, as the least number at which the claim fails. `Limits` bounds the queues and the
board. That bound had been too small in the model: a listed unit that was evicted and is
pushed again takes a place that was counted once.

`GatewayProofs`, for any TTL, limits and subjects: `PageIsAlwaysHonest`, from an
invariant that ties the age of the measurement to the last probe that succeeded, the
running flag to the one probe in flight, and says that while a probe runs, or when the
last one failed, the measurement is no longer fresh. `LimiterInv` is the limiter's: the
hits of a subject are kept oldest first and end with the admissions within the window,
which are no more than the limit; what comes before those has left the window; and a
promise outlasts the oldest of them. From it follow `AlwaysWithinLimit` (never more than the
limit in any window, pruning or not), `DenialsAreDeserved` and `RetryAfterIsKept`: who
waits as long as told is admitted. `ProbesAreAlwaysBounded` combines both: an admin
starts no more probes in a window than the limiter lets requests through.

Only model-checked: all liveness (`RecoversUnlessWedged`, `EveryRequestEnds`,
`Reconnects`, `ComesBack`), which is out of the prover's reach, and `TypeOK` of
`Inspections` beyond the parts in `Sorts`.

## 6. Not modelled

- Wording, logging, parsing of HTTP responses and of configuration; rendering; the
  generators of the corpus, evaluation and command-line tools, which run on their own.
- E-mail and Slack, whose failures are ignored by their callers; unit numbers, which
  are labels; the audit log, which nothing writes; deleting documents, which nothing
  calls; `refresh()` of the probe cache, which only tests call.
- Knowledge retrieval (`RAG/`): a command-line tool that nothing imports; its ranking
  is floating-point arithmetic over an embedding model's answers.
- Floating point. The scoring is computed exactly, in hundredths: what rounding does
  to a tie between two splits is outside the model; 1e-6 is one hundredth; a segment
  needs three samples where the code needs five; the extractors `distribution` and
  `spectral` are left out, and a trend over more than six points is rounded.
- The memory rung in `Inspections`, which keeps nothing over a restart. `activeToken` of
  `auth.tsx`, and other tabs of the browser, which share the cookie, in `Session`.
- What a probe measures, the checks of an upload (they refuse before `generate()`),
  passwords and roles, the heuristics on pixels and file names.
- A failed MongoDB write takes effect before its failure is reported, or never: one
  that the server applies later still is outside the model.
- `InspectionService` is modelled although no production code calls it, because it
  claims to be the same decision.

## 7. Plan

Done: every part above that is named in section 2. Left, in order of importance:

1. `Storage` composed into `Inspections`, so that a save that fails or is lost with
   the process is the store's own and not an action of the environment.
2. Scopes of subscribers and narrative frames in `LiveFeed`.
3. `is_tier_available()` and the probe's results in `LLMService`.
4. The full `TypeOK` of `Inspections`.
