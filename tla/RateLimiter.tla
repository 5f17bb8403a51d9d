----------------------------- MODULE RateLimiter -----------------------------
(***************************************************************************)
(* The per-subject sliding window (SlidingWindowLimiter and the middleware *)
(* around it, src/apps/api/ratelimit.py).                                  *)
(*                                                                         *)
(* A request is decided without an await, so check() - and, every so many  *)
(* requests, prune() after it - is one step.  Time is relative: a hit is   *)
(* its age in ticks, and stops ageing at Window, where it is outside.  A   *)
(* key of the defaultdict that is not there is the empty sequence.  A      *)
(* request that has no bucket (an exempt path, an invalid token, another   *)
(* anonymous route) changes nothing and is left out.                       *)
(***************************************************************************)
EXTENDS Integers, Sequences, FiniteSetsExt

CONSTANTS
    Subjects,       \* the buckets: "user:..." and "ip:..."
    Limits,         \* the rate_limit_per_min a subject's role may grant
    Window,         \* window_seconds, in ticks
    Second,         \* ticks per second, the unit of Retry-After
    PruneEvery      \* _PRUNE_EVERY

ASSUME RateLimiterAssumption ==
    /\ Limits \subseteq Nat \ {0}
    /\ Window \in Nat \ {0} /\ Second \in Nat \ {0} /\ PruneEvery \in Nat \ {0}

VARIABLES
    hits,       \* hits[s]: the ages of the recorded hits, oldest first
    seen,       \* the middleware's counter, modulo PruneEvery
    limit,      \* limit[s]: what s's role grants; a role, the matrix and the
                \* environment are read at boot and stay as they are
    admitted,   \* admitted[s]: the ages of all admissions within a window
    promised    \* promised[s]: ticks of Retry-After left since a denial, or None

vars == <<hits, seen, limit, admitted, promised>>

None == -1

\* The deque without its oldest n hits.
Without(ages, n) == SubSeq(ages, n + 1, Len(ages))

\* The oldest hits are dropped until one is within the window.
Within(ages) ==
    Without(ages, Min({n \in 0..Len(ages) : n < Len(ages) => ages[n + 1] < Window}))

\* Mutant of Live: a hit that is a window old still counts.
LiveInclusive(ages) ==
    Without(ages, Min({n \in 0..Len(ages) : n < Len(ages) => ages[n + 1] <= Window}))

\* check(): hits at or before now - window are popped.
Live(ages) == Within(ages)

\* Mutant of RetryAfter: the fraction of a second is cut off.
RetryAfterFloor(ages) == Second * ((Window - Head(ages)) \div Second)

\* max(1, ceil(window - age of the oldest hit)), in ticks.
RetryAfter(ages) ==
    LET seconds == (Window - Head(ages) + Second - 1) \div Second
    IN  Second * (IF seconds > 1 THEN seconds ELSE 1)

\* Mutant of Stale: a subject whose oldest hit is outside the window is dropped.
StaleByOldest(ages) == ages = <<>> \/ Head(ages) >= Window

\* prune() drops a subject with no hit in the window.
Stale(ages) == ages = <<>> \/ ages[Len(ages)] >= Window

Init ==
    /\ hits = [s \in Subjects |-> <<>>]
    /\ seen = 0
    /\ limit \in [Subjects -> Limits]
    /\ admitted = [s \in Subjects |-> <<>>]
    /\ promised = [s \in Subjects |-> None]

\* The middleware has decided: it counts, and prunes when it is time to.
Decided(hs) ==
    /\ seen' = (seen + 1) % PruneEvery
    /\ hits' = IF seen' = 0
               THEN [s \in Subjects |-> IF Stale(hs[s]) THEN <<>> ELSE hs[s]]
               ELSE hs
    /\ UNCHANGED limit

Full(s) == Len(Live(hits[s])) >= limit[s]

Allow(s) ==
    /\ ~Full(s)
    /\ Decided([hits EXCEPT ![s] = Append(Live(@), 0)])
    /\ admitted' = [admitted EXCEPT ![s] = Append(@, 0)]
    /\ promised' = [promised EXCEPT ![s] = None]

\* The answer is 429 with Retry-After.
Deny(s) ==
    /\ Full(s)
    /\ Decided([hits EXCEPT ![s] = Live(@)])
    /\ promised' = [promised EXCEPT ![s] = RetryAfter(Live(hits[s]))]
    /\ UNCHANGED admitted

Older(ages) == [i \in DOMAIN ages |-> IF ages[i] < Window THEN ages[i] + 1 ELSE ages[i]]

Tick ==
    /\ hits' = [s \in Subjects |-> Older(hits[s])]
    /\ admitted' = [s \in Subjects |-> Within(Older(admitted[s]))]
    /\ promised' = [s \in Subjects |-> IF promised[s] > 0 THEN promised[s] - 1
                                                          ELSE promised[s]]
    /\ UNCHANGED <<seen, limit>>

Next ==
    \/ \E s \in Subjects :
         \/ Allow(s)
         \/ Deny(s)
    \/ Tick

Spec == Init /\ [][Next]_vars

-----------------------------------------------------------------------------
(* What the limiter promises.                                              *)

Ages == 0 .. Window

\* The recorded hits are ages, oldest first, and never more than the limit allows.
TypeOK ==
    /\ \A s \in Subjects :
         /\ \A i \in DOMAIN hits[s] : hits[s][i] \in Ages
         /\ \A i, j \in DOMAIN hits[s] : i < j => hits[s][i] >= hits[s][j]
         /\ Len(hits[s]) <= limit[s]
    /\ seen \in 0 .. PruneEvery - 1
    /\ limit \in [Subjects -> Limits]
    /\ promised \in [Subjects -> {None} \cup 0 .. Window + Second]

\* The window slides exactly: an admission never makes more of them within any
\* window than the subject's limit, wherever the window starts and whatever prune()
\* dropped in between.
AdmitsWithinLimit ==
    [][\A s \in Subjects : Allow(s) => Len(admitted'[s]) <= limit[s]]_vars

\* A denial is deserved: only admissions of the last window, never denials or
\* admissions before it, keep a subject out.
DenialDeserved ==
    [][\A s \in Subjects : Deny(s) => Len(admitted[s]) >= limit[s]]_vars

\* A client that waits as long as Retry-After says finds room, however often it was
\* denied before.
RetryAfterKept ==
    \A s \in Subjects : promised[s] = 0 => ~Full(s)
=============================================================================
