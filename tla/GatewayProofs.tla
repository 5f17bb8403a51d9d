---------------------------- MODULE GatewayProofs ----------------------------
(***************************************************************************)
(* Proofs about the limiter and the page behind it, for any subjects,      *)
(* limits, windows, pruning intervals and TTL.                             *)
(***************************************************************************)
EXTENDS Gateway, WellFoundedInduction, SequenceTheorems, TLAPS

\* A set of numbers that is not empty has a least one.
LEMMA LeastNumber ==
    ASSUME NEW S, S \subseteq Nat, S # {}
    PROVE  Min(S) \in S /\ \A m \in S : Min(S) <= m
<1>1. PICK n \in S : \A m \in S : ~(<<m, n>> \in OpToRel(<, Nat))
  BY NatLessThanWellFounded, WFMin
<1>2. \A m \in S : ~(m < n)
  BY <1>1 DEF OpToRel
<1>3. \A m \in S : n <= m
  BY <1>2
<1>. QED
  BY <1>3 DEF Min

\* What is dropped from the left is out of the window, and what comes next is not.
LEMMA WithinFacts ==
    ASSUME NEW ages \in Seq(Nat)
    PROVE  \E n \in 0 .. Len(ages) :
             /\ Within(ages) \in Seq(Nat)
             /\ Len(Within(ages)) = Len(ages) - n
             /\ \A i \in 1 .. Len(ages) - n : Within(ages)[i] = ages[n + i]
             /\ \A i \in 1 .. n : ages[i] >= Window
             /\ n < Len(ages) => ages[n + 1] < Window
<1>. DEFINE S == {m \in 0..Len(ages) : m < Len(ages) => ages[m + 1] < Window}
            n == Min(S)
<1>1. Len(ages) \in Nat /\ Len(ages) \in S /\ S \subseteq Nat
  BY LenProperties
<1>2. n \in S /\ \A m \in S : n <= m
  BY <1>1, LeastNumber
<1>3. Within(ages) = SubSeq(ages, n + 1, Len(ages))
  BY DEF Within, Without
<1>. HIDE DEF n
<1>4. n \in 0 .. Len(ages) /\ (n < Len(ages) => ages[n + 1] < Window)
  BY <1>2
<1>5. \A i \in 1 .. n : ages[i] >= Window
  <2>. SUFFICES ASSUME NEW i \in 1 .. n PROVE ages[i] >= Window
    OBVIOUS
  <2>1. i - 1 \notin S
    BY <1>2, <1>4
  <2>2. i - 1 \in 0 .. Len(ages) /\ i - 1 < Len(ages) /\ (i - 1) + 1 = i
    BY <1>1, <1>4
  <2>3. ages[i] \in Nat
    BY <1>1, <1>4, ElementOfSeq
  <2>. QED
    BY <2>1, <2>2, <2>3, RateLimiterAssumption
<1>6. /\ Within(ages) \in Seq(Nat)
      /\ Len(Within(ages)) = Len(ages) - n
      /\ \A i \in 1 .. Len(ages) - n : Within(ages)[i] = ages[n + i]
  BY <1>1, <1>3, <1>4, SubSeqProperties
<1>. QED
  BY <1>4, <1>5, <1>6

LEMMA OlderFacts ==
    ASSUME NEW ages \in Seq(Nat)
    PROVE  /\ Older(ages) \in Seq(Nat)
           /\ Len(Older(ages)) = Len(ages)
           /\ \A i \in 1 .. Len(ages) :
                Older(ages)[i] = IF ages[i] < Window THEN ages[i] + 1 ELSE ages[i]
<1>1. DOMAIN ages = 1 .. Len(ages) /\ Len(ages) \in Nat
  BY LenProperties
<1>2. \A i \in 1 .. Len(ages) : ages[i] \in Nat
  BY ElementOfSeq
<1>. QED
  BY <1>1, <1>2 DEF Older

(***************************************************************************)
(* The inductive invariant.  The admissions within the window are the      *)
(* youngest of the recorded hits, oldest first, and the older hits are     *)
(* out of the window: pruning may take those, and nothing else.            *)
(***************************************************************************)
Aged(ages) ==
    /\ ages \in Seq(Nat)
    /\ \A i, j \in 1 .. Len(ages) : i <= j => ages[i] >= ages[j]
    /\ \A i \in 1 .. Len(ages) : ages[i] < Window

EndsWith(hs, ages) ==
    /\ hs \in Seq(Nat)
    /\ \E d \in Nat :
         /\ Len(hs) = d + Len(ages)
         /\ \A i \in 1 .. d : hs[i] >= Window
         /\ \A i \in 1 .. Len(ages) : hs[d + i] = ages[i]

Kept(p, ages, most) ==
    /\ p \in Int
    /\ p >= 0 /\ Len(ages) >= most => p >= Window - ages[1]

LimiterInv ==
    /\ limit \in [Subjects -> Limits]
    /\ hits \in [Subjects -> Seq(Nat)]
    /\ admitted \in [Subjects -> Seq(Nat)]
    /\ promised \in [Subjects -> Int]
    /\ \A s \in Subjects :
         /\ Aged(admitted[s])
         /\ EndsWith(hits[s], admitted[s])
         /\ Len(admitted[s]) <= limit[s]
         /\ Kept(promised[s], admitted[s], limit[s])

\* The hits that are left by check() are the admissions within the window.
LEMMA LiveIsWithin ==
    ASSUME NEW hs, NEW ages, Aged(ages), EndsWith(hs, ages)
    PROVE  Live(hs) = ages
<1>1. PICK d \in Nat : /\ Len(hs) = d + Len(ages)
                       /\ \A i \in 1 .. d : hs[i] >= Window
                       /\ \A i \in 1 .. Len(ages) : hs[d + i] = ages[i]
  BY DEF EndsWith
<1>2. hs \in Seq(Nat) /\ ages \in Seq(Nat) /\ Len(ages) \in Nat /\ Len(hs) \in Nat
  BY LenProperties DEF EndsWith, Aged
<1>3. PICK n \in 0 .. Len(hs) :
             /\ Within(hs) \in Seq(Nat)
             /\ Len(Within(hs)) = Len(hs) - n
             /\ \A i \in 1 .. Len(hs) - n : Within(hs)[i] = hs[n + i]
             /\ \A i \in 1 .. n : hs[i] >= Window
             /\ n < Len(hs) => hs[n + 1] < Window
  BY <1>2, WithinFacts
<1>4. \A i \in 1 .. Len(hs) : hs[i] \in Nat
  BY <1>2, ElementOfSeq
<1>5. n = d
  <2>1. CASE n < d
    <3>1. n + 1 \in 1 .. d /\ n + 1 \in 1 .. Len(hs)
      BY <1>1, <1>2, <1>3, <2>1
    <3>. QED
      BY <1>1, <1>3, <1>4, <2>1, <3>1, RateLimiterAssumption
  <2>2. CASE n > d
    <3>1. d + 1 \in 1 .. n /\ d + 1 \in 1 .. Len(hs) /\ 1 \in 1 .. Len(ages)
      BY <1>1, <1>2, <1>3, <2>2
    <3>2. hs[d + 1] = ages[1] /\ ages[1] < Window /\ hs[d + 1] >= Window
      BY <1>1, <1>3, <3>1 DEF Aged
    <3>. QED
      BY <1>4, <3>1, <3>2, RateLimiterAssumption
  <2>. QED
    BY <1>1, <1>3, <2>1, <2>2
<1>6. Len(Within(hs)) = Len(ages) /\ \A i \in 1 .. Len(ages) : Within(hs)[i] = ages[i]
  BY <1>1, <1>2, <1>3, <1>5
<1>7. Within(hs) = ages
  BY <1>2, <1>3, <1>6, SeqEqual
<1>. QED
  BY <1>7 DEF Live

\* A subject that prune() drops has no admission within the window.
LEMMA StaleHasNone ==
    ASSUME NEW hs, NEW ages, Aged(ages), EndsWith(hs, ages), Stale(hs)
    PROVE  EndsWith(<<>>, ages)
<1>1. PICK d \in Nat : /\ Len(hs) = d + Len(ages)
                       /\ \A i \in 1 .. d : hs[i] >= Window
                       /\ \A i \in 1 .. Len(ages) : hs[d + i] = ages[i]
  BY DEF EndsWith
<1>2. hs \in Seq(Nat) /\ ages \in Seq(Nat) /\ Len(ages) \in Nat
  BY LenProperties DEF EndsWith, Aged
<1>3. Len(ages) = 0
  <2>1. SUFFICES ASSUME Len(ages) > 0 PROVE FALSE
    BY <1>2
  <2>2. Len(ages) \in 1 .. Len(ages) /\ hs # <<>>
    BY <1>1, <1>2, <2>1
  <2>3. hs[Len(hs)] = ages[Len(ages)] /\ ages[Len(ages)] < Window
    BY <1>1, <2>2 DEF Aged
  <2>4. hs[Len(hs)] >= Window
    BY <2>2 DEF Stale
  <2>5. ages[Len(ages)] \in Nat
    BY <1>2, <2>2, ElementOfSeq
  <2>. QED
    BY <2>3, <2>4, <2>5, RateLimiterAssumption
<1>. QED
  BY <1>3 DEF EndsWith

\* An admission is the youngest hit and the youngest of the admissions.
LEMMA AdmittedFacts ==
    ASSUME NEW hs, NEW ages, Aged(ages), EndsWith(hs, ages)
    PROVE  /\ Aged(Append(ages, 0))
           /\ EndsWith(Append(Live(hs), 0), Append(ages, 0))
           /\ EndsWith(Live(hs), ages)
           /\ Len(Append(ages, 0)) = Len(ages) + 1
<1>1. ages \in Seq(Nat) /\ Len(ages) \in Nat /\ Live(hs) = ages
  BY LiveIsWithin, LenProperties DEF Aged
<1>2. \A i \in 1 .. Len(ages) : ages[i] \in Nat
  BY <1>1, ElementOfSeq
<1>3. /\ Append(ages, 0) \in Seq(Nat)
      /\ Len(Append(ages, 0)) = Len(ages) + 1
      /\ \A i \in 1 .. Len(ages) : Append(ages, 0)[i] = ages[i]
      /\ Append(ages, 0)[Len(ages) + 1] = 0
  BY <1>1, AppendProperties
<1>4. Aged(Append(ages, 0))
  <2>1. \A i \in 1 .. Len(ages) + 1 : Append(ages, 0)[i] < Window
    BY <1>1, <1>3, RateLimiterAssumption DEF Aged
  <2>2. \A i, j \in 1 .. Len(ages) + 1 : i <= j => Append(ages, 0)[i] >= Append(ages, 0)[j]
    <3>. SUFFICES ASSUME NEW i \in 1 .. Len(ages) + 1, NEW j \in 1 .. Len(ages) + 1, i <= j
                  PROVE  Append(ages, 0)[i] >= Append(ages, 0)[j]
      OBVIOUS
    <3>1. CASE j = Len(ages) + 1
      <4>1. Append(ages, 0)[i] \in Nat /\ Append(ages, 0)[j] = 0
        BY <1>1, <1>2, <1>3, <3>1
      <4>. QED
        BY <4>1
    <3>2. CASE j \in 1 .. Len(ages)
      <4>1. i \in 1 .. Len(ages)
        BY <1>1, <3>2
      <4>. QED
        BY <1>3, <3>2, <4>1 DEF Aged
    <3>. QED
      BY <1>1, <3>1, <3>2
  <2>. QED
    BY <1>3, <2>1, <2>2 DEF Aged
<1>5. EndsWith(Append(ages, 0), Append(ages, 0)) /\ EndsWith(ages, ages)
  <2>1. \A a \in Seq(Nat) : EndsWith(a, a)
    <3>. SUFFICES ASSUME NEW a \in Seq(Nat) PROVE EndsWith(a, a)
      OBVIOUS
    <3>1. Len(a) \in Nat
      BY LenProperties
    <3>2. \A i \in 1 .. Len(a) : a[0 + i] = a[i]
      OBVIOUS
    <3>. QED
      BY <3>1, <3>2 DEF EndsWith
  <2>. QED
    BY <1>1, <1>3, <2>1
<1>. QED
  BY <1>1, <1>3, <1>4, <1>5

\* A quotient is less than one short of the fraction.
LEMMA Quotient ==
    ASSUME NEW a \in Nat, NEW s \in Nat \ {0}
    PROVE  a \div s \in Int /\ s * (a \div s) \in Int /\ s * (a \div s) > a - s
<1>1. a \div s \in Int /\ s * (a \div s) > a - s
  BY Z3
<1>. QED
  BY <1>1

\* Retry-After is no less than the time until the oldest admission leaves the window.
LEMMA RetryAfterCovers ==
    ASSUME NEW ages \in Seq(Nat), Len(ages) > 0, ages[1] < Window
    PROVE  RetryAfter(ages) \in Int /\ RetryAfter(ages) >= Window - ages[1]
<1>1. Head(ages) = ages[1] /\ ages[1] \in Nat
  BY LenProperties, ElementOfSeq
<1>. DEFINE x == Window - Head(ages)
            q == (x + Second - 1) \div Second
<1>2. x \in Nat /\ Second \in Nat \ {0} /\ x + Second - 1 \in Nat
  BY <1>1, RateLimiterAssumption
<1>3. q \in Int /\ Second * q \in Int /\ Second * q > (x + Second - 1) - Second
  BY <1>2, Quotient
<1>4. RetryAfter(ages) = Second * (IF q > 1 THEN q ELSE 1)
  BY DEF RetryAfter
<1>. HIDE DEF q
<1>5. Second * q >= x
  <2>. HIDE DEF x
  <2>. DEFINE sq == Second * q
  <2>1. sq \in Int /\ sq > (x + Second - 1) - Second
    BY <1>3
  <2>. HIDE DEF sq
  <2>2. sq >= x
    BY <1>2, <2>1
  <2>. QED
    BY <2>2 DEF sq
<1>6. CASE q > 1
  BY <1>1, <1>3, <1>4, <1>5, <1>6
<1>7. CASE ~(q > 1)
  <2>1. RetryAfter(ages) = Second
    BY <1>2, <1>4, <1>7
  <2>2. Second * q <= Second
    BY <1>2, <1>3, <1>7, Z3
  <2>3. Window - ages[1] <= Second
    <3>. DEFINE sq == Second * q
    <3>1. sq \in Int /\ sq <= Second /\ sq >= x
      BY <1>3, <1>5, <2>2
    <3>. HIDE DEF sq
    <3>. QED
      BY <1>1, <1>2, <3>1
  <2>. QED
    BY <1>2, <2>1, <2>3
<1>. QED
  BY <1>6, <1>7

\* A tick takes the admissions that leave the window, and they are the oldest ones.
LEMMA TickFacts ==
    ASSUME NEW hs, NEW ages, Aged(ages), EndsWith(hs, ages)
    PROVE  /\ Aged(Within(Older(ages)))
           /\ EndsWith(Older(hs), Within(Older(ages)))
           /\ Len(Within(Older(ages))) <= Len(ages)
           /\ \A p \in Int, most \in Nat \ {0} :
                Kept(p, ages, most) /\ Len(ages) <= most
                  => Kept(IF p > 0 THEN p - 1 ELSE p, Within(Older(ages)), most)
<1>. DEFINE old == Older(ages)
            left == Within(old)
<1>1. PICK d \in Nat : /\ Len(hs) = d + Len(ages)
                       /\ \A i \in 1 .. d : hs[i] >= Window
                       /\ \A i \in 1 .. Len(ages) : hs[d + i] = ages[i]
  BY DEF EndsWith
<1>2. hs \in Seq(Nat) /\ ages \in Seq(Nat) /\ Len(ages) \in Nat /\ Len(hs) \in Nat
  BY LenProperties DEF EndsWith, Aged
<1>3. \A i \in 1 .. Len(ages) : ages[i] \in Nat
  BY <1>2, ElementOfSeq
<1>4. /\ old \in Seq(Nat) /\ Len(old) = Len(ages)
      /\ \A i \in 1 .. Len(ages) : old[i] = ages[i] + 1
  BY <1>2, OlderFacts DEF Aged
<1>. HIDE DEF old
<1>5. PICK n \in 0 .. Len(ages) :
             /\ left \in Seq(Nat)
             /\ Len(left) = Len(ages) - n
             /\ \A i \in 1 .. Len(ages) - n : left[i] = old[n + i]
             /\ \A i \in 1 .. n : old[i] >= Window
             /\ n < Len(ages) => old[n + 1] < Window
  BY <1>4, WithinFacts
<1>. HIDE DEF left
<1>6. \A i \in 1 .. Len(left) : n + i \in 1 .. Len(ages) /\ left[i] = ages[n + i] + 1
  <2>1. \A i \in 1 .. Len(left) : n + i \in 1 .. Len(ages)
    BY <1>2, <1>5
  <2>. QED
    BY <1>4, <1>5, <2>1
<1>7. Aged(left)
  <2>1. ASSUME NEW i \in 1 .. Len(left), NEW j \in 1 .. Len(left), i <= j
        PROVE  left[i] >= left[j]
    <3>1. n + i <= n + j /\ n + i \in 1 .. Len(ages) /\ n + j \in 1 .. Len(ages)
      BY <1>2, <1>5, <1>6, <2>1
    <3>2. ages[n + i] >= ages[n + j]
      BY <3>1 DEF Aged
    <3>. QED
      BY <1>3, <1>6, <3>1, <3>2
  <2>2. ASSUME NEW i \in 1 .. Len(left) PROVE left[i] < Window
    <3>1. 1 \in 1 .. Len(left) /\ n < Len(ages) /\ 1 <= i
      BY <1>2, <1>5, <2>2
    <3>2. left[1] < Window /\ left[1] >= left[i]
      BY <1>5, <2>1, <3>1
    <3>3. left[1] \in Nat /\ left[i] \in Nat
      BY <1>5, <3>1, ElementOfSeq
    <3>. QED
      BY <3>2, <3>3, RateLimiterAssumption
  <2>. QED
    BY <1>5, <2>1, <2>2 DEF Aged
<1>8. EndsWith(Older(hs), left)
  <2>1. /\ Older(hs) \in Seq(Nat) /\ Len(Older(hs)) = Len(hs)
        /\ \A i \in 1 .. Len(hs) :
             Older(hs)[i] = IF hs[i] < Window THEN hs[i] + 1 ELSE hs[i]
    BY <1>2, OlderFacts
  <2>2. d + n \in Nat /\ Len(hs) = (d + n) + Len(left)
    BY <1>1, <1>2, <1>5
  <2>3. ASSUME NEW i \in 1 .. Len(ages)
        PROVE  d + i \in 1 .. Len(hs) /\ Older(hs)[d + i] = old[i]
    <3>1. d + i \in 1 .. Len(hs)
      BY <1>1, <1>2
    <3>2. hs[d + i] = ages[i] /\ ages[i] < Window
      BY <1>1 DEF Aged
    <3>. QED
      BY <1>4, <2>1, <3>1, <3>2
  <2>4. ASSUME NEW i \in 1 .. d + n PROVE Older(hs)[i] >= Window
    <3>1. CASE i <= d
      <4>1. i \in 1 .. d /\ i \in 1 .. Len(hs)
        BY <1>1, <1>2, <3>1
      <4>2. hs[i] >= Window /\ hs[i] \in Nat
        BY <1>1, <1>2, <4>1, ElementOfSeq
      <4>. QED
        BY <2>1, <4>1, <4>2, RateLimiterAssumption
    <3>2. CASE i > d
      <4>1. i - d \in 1 .. n /\ i - d \in 1 .. Len(ages) /\ d + (i - d) = i
        BY <1>2, <1>5, <3>2
      <4>. QED
        BY <1>5, <2>3, <4>1
    <3>. QED
      BY <3>1, <3>2, <1>5
  <2>5. ASSUME NEW i \in 1 .. Len(left) PROVE Older(hs)[(d + n) + i] = left[i]
    <3>1. n + i \in 1 .. Len(ages) /\ (d + n) + i = d + (n + i) /\ i \in 1 .. Len(ages) - n
      BY <1>5, <1>6
    <3>. QED
      BY <1>5, <2>3, <3>1
  <2>. QED
    BY <2>1, <2>2, <2>4, <2>5 DEF EndsWith
<1>9. ASSUME NEW p \in Int, NEW most \in Nat \ {0}, Kept(p, ages, most), Len(ages) <= most
      PROVE  Kept(IF p > 0 THEN p - 1 ELSE p, left, most)
  <2>. SUFFICES ASSUME p >= 0, Len(left) >= most
                PROVE  (IF p > 0 THEN p - 1 ELSE p) >= Window - left[1]
    BY <1>5 DEF Kept
  <2>1. n = 0 /\ Len(ages) >= most /\ 1 \in 1 .. Len(left) /\ 1 \in 1 .. Len(ages)
    BY <1>2, <1>5, <1>9
  <2>2. left[1] = ages[1] + 1 /\ ages[1] \in Nat /\ ages[1] < Window
    BY <1>3, <1>6, <2>1 DEF Aged
  <2>3. p >= Window - ages[1]
    BY <2>1, <1>9 DEF Kept
  <2>. QED
    BY <2>2, <2>3, RateLimiterAssumption
<1>10. Len(left) <= Len(ages)
  BY <1>2, <1>5
<1>. QED
  BY <1>7, <1>8, <1>9, <1>10 DEF left, old

LEMMA InitLimiter == Init => LimiterInv
<1>. SUFFICES ASSUME Init PROVE LimiterInv
  OBVIOUS
<1>1. <<>> \in Seq(Nat) /\ Len(<<>>) = 0
  OBVIOUS
<1>2. Aged(<<>>) /\ EndsWith(<<>>, <<>>)
  BY <1>1 DEF Aged, EndsWith
<1>3. \A s \in Subjects : limit[s] \in Nat \ {0}
  BY RateLimiterAssumption DEF Init
<1>4. \A s \in Subjects : Kept(None, <<>>, limit[s])
  BY <1>1 DEF Kept, None
<1>. QED
  BY <1>1, <1>2, <1>3, <1>4 DEF Init, LimiterInv, None

\* Pruning leaves the admissions alone.
LEMMA DecidedKeeps ==
    ASSUME NEW hs \in [Subjects -> Seq(Nat)], NEW ages, Decided(hs),
           \A s \in Subjects : Aged(ages[s]) /\ EndsWith(hs[s], ages[s])
    PROVE  /\ hits' \in [Subjects -> Seq(Nat)]
           /\ \A s \in Subjects : EndsWith(hits'[s], ages[s])
<1>1. CASE seen' = 0
  <2>1. hits' = [s \in Subjects |-> IF Stale(hs[s]) THEN <<>> ELSE hs[s]]
    BY <1>1 DEF Decided
  <2>2. \A s \in Subjects : Stale(hs[s]) => EndsWith(<<>>, ages[s])
    BY StaleHasNone
  <2>. QED
    BY <2>1, <2>2
<1>2. CASE seen' # 0
  BY <1>2 DEF Decided
<1>. QED
  BY <1>1, <1>2

LEMMA AllowKeeps ==
    ASSUME LimiterInv, NEW s \in Subjects, Allow(s)
    PROVE  LimiterInv' /\ Len(admitted'[s]) <= limit[s]
<1>. DEFINE hs == [hits EXCEPT ![s] = Append(Live(@), 0)]
            ages == [admitted EXCEPT ![s] = Append(@, 0)]
<1>1. Aged(admitted[s]) /\ EndsWith(hits[s], admitted[s])
  BY DEF LimiterInv
<1>2. Live(hits[s]) = admitted[s] /\ Len(admitted[s]) \in Nat /\ admitted[s] \in Seq(Nat)
  BY <1>1, LiveIsWithin, LenProperties DEF Aged
<1>3. limit[s] \in Nat \ {0} /\ limit' = limit
  BY RateLimiterAssumption DEF LimiterInv, Allow, Decided
<1>4. Len(admitted[s]) < limit[s]
  BY <1>2, <1>3 DEF Allow, Full
<1>5. /\ Aged(Append(admitted[s], 0))
      /\ EndsWith(Append(Live(hits[s]), 0), Append(admitted[s], 0))
      /\ Len(Append(admitted[s], 0)) = Len(admitted[s]) + 1
  BY <1>1, AdmittedFacts
<1>6. Append(Live(hits[s]), 0) \in Seq(Nat) /\ Append(admitted[s], 0) \in Seq(Nat)
  BY <1>5 DEF EndsWith, Aged
<1>7. hs \in [Subjects -> Seq(Nat)] /\ ages \in [Subjects -> Seq(Nat)]
  BY <1>6 DEF LimiterInv
<1>8. \A r \in Subjects : Aged(ages[r]) /\ EndsWith(hs[r], ages[r])
  BY <1>5 DEF LimiterInv
<1>9. Decided(hs) /\ admitted' = ages
  BY DEF Allow
<1>10. hits' \in [Subjects -> Seq(Nat)] /\ \A r \in Subjects : EndsWith(hits'[r], ages[r])
  <2>. HIDE DEF hs, ages
  <2>. QED
    BY <1>7, <1>8, <1>9, DecidedKeeps
<1>11. \A r \in Subjects : Len(ages[r]) <= limit[r]
  BY <1>2, <1>3, <1>4, <1>5 DEF LimiterInv
<1>12. promised' = [promised EXCEPT ![s] = None]
  BY DEF Allow
<1>13. promised' \in [Subjects -> Int]
  BY <1>12 DEF LimiterInv, None
<1>14. \A r \in Subjects : Kept(promised'[r], ages[r], limit[r])
  BY <1>12 DEF LimiterInv, Kept, None
<1>. QED
  BY <1>3, <1>7, <1>8, <1>9, <1>10, <1>11, <1>13, <1>14 DEF LimiterInv

LEMMA DenyKeeps ==
    ASSUME LimiterInv, NEW s \in Subjects, Deny(s)
    PROVE  LimiterInv' /\ Len(admitted[s]) >= limit[s]
<1>. DEFINE hs == [hits EXCEPT ![s] = Live(@)]
<1>1. Aged(admitted[s]) /\ EndsWith(hits[s], admitted[s])
  BY DEF LimiterInv
<1>2. Live(hits[s]) = admitted[s] /\ Len(admitted[s]) \in Nat /\ admitted[s] \in Seq(Nat)
  BY <1>1, LiveIsWithin, LenProperties DEF Aged
<1>3. limit[s] \in Nat \ {0} /\ limit' = limit /\ admitted' = admitted
  BY RateLimiterAssumption DEF LimiterInv, Deny, Decided
<1>4. Len(admitted[s]) >= limit[s]
  BY <1>2 DEF Deny, Full
<1>5. Decided(hs) /\ hs \in [Subjects -> Seq(Nat)]
  BY <1>2 DEF Deny, LimiterInv
<1>6. \A r \in Subjects : Aged(admitted[r]) /\ EndsWith(hs[r], admitted[r])
  BY <1>1, AdmittedFacts DEF LimiterInv
<1>7. hits' \in [Subjects -> Seq(Nat)] /\ \A r \in Subjects : EndsWith(hits'[r], admitted[r])
  <2>. HIDE DEF hs
  <2>. QED
    BY <1>5, <1>6, DecidedKeeps
<1>8. /\ promised' = [promised EXCEPT ![s] = RetryAfter(admitted[s])]
      /\ RetryAfter(admitted[s]) \in Int
      /\ RetryAfter(admitted[s]) >= Window - admitted[s][1]
  <2>1. Len(admitted[s]) > 0 /\ 1 \in 1 .. Len(admitted[s])
    BY <1>2, <1>3, <1>4
  <2>2. admitted[s][1] < Window
    BY <1>1, <2>1 DEF Aged
  <2>. QED
    BY <1>2, <2>1, <2>2, RetryAfterCovers DEF Deny
<1>9. promised' \in [Subjects -> Int]
  BY <1>8 DEF LimiterInv
<1>10. \A r \in Subjects : Kept(promised'[r], admitted[r], limit[r])
  BY <1>8 DEF LimiterInv, Kept
<1>. QED
  BY <1>3, <1>4, <1>6, <1>7, <1>9, <1>10 DEF LimiterInv

LEMMA TickKeeps ==
    ASSUME LimiterInv, Tick
    PROVE  LimiterInv'
<1>1. \A s \in Subjects : /\ hits'[s] = Older(hits[s])
                          /\ admitted'[s] = Within(Older(admitted[s]))
                          /\ promised'[s] = IF promised[s] > 0 THEN promised[s] - 1
                                                               ELSE promised[s]
  BY DEF Tick
<1>2. limit' = limit /\ \A s \in Subjects : limit[s] \in Nat \ {0}
  BY RateLimiterAssumption DEF LimiterInv, Tick
<1>3. ASSUME NEW s \in Subjects
      PROVE  /\ Aged(admitted'[s]) /\ EndsWith(hits'[s], admitted'[s])
             /\ Len(admitted'[s]) <= limit[s]
             /\ Kept(promised'[s], admitted'[s], limit[s])
             /\ hits'[s] \in Seq(Nat) /\ admitted'[s] \in Seq(Nat)
  <2>1. /\ Aged(admitted[s]) /\ EndsWith(hits[s], admitted[s])
        /\ Len(admitted[s]) <= limit[s] /\ promised[s] \in Int
        /\ Kept(promised[s], admitted[s], limit[s])
    BY DEF LimiterInv
  <2>2. /\ Aged(admitted'[s]) /\ EndsWith(hits'[s], admitted'[s])
        /\ Len(admitted'[s]) <= Len(admitted[s])
        /\ Kept(promised'[s], admitted'[s], limit[s])
    BY <1>1, <1>2, <2>1, TickFacts
  <2>3. Len(admitted[s]) \in Nat /\ Len(admitted'[s]) \in Nat
    BY <2>1, <2>2, LenProperties DEF Aged
  <2>4. Len(admitted'[s]) <= limit[s]
    BY <1>2, <2>1, <2>2, <2>3
  <2>5. hits'[s] \in Seq(Nat) /\ admitted'[s] \in Seq(Nat)
    BY <2>2 DEF Aged, EndsWith
  <2>. QED
    BY <2>2, <2>4, <2>5
<1>4. /\ hits' \in [Subjects -> Seq(Nat)] /\ admitted' \in [Subjects -> Seq(Nat)]
      /\ promised' \in [Subjects -> Int]
  <2>1. \A s \in Subjects : promised'[s] \in Int
    BY <1>1 DEF LimiterInv
  <2>. QED
    BY <1>3, <2>1 DEF Tick
<1>. QED
  BY <1>2, <1>3, <1>4 DEF LimiterInv

LEMMA StepKeepsLimiter == LimiterInv /\ [Next]_vars => LimiterInv'
<1>. SUFFICES ASSUME LimiterInv, [Next]_vars PROVE LimiterInv'
  OBVIOUS
<1>1. CASE UNCHANGED vars
  BY <1>1 DEF vars, LimiterInv
<1>2. CASE Next
  BY <1>2, AllowKeeps, DenyKeeps, TickKeeps DEF Next
<1>. QED
  BY <1>1, <1>2

\* When the promise has run out, the oldest admission has left the window.
LEMMA PromiseIsKept == LimiterInv => RetryAfterKept
<1>. SUFFICES ASSUME LimiterInv, NEW s \in Subjects, promised[s] = 0
              PROVE  ~Full(s)
  BY DEF RetryAfterKept
<1>1. Aged(admitted[s]) /\ EndsWith(hits[s], admitted[s])
  BY DEF LimiterInv
<1>2. /\ Live(hits[s]) = admitted[s] /\ Len(admitted[s]) \in Nat
      /\ admitted[s] \in Seq(Nat) /\ limit[s] \in Nat \ {0}
  BY <1>1, LiveIsWithin, LenProperties, RateLimiterAssumption DEF Aged, LimiterInv
<1>3. SUFFICES ASSUME Len(admitted[s]) >= limit[s] PROVE FALSE
  BY <1>2 DEF Full
<1>4. 1 \in 1 .. Len(admitted[s])
  BY <1>2, <1>3
<1>5. 0 >= Window - admitted[s][1]
  BY <1>3 DEF LimiterInv, Kept
<1>6. admitted[s][1] < Window /\ admitted[s][1] \in Nat
  BY <1>1, <1>2, <1>4, ElementOfSeq DEF Aged
<1>. QED
  BY <1>5, <1>6, RateLimiterAssumption

-----------------------------------------------------------------------------
(***************************************************************************)
(* The limiter behind the gateway: whatever the gateway does is, for the   *)
(* limiter, one of its steps or none.                                      *)
(***************************************************************************)
LEMMA GateStepIsLimiterStep == [GateNext]_gateVars => [Next]_vars
<1>. SUFFICES ASSUME [GateNext]_gateVars PROVE [Next]_vars
  OBVIOUS
<1>1. CASE UNCHANGED gateVars
  BY <1>1 DEF gateVars
<1>2. CASE Other
  BY <1>2 DEF Other, Next
<1>3. CASE AdminPage
  BY <1>3, GatewayAssumption DEF AdminPage, Next
<1>4. CASE ProbeEnds
  BY <1>4 DEF ProbeEnds
<1>5. CASE GateTick
  BY <1>5 DEF GateTick, Next
<1>. QED
  BY <1>1, <1>2, <1>3, <1>4, <1>5 DEF GateNext

LEMMA GateKeepsLimiter == GateSpec => []LimiterInv
<1>1. GateInit => LimiterInv
  BY InitLimiter DEF GateInit
<1>2. LimiterInv /\ [GateNext]_gateVars => LimiterInv'
  BY GateStepIsLimiterStep, StepKeepsLimiter
<1>. QED
  BY <1>1, <1>2, PTL DEF GateSpec

(***************************************************************************)
(* The probes that an admin's pages have started.  The i-th youngest of    *)
(* them is no younger than the i-th youngest admission, so it has left the *)
(* window when that has.                                                   *)
(***************************************************************************)
NoYounger(starts, ages) ==
    /\ starts \in Seq(Nat)
    /\ \E d \in Nat :
         /\ Len(ages) = d + Len(starts)
         /\ \A i \in 1 .. Len(starts) : starts[i] >= ages[d + i]

StartedInv ==
    /\ started \in [Admins -> Seq(Nat)]
    /\ \A a \in Admins : NoYounger(started[a], admitted[a])

\* One more admission makes the others one older in rank; a start goes with it.
LEMMA StartFacts ==
    ASSUME NEW starts, NEW ages, Aged(ages), NoYounger(starts, ages)
    PROVE  /\ NoYounger(starts, Append(ages, 0))
           /\ NoYounger(Append(starts, 0), Append(ages, 0))
           /\ Append(starts, 0) \in Seq(Nat)
<1>. DEFINE grown == Append(ages, 0)
            begun == Append(starts, 0)
<1>1. PICK d \in Nat : /\ Len(ages) = d + Len(starts)
                       /\ \A i \in 1 .. Len(starts) : starts[i] >= ages[d + i]
  BY DEF NoYounger
<1>2. /\ starts \in Seq(Nat) /\ ages \in Seq(Nat)
      /\ Len(ages) \in Nat /\ Len(starts) \in Nat
  BY LenProperties DEF NoYounger, Aged
<1>3. /\ \A i \in 1 .. Len(ages) : ages[i] \in Nat
      /\ \A i \in 1 .. Len(starts) : starts[i] \in Nat
  BY <1>2, ElementOfSeq
<1>4. /\ grown \in Seq(Nat) /\ Len(grown) = Len(ages) + 1
      /\ \A i \in 1 .. Len(ages) : grown[i] = ages[i]
      /\ grown[Len(ages) + 1] = 0
  BY <1>2, AppendProperties
<1>5. /\ begun \in Seq(Nat) /\ Len(begun) = Len(starts) + 1
      /\ \A i \in 1 .. Len(starts) : begun[i] = starts[i]
      /\ begun[Len(starts) + 1] = 0
  BY <1>2, AppendProperties
<1>. HIDE DEF grown, begun
<1>6. NoYounger(begun, grown)
  <2>1. ASSUME NEW i \in 1 .. Len(starts) + 1
        PROVE  begun[i] >= grown[d + i]
    <3>1. CASE i = Len(starts) + 1
      <4>1. d + i = Len(ages) + 1
        BY <1>1, <1>2, <3>1
      <4>. QED
        BY <1>4, <1>5, <3>1, <4>1
    <3>2. CASE i \in 1 .. Len(starts)
      <4>1. d + i \in 1 .. Len(ages)
        BY <1>1, <1>2, <3>2
      <4>2. grown[d + i] = ages[d + i] /\ begun[i] = starts[i]
        BY <1>4, <1>5, <3>2, <4>1
      <4>. QED
        BY <1>1, <3>2, <4>2
    <3>. QED
      BY <1>2, <3>1, <3>2
  <2>2. Len(grown) = d + Len(begun)
    BY <1>1, <1>2, <1>4, <1>5
  <2>. QED
    BY <1>5, <2>1, <2>2 DEF NoYounger
<1>7. NoYounger(starts, grown)
  <2>1. ASSUME NEW i \in 1 .. Len(starts)
        PROVE  starts[i] >= grown[(d + 1) + i]
    <3>1. d + i \in 1 .. Len(ages) /\ (d + 1) + i \in 1 .. Len(ages) + 1
      BY <1>1, <1>2
    <3>2. starts[i] >= ages[d + i] /\ starts[i] \in Nat /\ ages[d + i] \in Nat
      BY <1>1, <1>3, <3>1
    <3>. DEFINE k == (d + 1) + i
    <3>3. k \in 1 .. Len(ages) + 1 /\ d + i <= k
      BY <1>2, <3>1
    <3>. HIDE DEF k
    <3>4. CASE k = Len(ages) + 1
      <4>1. grown[k] = 0
        BY <1>4, <3>4
      <4>. QED
        BY <3>2, <4>1 DEF k
    <3>5. CASE k \in 1 .. Len(ages)
      <4>1. ages[d + i] >= ages[k] /\ ages[k] \in Nat /\ grown[k] = ages[k]
        BY <1>3, <1>4, <3>1, <3>3, <3>5 DEF Aged
      <4>2. starts[i] >= grown[k]
        BY <3>2, <4>1
      <4>. QED
        BY <4>2 DEF k
    <3>6. k = Len(ages) + 1 \/ k \in 1 .. Len(ages)
      BY <1>2, <3>3
    <3>. QED
      BY <3>4, <3>5, <3>6
  <2>2. d + 1 \in Nat /\ Len(grown) = (d + 1) + Len(starts)
    BY <1>1, <1>2, <1>4
  <2>. QED
    BY <1>2, <2>1, <2>2 DEF NoYounger
<1>. QED
  BY <1>5, <1>6, <1>7 DEF grown, begun

\* A start that is still within the window has an admission there that goes with it.
LEMMA StartsTick ==
    ASSUME NEW starts, NEW ages, Aged(ages), NoYounger(starts, ages)
    PROVE  NoYounger(Within(Older(starts)), Within(Older(ages)))
<1>. DEFINE so == Older(starts)
            ao == Older(ages)
            sw == Within(so)
            aw == Within(ao)
<1>1. PICK d \in Nat : /\ Len(ages) = d + Len(starts)
                       /\ \A i \in 1 .. Len(starts) : starts[i] >= ages[d + i]
  BY DEF NoYounger
<1>2. /\ starts \in Seq(Nat) /\ ages \in Seq(Nat)
      /\ Len(ages) \in Nat /\ Len(starts) \in Nat
  BY LenProperties DEF NoYounger, Aged
<1>3. /\ \A i \in 1 .. Len(ages) : ages[i] \in Nat
      /\ \A i \in 1 .. Len(starts) : starts[i] \in Nat
  BY <1>2, ElementOfSeq
<1>4. /\ ao \in Seq(Nat) /\ Len(ao) = Len(ages)
      /\ \A i \in 1 .. Len(ages) : ao[i] = ages[i] + 1
  BY <1>2, OlderFacts DEF Aged
<1>5. /\ so \in Seq(Nat) /\ Len(so) = Len(starts)
      /\ \A i \in 1 .. Len(starts) :
           so[i] = IF starts[i] < Window THEN starts[i] + 1 ELSE starts[i]
  BY <1>2, OlderFacts
<1>. HIDE DEF so, ao
<1>6. \A i \in 1 .. Len(starts) :
        d + i \in 1 .. Len(ages) /\ so[i] \in Nat /\ ao[d + i] \in Nat
          /\ (so[i] >= ao[d + i])
  <2>. SUFFICES ASSUME NEW i \in 1 .. Len(starts)
                PROVE  /\ d + i \in 1 .. Len(ages) /\ so[i] \in Nat
                       /\ ao[d + i] \in Nat /\ so[i] >= ao[d + i]
    OBVIOUS
  <2>1. d + i \in 1 .. Len(ages)
    BY <1>1, <1>2
  <2>2. ages[d + i] < Window /\ starts[i] >= ages[d + i]
    BY <1>1, <2>1 DEF Aged
  <2>3. ao[d + i] = ages[d + i] + 1 /\ ages[d + i] \in Nat /\ starts[i] \in Nat
    BY <1>3, <1>4, <2>1
  <2>4. so[i] = IF starts[i] < Window THEN starts[i] + 1 ELSE starts[i]
    BY <1>5
  <2>. QED
    BY <2>1, <2>2, <2>3, <2>4, RateLimiterAssumption
<1>7. PICK m \in 0 .. Len(starts) :
             /\ sw \in Seq(Nat)
             /\ Len(sw) = Len(starts) - m
             /\ \A i \in 1 .. Len(starts) - m : sw[i] = so[m + i]
             /\ m < Len(starts) => so[m + 1] < Window
  BY <1>5, WithinFacts
<1>8. PICK n \in 0 .. Len(ages) :
             /\ aw \in Seq(Nat)
             /\ Len(aw) = Len(ages) - n
             /\ \A i \in 1 .. Len(ages) - n : aw[i] = ao[n + i]
             /\ \A i \in 1 .. n : ao[i] >= Window
  BY <1>4, WithinFacts
<1>. HIDE DEF sw, aw
<1>9. n <= d + m
  <2>. SUFFICES ASSUME n > d + m PROVE FALSE
    BY <1>2, <1>7, <1>8
  <2>1. m < Len(starts) /\ m + 1 \in 1 .. Len(starts) /\ d + (m + 1) \in 1 .. n
    BY <1>1, <1>2, <1>7, <1>8
  <2>2. so[m + 1] < Window /\ ao[d + (m + 1)] >= Window
    BY <1>7, <1>8, <2>1
  <2>. QED
    BY <1>6, <2>1, <2>2, RateLimiterAssumption
<1>10. PICK e \in Nat : n + e = d + m
  <2>1. (d + m) - n \in Nat /\ n + ((d + m) - n) = d + m
    BY <1>7, <1>8, <1>9
  <2>. QED
    BY <2>1
<1>11. Len(aw) = e + Len(sw)
  <2>1. Len(aw) = Len(ages) - n /\ Len(sw) = Len(starts) - m
    BY <1>7, <1>8
  <2>. DEFINE x == Len(ages)
              y == Len(starts)
  <2>2. x = d + y /\ x \in Int /\ y \in Int /\ m \in Int /\ n \in Int
    BY <1>1, <1>2
  <2>. HIDE DEF x, y
  <2>3. x - n = e + (y - m)
    BY <1>10, <2>2
  <2>. QED
    BY <2>1, <2>3 DEF x, y
<1>12. ASSUME NEW i \in 1 .. Len(sw) PROVE sw[i] >= aw[e + i]
  <2>1. i \in 1 .. Len(starts) - m /\ m + i \in 1 .. Len(starts)
    BY <1>2, <1>7
  <2>2. e + i \in 1 .. Len(ages) - n /\ n + (e + i) = d + (m + i)
    BY <1>1, <1>2, <1>7, <1>8, <1>10, <2>1
  <2>3. sw[i] = so[m + i] /\ aw[e + i] = ao[d + (m + i)]
    BY <1>7, <1>8, <2>1, <2>2
  <2>. QED
    BY <1>6, <2>1, <2>3
<1>. QED
  BY <1>7, <1>11, <1>12 DEF NoYounger, sw, aw, so, ao

LEMMA InitStarted == GateInit => StartedInv
<1>. SUFFICES ASSUME GateInit PROVE StartedInv
  OBVIOUS
<1>1. <<>> \in Seq(Nat) /\ Len(<<>>) = 0
  OBVIOUS
<1>2. NoYounger(<<>>, <<>>)
  BY <1>1 DEF NoYounger
<1>. QED
  BY <1>1, <1>2, GatewayAssumption DEF GateInit, Init, StartedInv

LEMMA StepKeepsStarted == LimiterInv /\ StartedInv /\ [GateNext]_gateVars => StartedInv'
<1>. SUFFICES ASSUME LimiterInv, StartedInv, [GateNext]_gateVars PROVE StartedInv'
  OBVIOUS
<1>1. \A a \in Admins : /\ NoYounger(started[a], admitted[a])
                        /\ Aged(admitted[a])
                        /\ a \in Subjects
  BY GatewayAssumption DEF StartedInv, LimiterInv
<1>2. ASSUME NEW s \in Subjects, Allow(s), UNCHANGED started PROVE StartedInv'
  <2>1. admitted' = [admitted EXCEPT ![s] = Append(@, 0)] /\ s \in DOMAIN admitted
    BY <1>2 DEF Allow, LimiterInv
  <2>2. \A a \in Admins : admitted'[a] = IF a = s THEN Append(admitted[a], 0) ELSE admitted[a]
    BY <1>1, <2>1 DEF LimiterInv
  <2>3. \A a \in Admins : NoYounger(started[a], admitted'[a])
    BY <1>1, <2>2, StartFacts
  <2>. QED
    BY <1>2, <2>3 DEF StartedInv
<1>3. CASE UNCHANGED gateVars \/ ProbeEnds
  BY <1>3 DEF gateVars, vars, ProbeEnds, StartedInv
<1>4. CASE Other
  <2>1. CASE \E s \in Subjects : Allow(s)
    BY <1>2, <1>4, <2>1 DEF Other
  <2>2. CASE \E s \in Subjects : Deny(s)
    BY <1>4, <2>2 DEF Other, Deny, StartedInv
  <2>. QED
    BY <1>4, <2>1, <2>2 DEF Other
<1>5. CASE AdminPage
  <2>1. PICK s \in Admins :
               /\ Allow(s)
               /\ started' = IF probes' > probes THEN [started EXCEPT ![s] = Append(@, 0)]
                                                 ELSE started
    BY <1>5 DEF AdminPage
  <2>2. CASE started' = started
    BY <1>1, <1>2, <2>1, <2>2
  <2>3. CASE started' = [started EXCEPT ![s] = Append(@, 0)]
    <3>1. admitted' = [admitted EXCEPT ![s] = Append(@, 0)]
      BY <2>1 DEF Allow
    <3>2. \A a \in Admins : /\ admitted'[a] = IF a = s THEN Append(admitted[a], 0) ELSE admitted[a]
                            /\ started'[a] = IF a = s THEN Append(started[a], 0) ELSE started[a]
      BY <1>1, <2>3, <3>1 DEF LimiterInv, StartedInv
    <3>3. \A a \in Admins : NoYounger(started'[a], admitted'[a])
      BY <1>1, <3>2, StartFacts
    <3>4. started' \in [Admins -> Seq(Nat)]
      BY <1>1, <2>3, StartFacts DEF StartedInv
    <3>. QED
      BY <3>3, <3>4 DEF StartedInv
  <2>. QED
    BY <2>1, <2>2, <2>3
<1>6. CASE GateTick
  <2>1. started' = [a \in Admins |-> Within(Older(started[a]))]
    BY <1>6 DEF GateTick
  <2>2. \A a \in Admins : admitted'[a] = Within(Older(admitted[a]))
    BY <1>1, <1>6 DEF GateTick, Tick
  <2>3. \A a \in Admins : NoYounger(started'[a], admitted'[a])
    BY <1>1, <2>1, <2>2, StartsTick
  <2>4. \A a \in Admins : started'[a] \in Seq(Nat)
    BY <2>3 DEF NoYounger
  <2>. QED
    BY <2>1, <2>3, <2>4 DEF StartedInv
<1>. QED
  BY <1>3, <1>4, <1>5, <1>6 DEF GateNext

LEMMA StartsAreFew == LimiterInv /\ StartedInv => \A a \in Admins : Len(started[a]) <= limit[a]
<1>. SUFFICES ASSUME LimiterInv, StartedInv, NEW a \in Admins
              PROVE  Len(started[a]) <= limit[a]
  OBVIOUS
<1>1. /\ NoYounger(started[a], admitted[a]) /\ Aged(admitted[a])
      /\ Len(admitted[a]) <= limit[a] /\ limit[a] \in Nat \ {0}
  BY GatewayAssumption, RateLimiterAssumption DEF StartedInv, LimiterInv
<1>2. Len(started[a]) \in Nat /\ Len(admitted[a]) \in Nat
  BY <1>1, LenProperties DEF NoYounger, Aged
<1>3. \E d \in Nat : Len(admitted[a]) = d + Len(started[a])
  BY <1>1 DEF NoYounger
<1>. QED
  BY <1>1, <1>2, <1>3

-----------------------------------------------------------------------------
(***************************************************************************)
(* The inductive invariant.  A probe is started only when there is no      *)
(* measurement within the TTL, and a measurement does not get younger; so  *)
(* no probe fails while one is shown as ready.                             *)
(***************************************************************************)
Fresh == 0 .. ProbeTTL

ProbeTypeOK ==
    /\ age \in {NotMeasured} \cup 0 .. ProbeTTL + 1
    /\ error \in BOOLEAN
    /\ running \in BOOLEAN

OneProbe == probes = IF running THEN 1 ELSE 0

ProbesOnlyWhenDue == running \/ error => age \notin Fresh

GInv == ProbeTypeOK /\ OneProbe /\ ProbesOnlyWhenDue /\ sinceGood = age

\* The boot starts one probe, and nothing has been measured.
LEMMA InitGInv == GateInit => GInv
<1>. SUFFICES ASSUME GateInit PROVE GInv
  OBVIOUS
<1>1. /\ age = NotMeasured /\ error = FALSE /\ running = TRUE /\ probes = 1
      /\ sinceGood = NotMeasured
  BY DEF GateInit, ProbeInit
<1>2. NotMeasured \notin Fresh
  BY ProbeAssumption DEF NotMeasured, Fresh
<1>3. ProbeTypeOK /\ OneProbe
  BY <1>1 DEF ProbeTypeOK, OneProbe
<1>. QED
  BY <1>1, <1>2, <1>3 DEF GInv, ProbesOnlyWhenDue

\* A page that is read starts a probe if and only if one is due.
LEMMA PageKeepsGInv ==
    ASSUME GInv, EnsureRunning, UNCHANGED sinceGood
    PROVE  /\ GInv'
           /\ running' \/ age' \in Fresh
<1>1. UNCHANGED <<age, error, sinceGood>> /\ probes \in {0, 1}
  BY DEF EnsureRunning, GInv, OneProbe
<1>2. CASE NeedsRefresh
  <2>1. age \notin Fresh
    BY <1>2, ProbeAssumption DEF NeedsRefresh, Fresh, NotMeasured
  <2>2. running' = TRUE /\ probes' = 1
    BY <1>2 DEF EnsureRunning, NeedsRefresh, GInv, OneProbe
  <2>. QED
    BY <1>1, <2>1, <2>2 DEF GInv, ProbeTypeOK, OneProbe, ProbesOnlyWhenDue, Fresh
<1>3. CASE ~NeedsRefresh
  <2>1. UNCHANGED <<running, probes>>
    BY <1>3 DEF EnsureRunning
  <2>2. running \/ age \in Fresh
    BY <1>3, ProbeAssumption DEF NeedsRefresh, Fresh, NotMeasured, GInv, ProbeTypeOK
  <2>. QED
    BY <1>1, <2>1, <2>2 DEF GInv, ProbeTypeOK, OneProbe, ProbesOnlyWhenDue, Fresh
<1>. QED
  BY <1>2, <1>3

\* The probe that ends was the only one.
LEMMA EndKeepsGInv ==
    ASSUME GInv, ProbeEnds
    PROVE  GInv'
<1>1. running /\ probes = 1
  BY DEF GInv, OneProbe, ProbeEnds, Measures, Fails, Ended
<1>2. running' = FALSE /\ probes' = 0
  BY <1>1 DEF ProbeEnds, Measures, Fails, Ended
<1>3. CASE Measures /\ sinceGood' = 0
  <2>1. age' = 0 /\ sinceGood' = 0 /\ error' = FALSE
    BY <1>3 DEF Measures
  <2>2. ProbeTypeOK'
    <3>1. 0 \in 0 .. ProbeTTL + 1
      BY ProbeAssumption
    <3>. QED
      BY <1>2, <2>1, <3>1 DEF ProbeTypeOK
  <2>3. OneProbe' /\ ProbesOnlyWhenDue'
    BY <1>2, <2>1 DEF OneProbe, ProbesOnlyWhenDue
  <2>. QED
    BY <2>1, <2>2, <2>3 DEF GInv
<1>4. CASE Fails /\ UNCHANGED sinceGood
  <2>1. age' = age /\ age \notin Fresh /\ error' = TRUE
    BY <1>1, <1>4 DEF GInv, ProbesOnlyWhenDue, Fails
  <2>. QED
    BY <1>2, <1>4, <2>1 DEF GInv, ProbeTypeOK, OneProbe, ProbesOnlyWhenDue, Fresh
<1>. QED
  BY <1>3, <1>4 DEF ProbeEnds

\* A measurement grows older.
LEMMA TickKeepsGInv ==
    ASSUME GInv, GateTick
    PROVE  GInv'
<1>1. UNCHANGED <<error, running, probes>> /\ sinceGood' = age'
  BY DEF GInv, GateTick, ProbeTick
<1>2. /\ age' \in {NotMeasured} \cup 0 .. ProbeTTL + 1
      /\ age' \in Fresh => age \in Fresh
  BY ProbeAssumption DEF GInv, ProbeTypeOK, Fresh, NotMeasured, GateTick, ProbeTick
<1>. QED
  BY <1>1, <1>2 DEF GInv, ProbeTypeOK, OneProbe, ProbesOnlyWhenDue, Fresh

\* Every step keeps the invariant.
LEMMA StepKeepsGInv == GInv /\ [GateNext]_gateVars => GInv'
<1>. SUFFICES ASSUME GInv, [GateNext]_gateVars PROVE GInv'
  OBVIOUS
<1>1. CASE UNCHANGED gateVars \/ Other
  BY <1>1 DEF gateVars, Other, probeVars, GInv, ProbeTypeOK, OneProbe, ProbesOnlyWhenDue
<1>2. CASE AdminPage
  BY <1>2, PageKeepsGInv DEF AdminPage
<1>3. CASE ProbeEnds
  BY <1>3, EndKeepsGInv
<1>4. CASE GateTick
  BY <1>4, TickKeepsGInv
<1>. QED
  BY <1>1, <1>2, <1>3, <1>4 DEF GateNext

\* What is shown right after ensure_running() is the truth about the measurement.
Honest ==
    /\ Status \in {"ready", "stale", "probing"}
    /\ Status = "ready" => sinceGood \in Fresh /\ ~error
    /\ Status # "ready" => probes = 1

LEMMA ShownIsSo == GInv /\ (running \/ age \in Fresh) => Honest
<1>. SUFFICES ASSUME GInv, running \/ age \in Fresh PROVE Honest
  OBVIOUS
<1>1. CASE age = NotMeasured
  <2>1. running /\ Status = "probing"
    BY <1>1, ProbeAssumption DEF NotMeasured, Fresh, Status
  <2>. QED
    BY <2>1 DEF GInv, OneProbe, Honest
<1>2. CASE age \in Fresh
  <2>1. ~error /\ Status = "ready"
    BY <1>2, ProbeAssumption DEF GInv, ProbesOnlyWhenDue, NotMeasured, Fresh, Status
  <2>. QED
    BY <1>2, <2>1 DEF GInv, Honest
<1>3. CASE age = ProbeTTL + 1
  <2>1. running /\ Status = "stale"
    BY <1>3, ProbeAssumption DEF NotMeasured, Fresh, Status
  <2>. QED
    BY <2>1 DEF GInv, OneProbe, Honest
<1>. QED
  BY <1>1, <1>2, <1>3, ProbeAssumption DEF GInv, ProbeTypeOK, Fresh

(***************************************************************************)
(* What the page promises, always.                                         *)
(***************************************************************************)

\* The page shows as ready only what is, and a probe is on its way otherwise.
THEOREM PageIsAlwaysHonest == GateSpec => PageIsHonest
<1>1. (GInv /\ (running \/ age \in Fresh) => Honest)'
  BY ShownIsSo, PTL
<1>2. GInv /\ AdminPage
        => /\ Status' \in {"ready", "stale", "probing"}
           /\ Status' = "ready" => sinceGood \in 0..ProbeTTL /\ ~error
           /\ Status' # "ready" => probes' = 1
  <2>. SUFFICES ASSUME GInv, AdminPage
                PROVE  Honest' /\ UNCHANGED <<sinceGood, error>>
    BY DEF Honest, Fresh
  <2>. QED
    BY <1>1, PageKeepsGInv DEF AdminPage, EnsureRunning, Fresh
<1>. QED
  BY <1>2, InitGInv, StepKeepsGInv, PTL DEF GateSpec, PageIsHonest

\* A client that waits as long as Retry-After says finds room.
THEOREM RetryAfterIsKept == GateSpec => []RetryAfterKept
  BY GateKeepsLimiter, PromiseIsKept, PTL

\* No window, wherever it starts, has more admissions than the limit.
THEOREM AlwaysWithinLimit == GateSpec => AdmitsWithinLimit
<1>1. LimiterInv => \A s \in Subjects : Allow(s) => Len(admitted'[s]) <= limit[s]
  BY AllowKeeps
<1>. QED
  BY <1>1, GateKeepsLimiter, PTL DEF AdmitsWithinLimit

\* Only admissions of the last window keep a subject out.
THEOREM DenialsAreDeserved == GateSpec => DenialDeserved
<1>1. LimiterInv => \A s \in Subjects : Deny(s) => Len(admitted[s]) >= limit[s]
  BY DenyKeeps
<1>. QED
  BY <1>1, GateKeepsLimiter, PTL DEF DenialDeserved

\* One probe at a time, and in a window no more of them than the limits let through.
THEOREM ProbesAreAlwaysBounded == GateSpec => []ProbesAreBounded
<1>1. GInv => probes = IF running THEN 1 ELSE 0
  BY DEF GInv, OneProbe
<1>2. GInv /\ LimiterInv /\ StartedInv => ProbesAreBounded
  BY <1>1, StartsAreFew DEF ProbesAreBounded
<1>. QED
  BY <1>2, InitGInv, StepKeepsGInv, InitStarted, StepKeepsStarted, GateKeepsLimiter, PTL
     DEF GateSpec
=============================================================================
