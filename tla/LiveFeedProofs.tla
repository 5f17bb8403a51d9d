---------------------------- MODULE LiveFeedProofs ----------------------------
(***************************************************************************)
(* Proofs about LiveFeed, for any units, any number of connections, and    *)
(* any room in the queues, on the wires and on the board.                  *)
(***************************************************************************)
EXTENDS LiveFeed, WellFoundedInduction, SequenceTheorems, FiniteSetTheorems, TLAPS

(***************************************************************************)
(* Induction over an interval, and the functions it defines.               *)
(***************************************************************************)

\* A set of indices that holds 0, and with each index the next, holds them all.
LEMMA IntervalInduction ==
    ASSUME NEW N \in Nat, NEW good, 0 \in good,
           \A i \in 1 .. N : i - 1 \in good => i \in good
    PROVE  0 .. N \subseteq good
<1>. DEFINE bad == (0 .. N) \ good
<1>. SUFFICES ASSUME bad # {} PROVE FALSE
  OBVIOUS
<1>1. bad \subseteq Nat
  OBVIOUS
<1>2. PICK n \in bad : \A m \in bad : ~(<<m, n>> \in OpToRel(<, Nat))
  <2>. HIDE DEF bad
  <2>. QED
    BY <1>1, NatLessThanWellFounded, WFMin
<1>3. \A m \in bad : ~(m < n)
  BY <1>1, <1>2 DEF OpToRel
<1>4. n \in 1 .. N
  <2>1. n \in 0 .. N /\ n # 0
    BY <1>2
  <2>. QED
    BY <2>1
<1>5. n - 1 \in 0 .. N /\ n - 1 < n
  BY <1>4
<1>6. n - 1 \in good
  BY <1>3, <1>5
<1>. QED
  BY <1>2, <1>4, <1>6

\* f starts at a and takes each step with the function that G has for its index.
Follows(f, N, a, G) == f[0] = a /\ \A i \in 1 .. N : f[i] = G[i][f[i - 1]]

\* A value for 0 and a function for each later index determine a function.
LEMMA StepsDefine ==
    ASSUME NEW N \in Nat, NEW S, NEW a \in S, NEW G \in [1 .. N -> [S -> S]]
    PROVE  \E f \in [0 .. N -> S] : Follows(f, N, a, G)
<1>. DEFINE Upto(k, f) == Follows(f, k, a, G)
            good == {k \in 0 .. N : \E f \in [0 .. k -> S] : Upto(k, f)}
<1>1. 0 \in good
  <2>. DEFINE f == [k \in 0 .. 0 |-> a]
  <2>1. f \in [0 .. 0 -> S] /\ f[0] = a
    OBVIOUS
  <2>2. \A i \in 1 .. 0 : FALSE
    OBVIOUS
  <2>. HIDE DEF f
  <2>3. Upto(0, f)
    BY <2>1, <2>2 DEF Follows
  <2>. QED
    BY <2>1, <2>3
<1>2. ASSUME NEW i \in 1 .. N, i - 1 \in good
      PROVE  i \in good
  <2>1. PICK f \in [0 .. (i - 1) -> S] : Upto(i - 1, f)
    BY <1>2
  <2>. DEFINE g == [k \in 0 .. i |-> IF k = i THEN G[i][f[i - 1]] ELSE f[k]]
  <2>2. f[i - 1] \in S /\ G[i] \in [S -> S]
    BY <2>1
  <2>3. g \in [0 .. i -> S]
    BY <2>1, <2>2
  <2>4. g[0] = a
    BY <2>1 DEF Follows
  <2>5. ASSUME NEW k \in 1 .. i
        PROVE  g[k] = G[k][g[k - 1]]
    BY <2>1 DEF Follows
  <2>. HIDE DEF g
  <2>6. Upto(i, g)
    BY <2>4, <2>5 DEF Follows
  <2>. QED
    BY <2>3, <2>6
<1>3. N \in good
  <2>. HIDE DEF good
  <2>1. 0 .. N \subseteq good
    BY <1>1, <1>2, IntervalInduction
  <2>. QED
    BY <2>1
<1>. QED
  BY <1>3

(***************************************************************************)
(* The sum of what the frames of a sequence tell to have been missed.      *)
(***************************************************************************)
FrameType == [unit : Units, missed : Nat]

IsSum(f, frames) ==
    /\ f \in [0 .. Len(frames) -> Nat]
    /\ f[0] = 0
    /\ \A i \in 1 .. Len(frames) : f[i] = f[i - 1] + frames[i].missed

LEMMA MissedIsSum ==
    ASSUME NEW frames \in Seq(FrameType)
    PROVE  \E f : IsSum(f, frames) /\ MissedIn(frames) = f[Len(frames)]
<1>. DEFINE N == Len(frames)
            Def(f) == f = [n \in 0 .. N |-> IF n = 0 THEN 0 ELSE f[n - 1] + frames[n].missed]
            G == [i \in 1 .. N |-> [k \in Nat |-> k + frames[i].missed]]
            sum == CHOOSE f : Def(f)
<1>1. N \in Nat /\ \A i \in 1 .. N : frames[i].missed \in Nat
  <2>1. \A i \in 1 .. N : frames[i] \in FrameType
    BY ElementOfSeq
  <2>. QED
    BY <2>1 DEF FrameType
<1>2. G \in [1 .. N -> [Nat -> Nat]]
  BY <1>1
<1>3. PICK f \in [0 .. N -> Nat] : f[0] = 0 /\ \A i \in 1 .. N : f[i] = G[i][f[i - 1]]
  <2>. HIDE DEF G, N
  <2>1. \E f \in [0 .. N -> Nat] : Follows(f, N, 0, G)
    BY <1>1, <1>2, StepsDefine
  <2>. QED
    BY <2>1 DEF Follows
<1>4. ASSUME NEW i \in 1 .. N
      PROVE  f[i] = f[i - 1] + frames[i].missed
  <2>1. f[i - 1] \in Nat
    BY <1>1, <1>3
  <2>. QED
    BY <1>3, <2>1
<1>5. Def(f)
  BY <1>1, <1>3, <1>4
<1>6. Def(sum)
  BY <1>5
<1>7. MissedIn(frames) = sum[N]
  BY DEF MissedIn
<1>. HIDE DEF sum
<1>8. sum = f
  <2>. DEFINE good == {k \in 0 .. N : sum[k] = f[k]}
  <2>1. 0 \in good
    BY <1>1, <1>3, <1>6
  <2>2. \A i \in 1 .. N : i - 1 \in good => i \in good
    BY <1>1, <1>4, <1>6
  <2>3. 0 .. N \subseteq good
    <3>. HIDE DEF good, N
    <3>. QED
      BY <1>1, <2>1, <2>2, IntervalInduction
  <2>4. sum = [k \in 0 .. N |-> sum[k]]
    BY <1>6
  <2>5. f = [k \in 0 .. N |-> f[k]]
    BY <1>3
  <2>6. \A k \in 0 .. N : sum[k] = f[k]
    BY <2>3
  <2>. HIDE DEF N
  <2>. QED
    BY <2>4, <2>5, <2>6
<1>. QED
  BY <1>3, <1>4, <1>7, <1>8 DEF IsSum

\* Two sums of a beginning that two sequences share are equal.
LEMMA SumsAgree ==
    ASSUME NEW q \in Seq(FrameType), NEW r \in Seq(FrameType), NEW f, NEW g,
           IsSum(f, q), IsSum(g, r), NEW n \in Nat, n <= Len(q), n <= Len(r),
           \A i \in 1 .. n : q[i] = r[i]
    PROVE  f[n] = g[n]
<1>. DEFINE good == {k \in 0 .. n : f[k] = g[k]}
<1>1. 0 \in good
  BY DEF IsSum
<1>2. ASSUME NEW i \in 1 .. n, i - 1 \in good
      PROVE  i \in good
  <2>1. f[i] = f[i - 1] + q[i].missed /\ g[i] = g[i - 1] + r[i].missed
    BY DEF IsSum
  <2>. QED
    BY <1>2, <2>1
<1>3. 0 .. n \subseteq good
  <2>. HIDE DEF good
  <2>. QED
    BY <1>1, <1>2, IntervalInduction
<1>. QED
  BY <1>3

LEMMA MissedType ==
    ASSUME NEW frames \in Seq(FrameType)
    PROVE  MissedIn(frames) \in Nat
BY MissedIsSum DEF IsSum

LEMMA MissedEmpty == MissedIn(<<>>) = 0
<1>1. <<>> \in Seq(FrameType) /\ Len(<<>>) = 0
  OBVIOUS
<1>. QED
  BY <1>1, MissedIsSum DEF IsSum

LEMMA MissedAppend ==
    ASSUME NEW frames \in Seq(FrameType), NEW x \in FrameType
    PROVE  MissedIn(Append(frames, x)) = MissedIn(frames) + x.missed
<1>. DEFINE more == Append(frames, x)
            n    == Len(frames)
<1>1. /\ more \in Seq(FrameType) /\ Len(more) = n + 1
      /\ \A i \in 1 .. n : more[i] = frames[i]
      /\ more[n + 1] = x /\ n \in Nat
  BY AppendProperties
<1>. HIDE DEF more
<1>2. PICK f : IsSum(f, frames) /\ MissedIn(frames) = f[n]
  BY MissedIsSum
<1>3. PICK g : IsSum(g, more) /\ MissedIn(more) = g[n + 1]
  BY <1>1, MissedIsSum
<1>4. f[n] = g[n]
  BY <1>1, <1>2, <1>3, SumsAgree
<1>5. g[n + 1] = g[n] + x.missed
  <2>1. n + 1 \in 1 .. Len(more) /\ (n + 1) - 1 = n
    BY <1>1
  <2>. HIDE DEF n
  <2>. QED
    BY <1>1, <1>3, <2>1 DEF IsSum
<1>. QED
  BY <1>2, <1>3, <1>4, <1>5 DEF more

\* The sum without the first frame.
LEMMA MissedTail ==
    ASSUME NEW frames \in Seq(FrameType), frames # <<>>
    PROVE  MissedIn(frames) = Head(frames).missed + MissedIn(Tail(frames))
<1>. DEFINE rest == Tail(frames)
            n    == Len(rest)
            h    == Head(frames).missed
<1>1. /\ rest \in Seq(FrameType) /\ Len(frames) = n + 1 /\ n \in Nat
      /\ \A i \in 1 .. n : rest[i] = frames[i + 1]
  BY HeadTailProperties
<1>. HIDE DEF rest
<1>2. h = frames[1].missed /\ h \in Nat
  <2>1. Head(frames) = frames[1] /\ Head(frames) \in FrameType
    BY HeadTailProperties
  <2>. QED
    BY <2>1 DEF FrameType
<1>. HIDE DEF h
<1>3. PICK f : IsSum(f, frames) /\ MissedIn(frames) = f[n + 1]
  BY <1>1, MissedIsSum
<1>4. PICK g : IsSum(g, rest) /\ MissedIn(rest) = g[n]
  BY <1>1, MissedIsSum
<1>. DEFINE good == {k \in 0 .. n : f[k + 1] = h + g[k]}
<1>5. 0 \in good
  <2>1. f[1] = f[0] + frames[1].missed /\ f[0] = 0 /\ g[0] = 0
    BY <1>1, <1>3, <1>4 DEF IsSum
  <2>. QED
    BY <1>1, <1>2, <2>1
<1>6. ASSUME NEW i \in 1 .. n, i - 1 \in good
      PROVE  i \in good
  <2>1. f[i + 1] = f[i] + frames[i + 1].missed
    <3>1. i + 1 \in 1 .. Len(frames) /\ (i + 1) - 1 = i
      BY <1>1
    <3>. QED
      BY <1>3, <3>1 DEF IsSum
  <2>2. g[i] = g[i - 1] + rest[i].missed /\ g[i - 1] \in Nat
    <3>1. i \in 1 .. Len(rest) /\ i - 1 \in 0 .. Len(rest)
      BY <1>1
    <3>. QED
      BY <1>4, <3>1 DEF IsSum
  <2>3. rest[i] = frames[i + 1] /\ rest[i] \in FrameType
    BY <1>1, ElementOfSeq
  <2>4. rest[i].missed \in Nat
    BY <2>3 DEF FrameType
  <2>5. f[i] = h + g[i - 1]
    BY <1>6
  <2>6. f[i + 1] = h + g[i]
    BY <1>2, <2>1, <2>2, <2>3, <2>4, <2>5
  <2>. QED
    BY <2>6
<1>7. 0 .. n \subseteq good
  <2>. HIDE DEF good, n
  <2>. QED
    BY <1>1, <1>5, <1>6, IntervalInduction
<1>8. f[n + 1] = h + g[n]
  BY <1>1, <1>7
<1>. QED
  BY <1>3, <1>4, <1>8 DEF rest, h

(***************************************************************************)
(* The items of the sequences that the steps build.                        *)
(***************************************************************************)

LEMMA ItemsOfSeq ==
    ASSUME NEW S, NEW q \in Seq(S)
    PROVE  ToSet(q) = {q[i] : i \in 1 .. Len(q)} /\ ToSet(q) \subseteq S
BY LenProperties DEF ToSet

LEMMA ItemsOfEmpty == ToSet(<<>>) = {}
BY DEF ToSet

LEMMA ItemsOfAppend ==
    ASSUME NEW S, NEW q \in Seq(S), NEW x \in S
    PROVE  ToSet(Append(q, x)) = ToSet(q) \cup {x}
<1>. DEFINE more == Append(q, x)
            n    == Len(q)
<1>1. /\ more \in Seq(S) /\ Len(more) = n + 1 /\ n \in Nat
      /\ \A i \in 1 .. n : more[i] = q[i]
      /\ more[n + 1] = x
  BY AppendProperties, LenProperties
<1>2. ToSet(q) = {q[i] : i \in 1 .. n}
  BY ItemsOfSeq
<1>. HIDE DEF more, n
<1>3. ToSet(more) = {more[i] : i \in 1 .. (n + 1)}
  BY <1>1, ItemsOfSeq
<1>4. ToSet(more) = {more[i] : i \in 1 .. n} \cup {more[n + 1]}
  BY <1>1, <1>3
<1>. QED
  BY <1>1, <1>2, <1>4 DEF more

LEMMA ItemsOfConcat ==
    ASSUME NEW S, NEW q \in Seq(S), NEW x \in S
    PROVE  <<x>> \o q \in Seq(S) /\ ToSet(<<x>> \o q) = {x} \cup ToSet(q)
<1>. DEFINE more == <<x>> \o q
            n    == Len(q)
<1>1. <<x>> \in Seq(S) /\ Len(<<x>>) = 1 /\ <<x>>[1] = x
  OBVIOUS
<1>2. /\ more \in Seq(S) /\ Len(more) = 1 + n /\ n \in Nat
      /\ \A i \in 1 .. 1 + n : more[i] = IF i <= 1 THEN x ELSE q[i - 1]
  BY <1>1, ConcatProperties, LenProperties
<1>3. ToSet(q) = {q[i] : i \in 1 .. n}
  BY ItemsOfSeq
<1>. HIDE DEF more, n
<1>4. ToSet(more) = {more[i] : i \in 1 .. 1 + n}
  BY <1>2, ItemsOfSeq
<1>5. more[1] = x /\ \A i \in 1 .. n : i + 1 \in 1 .. 1 + n /\ more[i + 1] = q[i]
  BY <1>2
<1>6. {x} \cup ToSet(q) \subseteq ToSet(more)
  BY <1>2, <1>3, <1>4, <1>5
<1>7. \A i \in 1 .. 1 + n : i = 1 \/ i - 1 \in 1 .. n
  BY <1>2
<1>8. ToSet(more) \subseteq {x} \cup ToSet(q)
  BY <1>2, <1>3, <1>4, <1>5, <1>7
<1>. QED
  BY <1>2, <1>6, <1>8 DEF more

LEMMA ItemsOfTail ==
    ASSUME NEW S, NEW q \in Seq(S), q # <<>>
    PROVE  /\ Head(q) \in S /\ Tail(q) \in Seq(S) /\ Len(q) = Len(Tail(q)) + 1
           /\ ToSet(q) = {Head(q)} \cup ToSet(Tail(q))
<1>1. /\ Head(q) \in S /\ Tail(q) \in Seq(S) /\ Len(Tail(q)) = Len(q) - 1
      /\ Len(q) \in Nat
      /\ \A i \in 1 .. Len(Tail(q)) : Tail(q)[i] = q[i + 1]
  BY HeadTailProperties, LenProperties
<1>2. Head(q) = q[1]
  OBVIOUS
<1>. DEFINE rest == Tail(q)
            n    == Len(rest)
            h    == Head(q)
<1>3. n \in Nat /\ Len(q) = n + 1
  BY <1>1, LenProperties
<1>4. ToSet(q) = {q[i] : i \in 1 .. (n + 1)} /\ ToSet(rest) = {rest[i] : i \in 1 .. n}
  BY <1>1, <1>3, ItemsOfSeq
<1>5. \A i \in 1 .. n : i + 1 \in 1 .. n + 1 /\ rest[i] = q[i + 1]
  BY <1>1, <1>3
<1>6. \A i \in 1 .. n + 1 : i = 1 \/ (i - 1 \in 1 .. n /\ rest[i - 1] = q[i])
  BY <1>3, <1>5
<1>. HIDE DEF rest, n
<1>7. ToSet(q) = {h} \cup ToSet(rest)
  BY <1>2, <1>3, <1>4, <1>5, <1>6
<1>. QED
  BY <1>1, <1>3, <1>7 DEF rest, n

\* A frame's item is on the board then.
LEMMA UnshiftShows ==
    ASSUME board \in Seq(Units), NEW u \in Units
    PROVE  /\ Unshift(u) \in Seq(Units) /\ u \in ToSet(Unshift(u))
           /\ Len(Unshift(u)) <= Len(board) \/ Len(Unshift(u)) <= BoardCap
<1>. DEFINE items == <<u>> \o board
            n     == Len(items)
<1>1. /\ items \in Seq(Units) /\ items[1] = u /\ n \in Nat /\ n >= 1
      /\ n = Len(board) + 1 /\ Len(board) \in Nat
  BY ConcatProperties, LenProperties
<1>. HIDE DEF items
<1>2. \A i \in 1 .. n : items[i] \in Units
  BY <1>1, ElementOfSeq
<1>3. CASE n > BoardCap
  <2>. DEFINE front == SubSeq(items, 1, n - 1)
  <2>1. n - 1 >= 1
    BY <1>1, <1>3, LiveFeedAssumption
  <2>2. 1 \in Int /\ n - 1 \in Int /\ \A i \in 1 .. n - 1 : items[i] \in Units
    BY <1>1, <1>2
  <2>. HIDE DEF n
  <2>3. /\ front \in Seq(Units)
        /\ Len(front) = IF 1 <= n - 1 THEN (n - 1) - 1 + 1 ELSE 0
        /\ \A i \in 1 .. (n - 1) - 1 + 1 : front[i] = items[1 + i - 1]
    BY <2>2, SubSeqProperties
  <2>. HIDE DEF front
  <2>4. 1 \in 1 .. Len(front) /\ front[1] = u
    BY <1>1, <2>1, <2>2, <2>3
  <2>5. u \in ToSet(front)
    BY <2>3, <2>4, ItemsOfSeq
  <2>6. Unshift(u) = front
    BY <1>3 DEF Unshift, Front, front, n, items
  <2>7. Len(front) <= Len(board)
    BY <1>1, <2>1, <2>3 DEF n
  <2>. QED
    BY <2>3, <2>5, <2>6, <2>7
<1>4. CASE ~(n > BoardCap)
  <2>1. Unshift(u) = items
    BY <1>4 DEF Unshift, items
  <2>2. u \in ToSet(items)
    BY <1>1, ItemsOfSeq
  <2>3. Len(items) <= BoardCap
    BY <1>1, <1>4, LiveFeedAssumption
  <2>. QED
    BY <1>1, <2>1, <2>2, <2>3
<1>. QED
  BY <1>3, <1>4

\* Whoever puts the list on the board takes nothing off it.
LEMMA SeededShows ==
    ASSUME board \in Seq(Units), NEW items \in Seq(Units)
    PROVE  /\ Seeded(items) \in Seq(Units)
           /\ ToSet(board) \cup ToSet(items) \subseteq ToSet(Seeded(items))
           /\ Len(Seeded(items)) <= Len(board) + Len(items)
<1>. DEFINE N == Len(items)
            S == Seq(Units)
            Put1(i, q) == IF items[i] \in ToSet(q) THEN q ELSE <<items[i]>> \o q
            Def(f) == f = [n \in 0 .. N |-> IF n = 0 THEN board ELSE Put1(n, f[n - 1])]
            G == [i \in 1 .. N |-> [q \in S |-> Put1(i, q)]]
            shown == CHOOSE f : Def(f)
<1>1. N \in Nat /\ \A i \in 1 .. N : items[i] \in Units
  BY LenProperties, ElementOfSeq
<1>2. \A i \in 1 .. N : \A q \in S :
        /\ Put1(i, q) \in S /\ ToSet(q) \cup {items[i]} \subseteq ToSet(Put1(i, q))
        /\ Len(Put1(i, q)) <= Len(q) + 1 /\ Len(q) \in Nat
  BY <1>1, ItemsOfConcat, LenProperties
<1>3. Seeded(items) = shown[N]
  BY DEF Seeded
<1>. HIDE DEF S, Put1
<1>4. G \in [1 .. N -> [S -> S]] /\ board \in S
  BY <1>2 DEF S
<1>5. PICK f \in [0 .. N -> S] : f[0] = board /\ \A i \in 1 .. N : f[i] = G[i][f[i - 1]]
  <2>. HIDE DEF G, N
  <2>1. \E f \in [0 .. N -> S] : Follows(f, N, board, G)
    BY <1>1, <1>4, StepsDefine
  <2>. QED
    BY <2>1 DEF Follows
<1>6. ASSUME NEW i \in 1 .. N
      PROVE  f[i] = Put1(i, f[i - 1])
  <2>1. f[i - 1] \in S
    BY <1>1, <1>5
  <2>. QED
    BY <1>5, <2>1
<1>7. Def(f)
  BY <1>1, <1>5, <1>6
<1>8. Def(shown)
  BY <1>7
<1>. HIDE DEF shown, G
<1>. DEFINE good == {k \in 0 .. N : /\ shown[k] \in S
                                    /\ ToSet(board) \subseteq ToSet(shown[k])
                                    /\ \A j \in 1 .. k : items[j] \in ToSet(shown[k])
                                    /\ Len(shown[k]) <= Len(board) + k}
<1>9. 0 \in good
  <2>1. shown[0] = board /\ Len(board) \in Nat
    BY <1>1, <1>8, LenProperties
  <2>. QED
    BY <1>1, <1>4, <2>1
<1>10. ASSUME NEW i \in 1 .. N, i - 1 \in good
       PROVE  i \in good
  <2>1. shown[i] = Put1(i, shown[i - 1])
    BY <1>1, <1>8
  <2>2. /\ shown[i] \in S
        /\ ToSet(shown[i - 1]) \cup {items[i]} \subseteq ToSet(shown[i])
    BY <1>2, <1>10, <2>1
  <2>3. \A j \in 1 .. i : j = i \/ j \in 1 .. i - 1
    OBVIOUS
  <2>4. Len(shown[i]) <= Len(board) + i
    <3>1. /\ Len(shown[i]) <= Len(shown[i - 1]) + 1
          /\ Len(shown[i - 1]) <= Len(board) + (i - 1)
          /\ Len(shown[i - 1]) \in Nat
      BY <1>2, <1>10, <2>1
    <3>2. Len(shown[i]) \in Nat /\ Len(board) \in Nat
      BY <2>2, LenProperties DEF S
    <3>. QED
      BY <3>1, <3>2
  <2>. QED
    BY <1>10, <2>2, <2>3, <2>4
<1>11. N \in good
  <2>1. 0 .. N \subseteq good
    <3>. HIDE DEF good, N
    <3>. QED
      BY <1>1, <1>9, <1>10, IntervalInduction
  <2>. QED
    BY <1>1, <2>1
<1>12. ToSet(items) = {items[i] : i \in 1 .. N}
  BY ItemsOfSeq
<1>. QED
  BY <1>3, <1>11, <1>12 DEF S

(***************************************************************************)
(* The inductive invariant: what the variables are, ...                    *)
(***************************************************************************)
Subscribers ==
    [subscribed : {TRUE}, queue : Seq(Units), dropped : Nat, hand : FrameType \cup {NoFrame},
     before : SUBSET Units, listed : BOOLEAN]

Ledgers == [frames : [Sockets -> Nat], missed : [Sockets -> Nat], evicted : SUBSET Units]

Listings ==
    [pc : {"none", "asked", "answered", "shown", "refused"}, items : Seq(Units),
     beyond : SUBSET Units]

FeedTypeOK ==
    /\ saved \subseteq Units /\ announced \subseteq saved
    /\ IsFiniteSet(saved) /\ IsFiniteSet(announced)
    /\ sub \in [Sockets -> {NoSub} \cup Subscribers]
    /\ wire \in [Sockets -> Seq(FrameType)]
    /\ sock \in [Sockets -> {"connecting", "open", "closing", "closed"}]
    /\ listing \in Listings
    /\ board \in Seq(Units)
    /\ ledger \in Ledgers

\* ... that a subscription needs an open connection, and leaves nothing on another,
Connections ==
    /\ \A s \in Subscribed : sock[s] = "open" /\ sub[s].before \subseteq announced
    /\ \A s \in Sockets \ Subscribed :
         /\ wire[s] = <<>>
         /\ sock[s] \in {"connecting", "open"} => ledger.frames[s] = 0 /\ ledger.missed[s] = 0

\* and that the current WebSocket is the only one that is alive.
OnlyTheCurrent == \A s \in Sockets : sock[s] \in {"connecting", "open"} => s = socket

\* The page loads, and has nothing.
LEMMA InitTypes == Init => FeedTypeOK /\ Connections /\ OnlyTheCurrent
<1>. SUFFICES ASSUME Init PROVE FeedTypeOK /\ Connections /\ OnlyTheCurrent
  OBVIOUS
<1>1. FeedTypeOK
  <2>1. ledger \in Ledgers
    BY DEF Init, Ledgers
  <2>2. listing \in Listings
    BY DEF Init, Listings, NoListing
  <2>3. IsFiniteSet(announced)
    BY FS_EmptySet DEF Init
  <2>. QED
    BY <2>1, <2>2, <2>3 DEF Init, FeedTypeOK
<1>2. Subscribed = {}
  BY DEF Init, Subscribed, NoSub
<1>. QED
  BY <1>1, <1>2 DEF Init, Connections, OnlyTheCurrent

LEMMA OnlySubscribersAre ==
    /\ \A q \in Subscribers : q.subscribed = TRUE /\ q # NoSub
    /\ NoSub.subscribed = FALSE
<1>1. \A q \in Subscribers : q.subscribed \in {TRUE}
  BY DEF Subscribers
<1>2. NoSub.subscribed = FALSE
  BY DEF NoSub
<1>. QED
  BY <1>1, <1>2, Zenon

\* A connection has a subscriber or none.
LEMMA SubscriberType ==
    ASSUME FeedTypeOK
    PROVE  /\ Subscribed = {s \in Sockets : sub[s] # NoSub}
           /\ \A s \in Subscribed : sub[s] \in Subscribers
<1>1. \A s \in Sockets : sub[s] = NoSub \/ sub[s] \in Subscribers
  BY DEF FeedTypeOK
<1>. QED
  BY <1>1, OnlySubscribersAre, Zenon DEF Subscribed

\* The same for the step after.
LEMMA SubscriberTypeAfter ==
    ASSUME FeedTypeOK'
    PROVE  /\ Subscribed' = {s \in Sockets : sub'[s] # NoSub}
           /\ \A s \in Subscribed' : sub'[s] \in Subscribers
<1>1. \A s \in Sockets : sub'[s] = NoSub \/ sub'[s] \in Subscribers
  BY DEF FeedTypeOK
<1>. QED
  BY <1>1, OnlySubscribersAre, Zenon DEF Subscribed

NewUnit == \E u \in Units : Save(u) \/ Broadcast(u)

\* The server's steps leave the variables what they are.
LEMMA ServerKeepsTypes ==
    ASSUME FeedTypeOK,
           NewUnit \/ \E s \in Sockets : Subscribe(s) \/ Take(s) \/ Send(s)
    PROVE  FeedTypeOK'
<1>1. ASSUME NEW u \in Units, Save(u)
      PROVE  FeedTypeOK'
  <2>1. /\ saved' = saved \cup {u}
        /\ UNCHANGED <<announced, sub, wire, sock, listing, board, ledger>>
    BY <1>1 DEF Save, client, page
  <2>2. IsFiniteSet(saved')
    BY <2>1, FS_AddElement DEF FeedTypeOK
  <2>. QED
    BY <2>1, <2>2 DEF FeedTypeOK
<1>2. ASSUME NEW u \in Units, Broadcast(u)
      PROVE  FeedTypeOK'
  <2>1. /\ announced' = announced \cup {u}
        /\ sub' = [s \in Sockets |-> IF s \in Subscribed THEN Put(sub[s], u) ELSE sub[s]]
        /\ UNCHANGED <<saved, wire, sock, listing, board, ledger>>
        /\ u \in saved
    BY <1>2 DEF Broadcast, client, page
  <2>2. IsFiniteSet(announced')
    BY <2>1, FS_AddElement DEF FeedTypeOK
  <2>3. ASSUME NEW q \in Subscribers
        PROVE  Put(q, u) \in Subscribers
    <3>1. Append(q.queue, u) \in Seq(Units)
      BY AppendProperties DEF Subscribers
    <3>2. [q EXCEPT !.queue = Append(q.queue, u)] \in Subscribers
      BY <3>1 DEF Subscribers
    <3>3. [q EXCEPT !.dropped = q.dropped + 1] \in Subscribers
      <4>1. q.dropped + 1 \in Nat
        BY DEF Subscribers
      <4>. QED
        BY <4>1 DEF Subscribers
    <3>. QED
      BY <3>2, <3>3 DEF Put
  <2>4. sub' \in [Sockets -> {NoSub} \cup Subscribers]
    BY <2>1, <2>3, SubscriberType
  <2>. QED
    BY <2>1, <2>2, <2>4 DEF FeedTypeOK
<1>3. ASSUME NEW s \in Sockets, Subscribe(s)
      PROVE  FeedTypeOK'
  <2>1. sub' = [sub EXCEPT ![s] = NewSub]
        /\ UNCHANGED <<saved, announced, wire, sock, listing, board, ledger>>
    BY <1>3 DEF Subscribe, client, page
  <2>2. announced \subseteq Units
    BY DEF FeedTypeOK
  <2>3. NewSub \in Subscribers
    BY <2>2 DEF NewSub, Subscribers
  <2>. QED
    BY <2>1, <2>3 DEF FeedTypeOK
<1>4. ASSUME NEW s \in Sockets, Take(s)
      PROVE  FeedTypeOK'
  <2>. DEFINE frame == Frame(Head(sub[s].queue), sub[s].dropped)
              after == [sub[s] EXCEPT !.queue = Tail(@), !.dropped = 0, !.hand = frame]
  <2>1. /\ s \in Subscribed /\ sub[s].queue # <<>>
        /\ sub' = [sub EXCEPT ![s] = after]
        /\ UNCHANGED <<saved, announced, wire, sock, listing, board, ledger>>
    BY <1>4 DEF Take, client, page
  <2>2. sub[s] \in Subscribers
    BY <2>1, SubscriberType
  <2>3. Head(sub[s].queue) \in Units /\ Tail(sub[s].queue) \in Seq(Units)
    BY <2>1, <2>2, HeadTailProperties DEF Subscribers
  <2>4. frame \in FrameType
    BY <2>2, <2>3 DEF Frame, FrameType, Subscribers
  <2>. HIDE DEF frame
  <2>5. after \in Subscribers
    BY <2>2, <2>3, <2>4 DEF Subscribers
  <2>. HIDE DEF after
  <2>. QED
    BY <2>1, <2>5 DEF FeedTypeOK
<1>5. ASSUME NEW s \in Sockets, Send(s)
      PROVE  FeedTypeOK'
  <2>. DEFINE after == [sub[s] EXCEPT !.hand = NoFrame]
  <2>1. /\ s \in Subscribed /\ sub[s].hand # NoFrame
        /\ wire' = [wire EXCEPT ![s] = Append(wire[s], sub[s].hand)]
        /\ sub' = [sub EXCEPT ![s] = after]
        /\ UNCHANGED <<saved, announced, sock, listing, board, ledger>>
    BY <1>5 DEF Send, client, page
  <2>2. sub[s] \in Subscribers
    BY <2>1, SubscriberType
  <2>3. sub[s].hand \in FrameType
    BY <2>1, <2>2 DEF Subscribers
  <2>4. Append(wire[s], sub[s].hand) \in Seq(FrameType)
    BY <2>3, AppendProperties DEF FeedTypeOK
  <2>5. after \in Subscribers
    BY <2>2 DEF Subscribers
  <2>. HIDE DEF after
  <2>. QED
    BY <2>1, <2>4, <2>5 DEF FeedTypeOK
<1>. QED
  BY <1>1, <1>2, <1>3, <1>4, <1>5 DEF NewUnit

\* A new connection starts a new count.
LEMMA NewConnection ==
    ASSUME FeedTypeOK, NEW s \in Sockets, Connecting(s)
    PROVE  /\ sock' \in [Sockets -> {"connecting", "open", "closing", "closed"}]
           /\ ledger' \in Ledgers /\ ledger'.evicted = ledger.evicted
           /\ ledger'.frames[s] = 0 /\ ledger'.missed[s] = 0
           /\ \A t \in Sockets \ {s} : /\ ledger'.frames[t] = ledger.frames[t]
                                       /\ ledger'.missed[t] = ledger.missed[t]
BY DEF FeedTypeOK, Ledgers, Connecting

Reconnecting == Mount \/ Timer

\* So do the steps of the page's connection.
LEMMA ConnectionKeepsTypes ==
    ASSUME FeedTypeOK,
           \/ Reconnecting
           \/ \E s \in Sockets : Opens(s) \/ Closes(s) \/ Closed(s) \/ Fails(s) \/ Drop(s)
    PROVE  FeedTypeOK'
<1>1. CASE Reconnecting
  <2>1. UNCHANGED <<saved, announced, sub, wire, listing, board>>
    BY <1>1 DEF Reconnecting, Mount, Timer, server, page
  <2>2. UNCHANGED <<sock, ledger>> \/ \E s \in Sockets : Connecting(s)
    BY <1>1 DEF Reconnecting, Mount, Timer, EnsureSocket
  <2>3. ledger' \in Ledgers /\ sock' \in [Sockets -> {"connecting", "open", "closing", "closed"}]
    BY <2>2, NewConnection DEF FeedTypeOK
  <2>. QED
    BY <2>1, <2>3 DEF FeedTypeOK
<1>2. ASSUME NEW s \in Sockets, Opens(s) \/ Drop(s)
      PROVE  FeedTypeOK'
  BY <1>2 DEF Opens, Drop, FeedTypeOK, server, page
<1>3. ASSUME NEW s \in Sockets, Closes(s) \/ Closed(s) \/ Fails(s)
      PROVE  FeedTypeOK'
  <2>1. \E state \in {"closing", "closed"} : Lost(s, state)
    BY <1>3 DEF Closes, Closed, Fails
  <2>. QED
    BY <2>1 DEF Lost, FeedTypeOK, page
<1>. QED
  BY <1>1, <1>2, <1>3

Showing ==
    \/ \E u \in Units : PushLocal(u)
    \/ \E s \in Sockets : Receive(s)
    \/ Hydrate \/ List \/ HydrateShows \/ HydrateThrows \/ HydrateRefused

\* What the server answers is a sequence of units.
LEMMA ListsAreSequences == FeedTypeOK => Lists \subseteq Seq(Units)
<1>. SUFFICES ASSUME FeedTypeOK, NEW items \in Lists PROVE items \in Seq(Units)
  OBVIOUS
<1>. DEFINE n == IF Cardinality(saved) < ListLimit THEN Cardinality(saved) ELSE ListLimit
<1>1. n \in Nat
  BY FS_CardinalityType, LiveFeedAssumption DEF FeedTypeOK
<1>2. items \in [1 .. n -> saved]
  BY DEF Lists
<1>. HIDE DEF n
<1>3. items \in [1 .. n -> Units]
  BY <1>2 DEF FeedTypeOK
<1>. QED
  BY <1>1, <1>3

\* And those of its board.
LEMMA BoardKeepsTypes ==
    ASSUME FeedTypeOK, Showing
    PROVE  FeedTypeOK'
<1>1. ASSUME NEW u \in Units, PushLocal(u)
      PROVE  FeedTypeOK'
  <2>1. /\ board' = IF Contains(board, u) THEN board ELSE <<u>> \o board
        /\ UNCHANGED <<saved, announced, sub, wire, sock, listing, ledger>>
    BY <1>1 DEF PushLocal, server, client
  <2>2. board' \in Seq(Units)
    BY <2>1, ItemsOfConcat DEF FeedTypeOK
  <2>. QED
    BY <2>1, <2>2 DEF FeedTypeOK
<1>2. ASSUME NEW s \in Sockets, Receive(s)
      PROVE  FeedTypeOK'
  <2>1. /\ wire[s] # <<>>
        /\ wire' = [wire EXCEPT ![s] = Tail(wire[s])]
        /\ board' = Unshift(Head(wire[s]).unit)
        /\ ledger' = [ledger EXCEPT !.frames[s] = @ + 1,
                                    !.missed[s] = @ + Head(wire[s]).missed,
                                    !.evicted = @ \cup (ToSet(board) \ ToSet(board'))]
        /\ UNCHANGED <<saved, announced, sub, sock, listing>>
    BY <1>2 DEF Receive, server, client
  <2>2. wire[s] \in Seq(FrameType)
    BY DEF FeedTypeOK
  <2>3. Head(wire[s]) \in FrameType /\ Tail(wire[s]) \in Seq(FrameType)
    BY <2>1, <2>2, HeadTailProperties
  <2>4. Head(wire[s]).unit \in Units /\ Head(wire[s]).missed \in Nat
    BY <2>3 DEF FrameType
  <2>5. board' \in Seq(Units)
    BY <2>1, <2>4, UnshiftShows DEF FeedTypeOK
  <2>6. ToSet(board) \subseteq Units
    BY ItemsOfSeq DEF FeedTypeOK
  <2>7. ledger' \in Ledgers
    <3>. DEFINE gone == ledger.evicted \cup (ToSet(board) \ ToSet(board'))
                told == ledger.missed[s] + Head(wire[s]).missed
    <3>1. gone \in SUBSET Units /\ told \in Nat /\ ledger.frames[s] + 1 \in Nat
      BY <2>4, <2>6 DEF FeedTypeOK, Ledgers
    <3>. HIDE DEF gone, told
    <3>2. ledger' = [ledger EXCEPT !.frames[s] = @ + 1, !.missed[s] = told, !.evicted = gone]
      BY <2>1 DEF gone, told, FeedTypeOK, Ledgers
    <3>. QED
      BY <3>1, <3>2 DEF FeedTypeOK, Ledgers
  <2>8. wire' \in [Sockets -> Seq(FrameType)]
    BY <2>1, <2>3 DEF FeedTypeOK
  <2>. QED
    BY <2>1, <2>5, <2>7, <2>8 DEF FeedTypeOK
<1>3. CASE Hydrate \/ HydrateThrows \/ HydrateRefused
  <2>1. UNCHANGED <<saved, announced, sub, wire, sock, board, ledger>>
    BY <1>3 DEF Hydrate, HydrateThrows, HydrateRefused, server, client
  <2>2. /\ NoListing \in Listings
        /\ \A pc \in {"asked", "refused"} : [listing EXCEPT !.pc = pc] \in Listings
    BY EmptySeq DEF FeedTypeOK, Listings, NoListing
  <2>3. listing' \in Listings
    BY <1>3, <2>2 DEF Hydrate, HydrateThrows, HydrateRefused
  <2>. QED
    BY <2>1, <2>3 DEF FeedTypeOK
<1>4. CASE List
  <2>1. /\ \E items \in Lists :
             listing' = [pc |-> "answered", items |-> items, beyond |-> saved \ ToSet(items)]
        /\ sub' = [s \in Sockets |-> IF s \in Subscribed THEN [sub[s] EXCEPT !.listed = TRUE]
                                                        ELSE sub[s]]
        /\ UNCHANGED <<saved, announced, wire, sock, board, ledger>>
    BY <1>4 DEF List, client
  <2>2. listing' \in Listings
    BY <2>1, ListsAreSequences DEF FeedTypeOK, Listings
  <2>3. \A q \in Subscribers : [q EXCEPT !.listed = TRUE] \in Subscribers
    BY DEF Subscribers
  <2>4. sub' \in [Sockets -> {NoSub} \cup Subscribers]
    BY <2>1, <2>3, SubscriberType
  <2>. QED
    BY <2>1, <2>2, <2>4 DEF FeedTypeOK
<1>5. CASE HydrateShows
  <2>1. /\ board' = Seeded(listing.items)
        /\ listing' = [listing EXCEPT !.pc = "shown"]
        /\ UNCHANGED <<saved, announced, sub, wire, sock, ledger>>
    BY <1>5 DEF HydrateShows, server, client
  <2>2. listing.items \in Seq(Units) /\ listing' \in Listings
    BY <2>1 DEF FeedTypeOK, Listings
  <2>3. board' \in Seq(Units)
    BY <2>1, <2>2, SeededShows DEF FeedTypeOK
  <2>. QED
    BY <2>1, <2>2, <2>3 DEF FeedTypeOK
<1>. QED
  BY <1>1, <1>2, <1>3, <1>4, <1>5 DEF Showing

LEMMA StepKeepsTypes == FeedTypeOK /\ [Next]_vars => FeedTypeOK'
<1>1. FeedTypeOK /\ UNCHANGED vars => FeedTypeOK'
  BY DEF FeedTypeOK, vars, server, client, page
<1>2. Next => \/ NewUnit \/ \E s \in Sockets : Subscribe(s) \/ Take(s) \/ Send(s)
              \/ Reconnecting
              \/ \E s \in Sockets : Opens(s) \/ Closes(s) \/ Closed(s) \/ Fails(s) \/ Drop(s)
              \/ Showing
  BY DEF Next, NewUnit, Reconnecting, Showing
<1>. QED
  BY <1>1, <1>2, ServerKeepsTypes, ConnectionKeepsTypes, BoardKeepsTypes

(***************************************************************************)
(* ... what a connection that has no subscription holds, ...               *)
(***************************************************************************)
Holds(s) ==
    /\ s \in Subscribed => sock[s] = "open" /\ sub[s].before \subseteq announced
    /\ s \notin Subscribed =>
         /\ wire[s] = <<>>
         /\ sock[s] \in {"connecting", "open"} => ledger.frames[s] = 0 /\ ledger.missed[s] = 0

\* What a step leaves alone of a connection; List only marks the subscription.
Untouched(s) ==
    /\ s \in Subscribed' <=> s \in Subscribed
    /\ s \in Subscribed => /\ sub'[s].queue = sub[s].queue /\ sub'[s].dropped = sub[s].dropped
                           /\ sub'[s].hand = sub[s].hand /\ sub'[s].before = sub[s].before
    /\ announced' = announced
    /\ wire'[s] = wire[s]
    /\ ledger'.frames[s] = ledger.frames[s] /\ ledger'.missed[s] = ledger.missed[s]

LEMMA UntouchedHolds ==
    ASSUME NEW s, Untouched(s), sock'[s] = sock[s], Holds(s)
    PROVE  Holds(s)'
BY DEF Untouched, Holds

\* The steps on one connection leave the others alone, and the page's own none.
LEMMA OthersUntouched ==
    ASSUME FeedTypeOK, FeedTypeOK', NEW s \in Sockets,
           \/ Subscribe(s) \/ Take(s) \/ Send(s) \/ Receive(s)
           \/ Closes(s) \/ Closed(s) \/ Fails(s)
    PROVE  \A t \in Sockets \ {s} : Untouched(t) /\ sub'[t] = sub[t] /\ sock'[t] = sock[t]
<1>. SUFFICES ASSUME NEW t \in Sockets \ {s}
              PROVE  Untouched(t) /\ sub'[t] = sub[t] /\ sock'[t] = sock[t]
  OBVIOUS
<1>1. sub'[t] = sub[t] /\ sock'[t] = sock[t] /\ wire'[t] = wire[t] /\ announced' = announced
  BY DEF Subscribe, Take, Send, Receive, Closes, Closed, Fails, Lost, FeedTypeOK, server, client
<1>2. /\ ledger'.frames[t] = ledger.frames[t]
      /\ ledger'.missed[t] = ledger.missed[t]
  <2>1. UNCHANGED ledger \/ Receive(s)
    BY DEF Subscribe, Take, Send, Receive, Closes, Closed, Fails, Lost
  <2>2. CASE Receive(s)
    BY <2>2 DEF Receive, FeedTypeOK, Ledgers
  <2>. QED
    BY <2>1, <2>2
<1>3. t \in Subscribed' <=> t \in Subscribed
  BY <1>1, SubscriberType, SubscriberTypeAfter
<1>. QED
  BY <1>1, <1>2, <1>3 DEF Untouched

Quiet ==
    \/ \E u \in Units : Save(u) \/ PushLocal(u)
    \/ \E s \in Sockets : Drop(s)
    \/ Hydrate \/ List \/ HydrateShows \/ HydrateThrows \/ HydrateRefused
    \/ UNCHANGED vars

LEMMA QuietUntouched ==
    ASSUME FeedTypeOK, FeedTypeOK', Quiet
    PROVE  sock' = sock /\ \A t \in Sockets : Untouched(t)
<1>1. UNCHANGED <<announced, wire, sock, ledger>>
  BY DEF Quiet, Save, PushLocal, Drop, Hydrate, List, HydrateShows, HydrateThrows,
         HydrateRefused, vars, server, client, page
<1>2. ASSUME NEW t \in Sockets
      PROVE  Untouched(t)
  <2>1. UNCHANGED sub \/ List
    BY DEF Quiet, Save, PushLocal, Drop, Hydrate, HydrateShows, HydrateThrows,
           HydrateRefused, vars, server
  <2>2. CASE UNCHANGED sub
    BY <1>1, <2>2, SubscriberType, SubscriberTypeAfter DEF Untouched
  <2>3. CASE List
    <3>1. sub'[t] = IF t \in Subscribed THEN [sub[t] EXCEPT !.listed = TRUE] ELSE sub[t]
      BY <2>3 DEF List
    <3>2. CASE t \in Subscribed
      <4>1. sub[t] \in Subscribers /\ sub'[t] = [sub[t] EXCEPT !.listed = TRUE]
        BY <3>1, <3>2, SubscriberType
      <4>2. sub'[t] \in Subscribers
        BY <4>1 DEF Subscribers
      <4>3. t \in Subscribed'
        BY <4>2, SubscriberTypeAfter, OnlySubscribersAre
      <4>. QED
        BY <1>1, <3>2, <4>1, <4>3 DEF Untouched, Subscribers
    <3>3. CASE t \notin Subscribed
      BY <1>1, <3>1, <3>3, SubscriberType, SubscriberTypeAfter DEF Untouched
    <3>. QED
      BY <3>2, <3>3
  <2>. QED
    BY <2>1, <2>2, <2>3
<1>. QED
  BY <1>1, <1>2

\* A page's new connection, or none, leaves those that exist alone.
LEMMA ReconnectingUntouched ==
    ASSUME FeedTypeOK, FeedTypeOK', \A s \in Sockets : Holds(s), Reconnecting
    PROVE  \A t \in Sockets :
             \/ Untouched(t) /\ sock'[t] = sock[t]
             \/ /\ t \notin Subscribed /\ t \notin Subscribed' /\ wire'[t] = wire[t]
                /\ ledger'.frames[t] = 0 /\ ledger'.missed[t] = 0
<1>1. UNCHANGED <<announced, sub, wire>>
  BY DEF Reconnecting, Mount, Timer, server
<1>2. Subscribed' = Subscribed
  BY <1>1 DEF Subscribed
<1>3. CASE UNCHANGED <<sock, ledger>>
  BY <1>1, <1>2, <1>3 DEF Untouched
<1>4. ASSUME NEW s \in Sockets, Connecting(s), NEW t \in Sockets
      PROVE  \/ Untouched(t) /\ sock'[t] = sock[t]
             \/ /\ t \notin Subscribed /\ t \notin Subscribed' /\ wire'[t] = wire[t]
                /\ ledger'.frames[t] = 0 /\ ledger'.missed[t] = 0
  <2>1. CASE t = s
    <3>1. sock[s] = "closed"
      BY <1>4 DEF Connecting, Free
    <3>2. s \notin Subscribed
      BY <3>1 DEF Holds
    <3>. QED
      BY <1>1, <1>2, <1>4, <2>1, <3>2, NewConnection
  <2>2. CASE t # s
    <3>1. sock'[t] = sock[t]
      BY <1>4, <2>2 DEF Connecting, FeedTypeOK
    <3>. QED
      BY <1>1, <1>2, <1>4, <2>2, <3>1, NewConnection DEF Untouched
  <2>. QED
    BY <2>1, <2>2
<1>5. UNCHANGED <<sock, ledger>> \/ \E s \in Sockets : Connecting(s)
  BY DEF Reconnecting, Mount, Timer, EnsureSocket
<1>. QED
  BY <1>3, <1>4, <1>5

LEMMA ConnectionsHold == Connections <=> \A s \in Sockets : Holds(s)
BY DEF Connections, Holds, Subscribed

LEMMA StepKeepsHolds ==
    ASSUME FeedTypeOK, FeedTypeOK', \A s \in Sockets : Holds(s), [Next]_vars
    PROVE  \A s \in Sockets : Holds(s)'
<1>1. CASE Quiet
  BY <1>1, QuietUntouched, UntouchedHolds
<1>2. CASE Reconnecting
  <2>1. ASSUME NEW t \in Sockets, t \notin Subscribed, t \notin Subscribed', wire'[t] = wire[t],
               ledger'.frames[t] = 0, ledger'.missed[t] = 0
        PROVE  Holds(t)'
    BY <2>1 DEF Holds
  <2>. QED
    BY <1>2, <2>1, ReconnectingUntouched, UntouchedHolds
<1>3. ASSUME NEW s \in Sockets,
             \/ Subscribe(s) \/ Take(s) \/ Send(s) \/ Receive(s)
             \/ Closes(s) \/ Closed(s) \/ Fails(s)
      PROVE  \A t \in Sockets : Holds(t)'
  <2>1. \A t \in Sockets \ {s} : Holds(t)'
    BY <1>3, OthersUntouched, UntouchedHolds
  <2>2. CASE Subscribe(s)
    <3>1. sub'[s] = NewSub /\ sock'[s] = "open" /\ announced' = announced
      BY <2>2 DEF Subscribe, FeedTypeOK, client
    <3>2. NewSub # NoSub /\ NewSub.before = announced
      BY DEF NewSub, NoSub
    <3>3. s \in Subscribed'
      BY <3>1, <3>2, SubscriberTypeAfter
    <3>4. Holds(s)'
      BY <3>1, <3>2, <3>3 DEF Holds
    <3>. QED
      BY <2>1, <3>4
  <2>3. CASE Take(s) \/ Send(s)
    <3>1. s \in Subscribed /\ announced' = announced /\ sock' = sock
      BY <2>3 DEF Take, Send, client
    <3>2. sub[s] \in Subscribers
      BY <3>1, SubscriberType
    <3>3. sub'[s].before = sub[s].before /\ sub'[s] # NoSub
      <4>1. CASE Take(s)
        <5>1. /\ sub'[s].before = sub[s].before /\ sub'[s].subscribed = sub[s].subscribed
          BY <3>2, <4>1 DEF Take, FeedTypeOK, Subscribers
        <5>. QED
          BY <3>2, <5>1, OnlySubscribersAre, Zenon
      <4>2. CASE Send(s)
        <5>1. /\ sub'[s].before = sub[s].before /\ sub'[s].subscribed = sub[s].subscribed
          BY <3>2, <4>2 DEF Send, FeedTypeOK, Subscribers
        <5>. QED
          BY <3>2, <5>1, OnlySubscribersAre, Zenon
      <4>. QED
        BY <2>3, <4>1, <4>2
    <3>4. s \in Subscribed'
      BY <3>3, SubscriberTypeAfter
    <3>5. Holds(s)'
      BY <3>1, <3>3, <3>4 DEF Holds
    <3>. QED
      BY <2>1, <3>5
  <2>4. CASE Receive(s)
    <3>1. s \in Subscribed /\ UNCHANGED <<sub, sock, announced>>
      BY <2>4 DEF Receive, Holds, server, client
    <3>2. s \in Subscribed'
      BY <3>1 DEF Subscribed
    <3>3. Holds(s)'
      BY <3>1, <3>2 DEF Holds
    <3>. QED
      BY <2>1, <3>3
  <2>5. CASE Closes(s) \/ Closed(s) \/ Fails(s)
    <3>1. /\ sub'[s] = NoSub /\ wire'[s] = <<>>
          /\ sock'[s] \in {"closing", "closed"}
      BY <2>5 DEF Closes, Closed, Fails, Lost, FeedTypeOK
    <3>2. s \notin Subscribed'
      BY <3>1, SubscriberTypeAfter
    <3>3. Holds(s)'
      BY <3>1, <3>2 DEF Holds
    <3>. QED
      BY <2>1, <3>3
  <2>. QED
    BY <1>3, <2>2, <2>3, <2>4, <2>5
<1>4. ASSUME NEW s \in Sockets, Opens(s)
      PROVE  \A t \in Sockets : Holds(t)'
  <2>1. /\ UNCHANGED <<announced, sub, wire, ledger>> /\ sock[s] = "connecting"
        /\ sock' = [sock EXCEPT ![s] = "open"]
    BY <1>4 DEF Opens, server
  <2>2. Subscribed' = Subscribed
    BY <2>1 DEF Subscribed
  <2>3. Holds(s)'
    BY <2>1, <2>2 DEF Holds
  <2>4. ASSUME NEW t \in Sockets \ {s}
        PROVE  Holds(t)'
    BY <2>1, <2>2 DEF Holds, FeedTypeOK
  <2>. QED
    BY <2>3, <2>4
<1>5. ASSUME NEW u \in Units, Broadcast(u), NEW t \in Sockets
      PROVE  Holds(t)'
  <2>1. /\ announced' = announced \cup {u}
        /\ sub'[t] = IF t \in Subscribed THEN Put(sub[t], u) ELSE sub[t]
        /\ UNCHANGED <<wire, sock, ledger>>
    BY <1>5 DEF Broadcast, client
  <2>2. CASE t \in Subscribed
    <3>1. sub[t] \in Subscribers
      BY <2>2, SubscriberType
    <3>2. Put(sub[t], u).before = sub[t].before /\ Put(sub[t], u).subscribed = TRUE
      BY <3>1 DEF Put, Subscribers
    <3>3. Put(sub[t], u) # NoSub
      BY <3>2, OnlySubscribersAre
    <3>4. t \in Subscribed'
      BY <2>1, <2>2, <3>3, SubscriberTypeAfter
    <3>. QED
      BY <2>1, <2>2, <3>2, <3>4 DEF Holds
  <2>3. CASE t \notin Subscribed
    BY <2>1, <2>3, SubscriberType, SubscriberTypeAfter DEF Holds
  <2>. QED
    BY <2>2, <2>3
<1>. QED
  BY <1>1, <1>2, <1>3, <1>4, <1>5 DEF Next, Quiet, Reconnecting

(***************************************************************************)
(* ... and that only the current WebSocket is alive.                       *)
(***************************************************************************)
LEMMA StepKeepsTheOnly ==
    ASSUME FeedTypeOK, OnlyTheCurrent, [Next]_vars
    PROVE  OnlyTheCurrent'
<1>1. CASE UNCHANGED <<sock, socket>>
  BY <1>1 DEF OnlyTheCurrent
<1>2. ASSUME NEW s \in Sockets, Opens(s) \/ Closes(s) \/ Closed(s) \/ Fails(s)
      PROVE  OnlyTheCurrent'
  BY <1>2 DEF Opens, Closes, Closed, Fails, Lost, OnlyTheCurrent, FeedTypeOK
<1>3. CASE Reconnecting
  <2>1. EnsureSocket
    BY <1>3 DEF Reconnecting, Mount, Timer
  <2>2. CASE socket # NoSocket /\ sock[socket] \in {"open", "connecting"}
    BY <1>1, <2>1, <2>2 DEF EnsureSocket
  <2>3. CASE ~(socket # NoSocket /\ sock[socket] \in {"open", "connecting"})
    <3>1. PICK s \in Sockets : Connecting(s)
      BY <2>1, <2>3 DEF EnsureSocket
    <3>2. \A t \in Sockets : sock[t] \notin {"open", "connecting"}
      BY <2>3, LiveFeedAssumption DEF OnlyTheCurrent
    <3>. QED
      BY <3>1, <3>2 DEF Connecting, OnlyTheCurrent, FeedTypeOK
  <2>. QED
    BY <2>2, <2>3
<1>4. CASE \/ \E u \in Units : Save(u) \/ Broadcast(u) \/ PushLocal(u)
           \/ \E s \in Sockets : Subscribe(s) \/ Take(s) \/ Send(s) \/ Receive(s) \/ Drop(s)
           \/ Hydrate \/ List \/ HydrateShows \/ HydrateThrows \/ HydrateRefused
           \/ UNCHANGED vars
  <2>1. UNCHANGED <<sock, socket>>
    BY <1>4 DEF Save, Broadcast, PushLocal, Subscribe, Take, Send, Receive, Drop, Hydrate, List,
                HydrateShows, HydrateThrows, HydrateRefused, vars, client
  <2>. QED
    BY <1>1, <2>1
<1>. QED
  BY <1>2, <1>3, <1>4 DEF Next, Reconnecting

(***************************************************************************)
(* The frames under way, at whatever stage they are.                       *)
(***************************************************************************)
Flow(w, h) == w \o (IF h = NoFrame THEN <<>> ELSE <<h>>)

LEMMA NoFrameIsNone == NoFrame \notin FrameType
BY LiveFeedAssumption DEF NoFrame, Frame, FrameType

LEMMA FlowType ==
    ASSUME NEW w \in Seq(FrameType), NEW h \in FrameType \cup {NoFrame}
    PROVE  Flow(w, h) \in Seq(FrameType)
<1>1. CASE h = NoFrame
  BY <1>1, ConcatEmptySeq DEF Flow
<1>2. CASE h # NoFrame
  <2>1. <<h>> \in Seq(FrameType)
    BY <1>2
  <2>. QED
    BY <1>2, <2>1, ConcatProperties DEF Flow
<1>. QED
  BY <1>1, <1>2

LEMMA FlowFacts ==
    ASSUME NEW w \in Seq(FrameType)
    PROVE  /\ Flow(w, NoFrame) = w
           /\ \A h \in FrameType : Flow(w, h) = Append(w, h)
<1>1. Flow(w, NoFrame) = w
  BY ConcatEmptySeq DEF Flow
<1>2. ASSUME NEW h \in FrameType
      PROVE  Flow(w, h) = Append(w, h)
  BY NoFrameIsNone, AppendIsConcat DEF Flow
<1>. QED
  BY <1>1, <1>2

\* What arrives is the head of what is under way.
LEMMA FlowReceive ==
    ASSUME NEW w \in Seq(FrameType), w # <<>>, NEW h \in FrameType \cup {NoFrame}
    PROVE  /\ Flow(w, h) # <<>>
           /\ Head(Flow(w, h)) = Head(w)
           /\ Tail(Flow(w, h)) = Flow(Tail(w), h)
<1>1. Tail(w) \in Seq(FrameType)
  BY HeadTailProperties
<1>2. CASE h = NoFrame
  BY <1>1, <1>2, FlowFacts
<1>3. CASE h # NoFrame
  <2>1. h \in FrameType
    BY <1>3
  <2>2. Flow(w, h) = Append(w, h) /\ Flow(Tail(w), h) = Append(Tail(w), h)
    BY <1>1, <2>1, FlowFacts
  <2>. QED
    BY <2>1, <2>2, HeadTailAppend, AppendProperties
<1>. QED
  BY <1>2, <1>3

(***************************************************************************)
(* What the feed of s holds for the page, and what it has told of.         *)
(***************************************************************************)
Coming(s) == {f.unit : f \in ToSet(UnderWay(s))} \cup ToSet(sub[s].queue)

Told(s) == ledger.missed[s] + MissedUnderWay(s) + sub[s].dropped

Counted(s) == ledger.frames[s] + Len(UnderWay(s)) + Len(sub[s].queue)

Since(s) == announced \ sub[s].before

Accounted(s) == Cardinality(Since(s)) = Counted(s) + Told(s)

\* The numbers are numbers.
LEMMA FlowOf ==
    ASSUME FeedTypeOK, NEW s \in Subscribed
    PROVE  /\ s \in Sockets /\ sub[s] \in Subscribers
           /\ wire[s] \in Seq(FrameType)
           /\ UnderWay(s) = Flow(wire[s], sub[s].hand)
           /\ UnderWay(s) \in Seq(FrameType) /\ Len(UnderWay(s)) \in Nat
           /\ MissedUnderWay(s) \in Nat
           /\ sub[s].queue \in Seq(Units) /\ Len(sub[s].queue) \in Nat /\ sub[s].dropped \in Nat
           /\ ledger.frames[s] \in Nat /\ ledger.missed[s] \in Nat
<1>1. s \in Sockets /\ sub[s] \in Subscribers /\ wire[s] \in Seq(FrameType)
  BY SubscriberType DEF FeedTypeOK
<1>2. sub[s].hand \in FrameType \cup {NoFrame} /\ sub[s].queue \in Seq(Units)
      /\ sub[s].dropped \in Nat
  BY <1>1 DEF Subscribers
<1>3. UnderWay(s) = Flow(wire[s], sub[s].hand)
  BY DEF UnderWay, Flow
<1>4. UnderWay(s) \in Seq(FrameType)
  BY <1>1, <1>2, <1>3, FlowType
<1>5. ledger.frames[s] \in Nat /\ ledger.missed[s] \in Nat
  BY <1>1 DEF FeedTypeOK, Ledgers
<1>. QED
  BY <1>1, <1>2, <1>3, <1>4, <1>5, MissedType, LenProperties DEF MissedUnderWay

\* So are the amounts.
LEMMA AmountType ==
    ASSUME FeedTypeOK, NEW s \in Subscribed
    PROVE  Counted(s) \in Nat /\ Told(s) \in Nat
<1>1. \A a, b, c \in Nat : a + b + c \in Nat
  OBVIOUS
<1>2. /\ ledger.frames[s] \in Nat /\ Len(UnderWay(s)) \in Nat /\ Len(sub[s].queue) \in Nat
      /\ ledger.missed[s] \in Nat /\ MissedUnderWay(s) \in Nat /\ sub[s].dropped \in Nat
  BY FlowOf
<1>. QED
  BY <1>1, <1>2 DEF Counted, Told

LEMMA OneMore ==
    \A a, b, c \in Nat : /\ (a + 1) + b + c = (a + b + c) + 1
                         /\ a + (b + 1) + c = (a + b + c) + 1
                         /\ a + b + (c + 1) = (a + b + c) + 1
OBVIOUS

\* A connection that a step leaves alone holds and has told what it did.
LEMMA UntouchedFlow ==
    ASSUME NEW s \in Subscribed, Untouched(s)
    PROVE  /\ Coming(s)' = Coming(s) /\ Since(s)' = Since(s)
           /\ Told(s)' = Told(s) /\ Counted(s)' = Counted(s)
<1>1. UnderWay(s)' = UnderWay(s) /\ MissedUnderWay(s)' = MissedUnderWay(s)
  BY DEF Untouched, UnderWay, MissedUnderWay
<1>. QED
  BY <1>1 DEF Untouched, Coming, Since, Told, Counted

\* A message in the hand of live() comes from the queue, and says what was dropped.
LEMMA TakeFlow ==
    ASSUME FeedTypeOK, NEW s \in Sockets, Take(s)
    PROVE  /\ s \in Subscribed
           /\ Coming(s)' = Coming(s) /\ Since(s)' = Since(s)
           /\ Told(s)' = Told(s) /\ Counted(s)' = Counted(s)
<1>. DEFINE q == sub[s].queue
            x == Frame(Head(q), sub[s].dropped)
            w == wire[s]
<1>1. /\ s \in Subscribed /\ sub[s].hand = NoFrame /\ q # <<>>
      /\ UNCHANGED <<announced, wire, ledger>>
  BY DEF Take
<1>2. /\ sub[s] \in Subscribers /\ w \in Seq(FrameType) /\ q \in Seq(Units)
      /\ UnderWay(s) = Flow(w, sub[s].hand)
      /\ ledger.frames[s] \in Nat /\ ledger.missed[s] \in Nat /\ sub[s].dropped \in Nat
  BY <1>1, FlowOf
<1>3. /\ sub'[s].queue = Tail(q) /\ sub'[s].dropped = 0 /\ sub'[s].hand = x
      /\ sub'[s].before = sub[s].before
  BY <1>2 DEF Take, FeedTypeOK, Subscribers
<1>4. /\ Head(q) \in Units /\ Len(q) = Len(Tail(q)) + 1 /\ ToSet(q) = {Head(q)} \cup ToSet(Tail(q))
      /\ Tail(q) \in Seq(Units)
  BY <1>1, <1>2, ItemsOfTail
<1>5. x \in FrameType /\ x.unit = Head(q) /\ x.missed = sub[s].dropped
  BY <1>2, <1>4 DEF Frame, FrameType
<1>6. UnderWay(s) = w /\ UnderWay(s)' = Append(w, x)
  <2>1. UnderWay(s)' = Flow(w, x)
    BY <1>1, <1>3 DEF UnderWay, Flow
  <2>. HIDE DEF x
  <2>. QED
    BY <1>1, <1>2, <1>5, <2>1, FlowFacts
<1>7. Len(Tail(q)) \in Nat /\ Len(w) \in Nat /\ MissedIn(w) \in Nat
  BY <1>2, <1>4, LenProperties, MissedType
<1>. HIDE DEF q, x, w
<1>8. /\ Len(Append(w, x)) = Len(w) + 1
      /\ MissedIn(Append(w, x)) = MissedIn(w) + x.missed
      /\ ToSet(Append(w, x)) = ToSet(w) \cup {x}
  BY <1>2, <1>5, AppendProperties, MissedAppend, ItemsOfAppend
<1>9. Coming(s)' = Coming(s)
  <2>1. Coming(s)' = {f.unit : f \in ToSet(w) \cup {x}} \cup ToSet(Tail(q))
    BY <1>3, <1>6, <1>8 DEF Coming
  <2>2. Coming(s) = {f.unit : f \in ToSet(w)} \cup ToSet(q)
    BY <1>6 DEF Coming, q
  <2>. QED
    BY <1>4, <1>5, <2>1, <2>2
<1>10. Told(s)' = Told(s)
  <2>1. Told(s)' = ledger.missed[s] + (MissedIn(w) + sub[s].dropped) + 0
    BY <1>1, <1>3, <1>5, <1>6, <1>8 DEF Told, MissedUnderWay
  <2>2. Told(s) = ledger.missed[s] + MissedIn(w) + sub[s].dropped
    BY <1>6 DEF Told, MissedUnderWay
  <2>. QED
    BY <1>2, <1>7, <2>1, <2>2
<1>11. Counted(s)' = Counted(s)
  <2>1. Counted(s)' = ledger.frames[s] + (Len(w) + 1) + Len(Tail(q))
    BY <1>1, <1>3, <1>6, <1>8 DEF Counted
  <2>2. Counted(s) = ledger.frames[s] + Len(w) + (Len(Tail(q)) + 1)
    BY <1>4, <1>6 DEF Counted, q
  <2>3. ledger.frames[s] \in Nat /\ Len(w) \in Nat /\ Len(Tail(q)) \in Nat
    BY <1>2, <1>7
  <2>. QED
    BY <2>1, <2>2, <2>3, OneMore
<1>. QED
  BY <1>1, <1>3, <1>9, <1>10, <1>11 DEF Since

\* From the hand to the wire a frame is under way.
LEMMA SendFlow ==
    ASSUME FeedTypeOK, NEW s \in Sockets, Send(s)
    PROVE  /\ s \in Subscribed
           /\ Coming(s)' = Coming(s) /\ Since(s)' = Since(s)
           /\ Told(s)' = Told(s) /\ Counted(s)' = Counted(s)
<1>. DEFINE h == sub[s].hand
            w == wire[s]
<1>1. /\ s \in Subscribed /\ h # NoFrame
      /\ UNCHANGED <<announced, ledger>>
  BY DEF Send
<1>2. sub[s] \in Subscribers /\ w \in Seq(FrameType) /\ UnderWay(s) = Flow(w, h)
  BY <1>1, FlowOf
<1>3. /\ sub'[s].queue = sub[s].queue /\ sub'[s].dropped = sub[s].dropped
      /\ sub'[s].hand = NoFrame /\ sub'[s].before = sub[s].before
      /\ wire'[s] = Append(w, h)
  BY <1>2 DEF Send, FeedTypeOK, Subscribers
<1>4. h \in FrameType
  BY <1>1, <1>2 DEF Subscribers
<1>5. UnderWay(s)' = Flow(Append(w, h), NoFrame)
  BY <1>3 DEF UnderWay, Flow
<1>. HIDE DEF h, w
<1>6. UnderWay(s)' = UnderWay(s)
  BY <1>2, <1>4, <1>5, FlowFacts, AppendProperties
<1>. QED
  BY <1>1, <1>3, <1>6 DEF Coming, Since, Told, Counted, MissedUnderWay

\* The page gets a frame, and what the frame tells.
LEMMA ReceiveFlow ==
    ASSUME FeedTypeOK, NEW s \in Subscribed, Receive(s)
    PROVE  /\ Coming(s) \subseteq Coming(s)' \cup ToSet(board') /\ Since(s)' = Since(s)
           /\ Told(s)' = Told(s) /\ Counted(s)' = Counted(s)
<1>. DEFINE w == wire[s]
            h == sub[s].hand
            x == Head(w)
            rest == Flow(Tail(w), h)
<1>1. /\ w # <<>> /\ UNCHANGED <<announced, sub>>
      /\ board' = Unshift(x.unit)
  BY DEF Receive, server
<1>2. /\ s \in Sockets /\ sub[s] \in Subscribers /\ w \in Seq(FrameType)
      /\ UnderWay(s) = Flow(w, h)
      /\ UnderWay(s) \in Seq(FrameType)
      /\ ledger.frames[s] \in Nat /\ ledger.missed[s] \in Nat
      /\ Len(sub[s].queue) \in Nat /\ sub[s].dropped \in Nat
  BY FlowOf
<1>3. /\ wire'[s] = Tail(w)
      /\ ledger'.frames[s] = ledger.frames[s] + 1
      /\ ledger'.missed[s] = ledger.missed[s] + x.missed
  BY <1>2 DEF Receive, FeedTypeOK, Ledgers
<1>4. h \in FrameType \cup {NoFrame}
  BY <1>2 DEF Subscribers
<1>5. UnderWay(s) # <<>> /\ Head(UnderWay(s)) = x /\ Tail(UnderWay(s)) = rest
  BY <1>1, <1>2, <1>4, FlowReceive
<1>6. UnderWay(s)' = rest
  BY <1>1, <1>3 DEF UnderWay, Flow
<1>. HIDE DEF w, h, x, rest
<1>7. /\ x \in FrameType /\ rest \in Seq(FrameType)
      /\ Len(UnderWay(s)) = Len(rest) + 1
      /\ ToSet(UnderWay(s)) = {x} \cup ToSet(rest)
      /\ MissedUnderWay(s) = x.missed + MissedIn(rest)
  BY <1>2, <1>5, ItemsOfTail, MissedTail DEF MissedUnderWay
<1>8. x.unit \in Units /\ x.missed \in Nat /\ Len(rest) \in Nat /\ MissedIn(rest) \in Nat
  BY <1>7, LenProperties, MissedType DEF FrameType
<1>9. x.unit \in ToSet(board')
  BY <1>1, <1>8, UnshiftShows DEF FeedTypeOK
<1>10. Coming(s) \subseteq Coming(s)' \cup ToSet(board')
  <2>1. Coming(s) = {f.unit : f \in {x} \cup ToSet(rest)} \cup ToSet(sub[s].queue)
    BY <1>7 DEF Coming
  <2>2. Coming(s)' = {f.unit : f \in ToSet(rest)} \cup ToSet(sub[s].queue)
    BY <1>1, <1>6 DEF Coming
  <2>. QED
    BY <1>9, <2>1, <2>2
<1>11. Told(s)' = Told(s)
  <2>1. Told(s)' = (ledger.missed[s] + x.missed) + MissedIn(rest) + sub[s].dropped
    BY <1>1, <1>3, <1>6 DEF Told, MissedUnderWay
  <2>2. Told(s) = ledger.missed[s] + (x.missed + MissedIn(rest)) + sub[s].dropped
    BY <1>7 DEF Told
  <2>. QED
    BY <1>2, <1>8, <2>1, <2>2
<1>12. Counted(s)' = Counted(s)
  <2>1. Counted(s)' = (ledger.frames[s] + 1) + Len(rest) + Len(sub[s].queue)
    BY <1>1, <1>3, <1>6 DEF Counted
  <2>2. Counted(s) = ledger.frames[s] + (Len(rest) + 1) + Len(sub[s].queue)
    BY <1>7 DEF Counted
  <2>3. ledger.frames[s] \in Nat /\ Len(rest) \in Nat /\ Len(sub[s].queue) \in Nat
    BY <1>2, <1>8
  <2>. QED
    BY <2>1, <2>2, <2>3, OneMore
<1>. QED
  BY <1>1, <1>10, <1>11, <1>12 DEF Since

\* A broadcast comes to a subscriber, or is counted among the dropped.
LEMMA BroadcastFlow ==
    ASSUME FeedTypeOK, NEW s \in Subscribed, sub[s].before \subseteq announced,
           NEW u \in Units, Broadcast(u)
    PROVE  /\ u \notin Since(s) /\ Since(s)' = Since(s) \cup {u}
           /\ \/ /\ Coming(s)' = Coming(s) \cup {u}
                 /\ Told(s)' = Told(s) /\ Counted(s)' = Counted(s) + 1
              \/ /\ Coming(s)' = Coming(s)
                 /\ Told(s)' = Told(s) + 1 /\ Counted(s)' = Counted(s)
<1>1. /\ u \notin announced /\ announced' = announced \cup {u}
      /\ UNCHANGED <<wire, ledger>>
  BY DEF Broadcast
<1>2. /\ s \in Sockets /\ sub[s] \in Subscribers /\ sub[s].queue \in Seq(Units)
      /\ Len(sub[s].queue) \in Nat /\ sub[s].dropped \in Nat
      /\ Len(UnderWay(s)) \in Nat /\ MissedUnderWay(s) \in Nat
      /\ ledger.frames[s] \in Nat /\ ledger.missed[s] \in Nat
  BY FlowOf
<1>3. sub'[s] = Put(sub[s], u)
  BY <1>2 DEF Broadcast
<1>4. sub'[s].hand = sub[s].hand /\ sub'[s].before = sub[s].before
  BY <1>2, <1>3 DEF Put, Subscribers
<1>5. UnderWay(s)' = UnderWay(s) /\ MissedUnderWay(s)' = MissedUnderWay(s)
  BY <1>1, <1>4 DEF UnderWay, MissedUnderWay
<1>6. u \notin Since(s) /\ Since(s)' = Since(s) \cup {u}
  BY <1>1, <1>4 DEF Since
<1>7. CASE Len(sub[s].queue) < QueueCap
  <2>1. sub'[s].queue = Append(sub[s].queue, u) /\ sub'[s].dropped = sub[s].dropped
    BY <1>2, <1>3, <1>7 DEF Put, Subscribers
  <2>2. /\ Len(sub'[s].queue) = Len(sub[s].queue) + 1
        /\ ToSet(sub'[s].queue) = ToSet(sub[s].queue) \cup {u}
    BY <1>2, <2>1, AppendProperties, ItemsOfAppend
  <2>3. Coming(s)' = Coming(s) \cup {u} /\ Told(s)' = Told(s)
    BY <1>1, <1>5, <2>1, <2>2 DEF Coming, Told
  <2>4. Counted(s)' = Counted(s) + 1
    <3>1. Counted(s)' = ledger.frames[s] + Len(UnderWay(s)) + (Len(sub[s].queue) + 1)
      BY <1>1, <1>5, <2>2 DEF Counted
    <3>. QED
      BY <1>2, <3>1, OneMore DEF Counted
  <2>. QED
    BY <1>6, <2>3, <2>4
<1>8. CASE ~(Len(sub[s].queue) < QueueCap)
  <2>1. sub'[s].queue = sub[s].queue /\ sub'[s].dropped = sub[s].dropped + 1
    BY <1>2, <1>3, <1>8 DEF Put, Subscribers
  <2>2. Coming(s)' = Coming(s) /\ Counted(s)' = Counted(s)
    BY <1>1, <1>5, <2>1 DEF Coming, Counted
  <2>3. Told(s)' = Told(s) + 1
    <3>1. Told(s)' = ledger.missed[s] + MissedUnderWay(s) + (sub[s].dropped + 1)
      BY <1>1, <1>5, <2>1 DEF Told
    <3>. QED
      BY <1>2, <3>1, OneMore DEF Told
  <2>. QED
    BY <1>6, <2>2, <2>3
<1>. QED
  BY <1>7, <1>8

(***************************************************************************)
(* ... and for each subscription the two accounts: of the frames, and of   *)
(* what the board lacks.                                                   *)
(***************************************************************************)
Seen == ToSet(board) \cup ledger.evicted

Listed == IF listing.pc = "answered" THEN ToSet(listing.items) ELSE {}

Beyond(s) == listing.beyond \cap sub[s].before

Lacks(s) == announced \ (Seen \cup Coming(s) \cup Listed \cup Beyond(s))

\* What the feed alone has not brought of what was announced since.
Missing(s) == Since(s) \ (Seen \cup Coming(s))

\* List or no list, the feed tells of what it has not brought; and with the list the
\* page lacks no more.
Covered(s) ==
    /\ Cardinality(Missing(s)) <= Told(s)
    /\ sub[s].listed /\ listing.pc \in {"answered", "shown"}
         => Cardinality(Lacks(s)) <= Told(s)

LInv ==
    /\ FeedTypeOK
    /\ \A s \in Sockets : Holds(s)
    /\ OnlyTheCurrent
    /\ \A s \in Subscribed : Accounted(s) /\ Covered(s)

LEMMA FiniteSets ==
    ASSUME FeedTypeOK, NEW s
    PROVE  /\ IsFiniteSet(Since(s)) /\ Cardinality(Since(s)) \in Nat
           /\ IsFiniteSet(Lacks(s)) /\ Cardinality(Lacks(s)) \in Nat
           /\ IsFiniteSet(Missing(s)) /\ Cardinality(Missing(s)) \in Nat
<1>1. /\ Since(s) \subseteq announced /\ Lacks(s) \subseteq announced
      /\ Missing(s) \subseteq announced
  BY DEF Since, Lacks, Missing
<1>2. IsFiniteSet(announced)
  BY DEF FeedTypeOK
<1>. QED
  BY <1>1, <1>2, FS_Subset, FS_CardinalityType

\* What a page has seen it has seen; only the list may be given up.
LEMMA SeenGrows ==
    ASSUME FeedTypeOK, [Next]_vars
    PROVE  Seen \subseteq Seen'
<1>1. ASSUME NEW s \in Sockets, Receive(s)
      PROVE  Seen \subseteq Seen'
  <2>1. ledger'.evicted = ledger.evicted \cup (ToSet(board) \ ToSet(board'))
    BY <1>1 DEF Receive, FeedTypeOK, Ledgers
  <2>. QED
    BY <2>1 DEF Seen
<1>2. ASSUME NEW u \in Units, PushLocal(u)
      PROVE  Seen \subseteq Seen'
  <2>1. board' = (IF Contains(board, u) THEN board ELSE <<u>> \o board) /\ ledger' = ledger
    BY <1>2 DEF PushLocal
  <2>2. ToSet(board) \subseteq ToSet(board')
    BY <2>1, ItemsOfConcat DEF FeedTypeOK
  <2>. QED
    BY <2>1, <2>2 DEF Seen
<1>3. CASE HydrateShows
  <2>1. board' = Seeded(listing.items) /\ ledger' = ledger
    BY <1>3 DEF HydrateShows
  <2>2. ToSet(board) \subseteq ToSet(board')
    BY <2>1, SeededShows DEF FeedTypeOK, Listings
  <2>. QED
    BY <2>1, <2>2 DEF Seen
<1>4. CASE Reconnecting
  <2>1. board' = board
    BY <1>4 DEF Reconnecting, Mount, Timer, page
  <2>2. ledger' = ledger \/ \E s \in Sockets : Connecting(s)
    BY <1>4 DEF Reconnecting, Mount, Timer, EnsureSocket
  <2>3. ledger'.evicted = ledger.evicted
    BY <2>2, NewConnection
  <2>. QED
    BY <2>1, <2>3 DEF Seen
<1>5. CASE \/ \E u \in Units : Save(u) \/ Broadcast(u)
           \/ \E s \in Sockets : \/ Subscribe(s) \/ Take(s) \/ Send(s) \/ Opens(s)
                                 \/ Closes(s) \/ Closed(s) \/ Fails(s) \/ Drop(s)
           \/ Hydrate \/ List \/ HydrateThrows \/ HydrateRefused
           \/ UNCHANGED vars
  <2>1. UNCHANGED <<board, ledger>>
    BY <1>5 DEF Save, Broadcast, Subscribe, Take, Send, Opens, Closes, Closed, Fails, Lost, Drop,
                Hydrate, List, HydrateThrows, HydrateRefused, vars, page
  <2>. QED
    BY <2>1 DEF Seen
<1>. QED
  BY <1>1, <1>2, <1>3, <1>4, <1>5 DEF Next, Reconnecting

\* Fewer are no more.
LEMMA Fewer ==
    ASSUME NEW S, IsFiniteSet(S), NEW T, T \subseteq S, NEW n \in Nat, Cardinality(S) <= n
    PROVE  Cardinality(T) <= n
<1>1. Cardinality(T) <= Cardinality(S) /\ Cardinality(T) \in Nat /\ Cardinality(S) \in Nat
  BY FS_Subset, FS_CardinalityType
<1>. QED
  BY <1>1

\* One more is one more at the most.
LEMMA OneMoreAtMost ==
    ASSUME NEW S, IsFiniteSet(S), NEW u, NEW T, T \subseteq S \cup {u},
           NEW n \in Nat, Cardinality(S) <= n
    PROVE  Cardinality(T) <= n + 1
<1>1. Cardinality(S) \in Nat /\ IsFiniteSet(S \cup {u})
  BY FS_CardinalityType, FS_AddElement
<1>2. Cardinality(S \cup {u}) = IF u \in S THEN Cardinality(S) ELSE Cardinality(S) + 1
  BY FS_AddElement
<1>3. Cardinality(S \cup {u}) <= n + 1
  BY <1>1, <1>2
<1>. QED
  BY <1>1, <1>3, Fewer

\* The account of frames balances, and a page is told of at least what it will lack.
LEMMA AccountsBalance ==
    ASSUME FeedTypeOK, FeedTypeOK', NEW s \in Subscribed, Accounted(s), Covered(s),
           Coming(s) \subseteq Coming(s)' \cup Seen', Seen \subseteq Seen',
           Since(s)' = Since(s), Told(s)' = Told(s), Counted(s)' = Counted(s),
           announced' = announced, listing' = listing,
           sub'[s].listed = sub[s].listed, sub'[s].before = sub[s].before
    PROVE  Accounted(s)' /\ Covered(s)'
<1>1. Lacks(s)' \subseteq Lacks(s) /\ Missing(s)' \subseteq Missing(s)
  BY DEF Lacks, Listed, Beyond, Missing
<1>2. /\ IsFiniteSet(Lacks(s)) /\ IsFiniteSet(Missing(s))
      /\ Told(s) \in Nat
  BY FiniteSets, AmountType
<1>3. Cardinality(Missing(s)') <= Told(s)'
  BY <1>1, <1>2, Fewer DEF Covered
<1>4. ASSUME sub'[s].listed, listing'.pc \in {"answered", "shown"}
      PROVE  Cardinality(Lacks(s)') <= Told(s)'
  BY <1>1, <1>2, <1>4, Fewer DEF Covered
<1>. QED
  BY <1>3, <1>4 DEF Accounted, Covered

\* A broadcast adds one to the account, and one to either side of the other.
LEMMA BroadcastBalances ==
    ASSUME FeedTypeOK, FeedTypeOK', NEW s \in Subscribed, Holds(s), Accounted(s), Covered(s),
           NEW u \in Units, Broadcast(u)
    PROVE  Accounted(s)' /\ Covered(s)'
<1>1. /\ s \in Sockets /\ sub[s] \in Subscribers
      /\ Counted(s) \in Nat /\ Told(s) \in Nat
  BY FlowOf, AmountType
<1>2. /\ u \notin Since(s) /\ Since(s)' = Since(s) \cup {u}
      /\ \/ /\ Coming(s)' = Coming(s) \cup {u}
            /\ Told(s)' = Told(s) /\ Counted(s)' = Counted(s) + 1
         \/ /\ Coming(s)' = Coming(s)
            /\ Told(s)' = Told(s) + 1 /\ Counted(s)' = Counted(s)
  BY BroadcastFlow DEF Holds
<1>3. /\ announced' = announced \cup {u} /\ UNCHANGED <<listing, board, ledger>>
      /\ sub'[s] = Put(sub[s], u)
  BY <1>1 DEF Broadcast, page
<1>4. sub'[s].listed = sub[s].listed /\ sub'[s].before = sub[s].before
  BY <1>1, <1>3 DEF Put, Subscribers
<1>5. Accounted(s)'
  <2>1. Cardinality(Since(s)') = Cardinality(Since(s)) + 1
    BY <1>2, FiniteSets, FS_AddElement
  <2>2. Cardinality(Since(s)) = Counted(s) + Told(s)
    BY DEF Accounted
  <2>3. Counted(s)' + Told(s)' = (Counted(s) + Told(s)) + 1
    BY <1>1, <1>2
  <2>. QED
    BY <2>1, <2>2, <2>3 DEF Accounted
<1>6. Listed' = Listed /\ Seen' = Seen /\ Beyond(s)' = Beyond(s)
  BY <1>3, <1>4 DEF Listed, Seen, Beyond
<1>7. IsFiniteSet(Lacks(s)) /\ IsFiniteSet(Missing(s))
  BY FiniteSets
<1>8. CASE Coming(s)' = Coming(s) \cup {u} /\ Told(s)' = Told(s)
  <2>1. Lacks(s)' \subseteq Lacks(s) /\ Missing(s)' \subseteq Missing(s)
    BY <1>2, <1>3, <1>6, <1>8 DEF Lacks, Missing
  <2>2. Cardinality(Missing(s)') <= Told(s)'
    BY <1>1, <1>7, <1>8, <2>1, Fewer DEF Covered
  <2>3. ASSUME sub'[s].listed, listing'.pc \in {"answered", "shown"}
        PROVE  Cardinality(Lacks(s)') <= Told(s)'
    BY <1>1, <1>3, <1>4, <1>7, <1>8, <2>1, <2>3, Fewer DEF Covered
  <2>. QED
    BY <1>5, <2>2, <2>3 DEF Covered
<1>9. CASE Coming(s)' = Coming(s) /\ Told(s)' = Told(s) + 1
  <2>1. Lacks(s)' \subseteq Lacks(s) \cup {u} /\ Missing(s)' \subseteq Missing(s) \cup {u}
    BY <1>2, <1>3, <1>6, <1>9 DEF Lacks, Missing
  <2>2. Cardinality(Missing(s)') <= Told(s)'
    BY <1>1, <1>7, <1>9, <2>1, OneMoreAtMost DEF Covered
  <2>3. ASSUME sub'[s].listed, listing'.pc \in {"answered", "shown"}
        PROVE  Cardinality(Lacks(s)') <= Told(s)'
    BY <1>1, <1>3, <1>4, <1>7, <1>9, <2>1, <2>3, OneMoreAtMost DEF Covered
  <2>. QED
    BY <1>5, <2>2, <2>3 DEF Covered
<1>. QED
  BY <1>2, <1>8, <1>9

\* A subscription starts with nothing to account for.
LEMMA SubscribeBalances ==
    ASSUME FeedTypeOK, FeedTypeOK', NEW s \in Sockets, Holds(s), Subscribe(s)
    PROVE  Accounted(s)' /\ Covered(s)'
<1>1. /\ s \notin Subscribed /\ sock[s] = "open"
      /\ sub'[s] = NewSub /\ UNCHANGED <<announced, wire, ledger>>
  BY DEF Subscribe, FeedTypeOK
<1>2. wire[s] = <<>> /\ ledger.frames[s] = 0 /\ ledger.missed[s] = 0
  BY <1>1 DEF Holds
<1>3. /\ NewSub.queue = <<>> /\ NewSub.dropped = 0 /\ NewSub.hand = NoFrame
      /\ NewSub.before = announced /\ NewSub.listed = FALSE
  BY DEF NewSub
<1>4. UnderWay(s)' = <<>>
  BY <1>1, <1>2, <1>3, ConcatEmptySeq, EmptySeq DEF UnderWay
<1>5. Counted(s)' = 0
  BY <1>1, <1>2, <1>3, <1>4 DEF Counted
<1>6. Told(s)' = 0
  BY <1>1, <1>2, <1>3, <1>4, MissedEmpty DEF Told, MissedUnderWay
<1>7. Since(s)' = {} /\ Missing(s)' = {}
  BY <1>1, <1>3 DEF Since, Missing
<1>. QED
  BY <1>1, <1>3, <1>5, <1>6, <1>7, FS_EmptySet DEF Accounted, Covered

\* The list is read, given up or shown: what it holds is to come, or was put there.
LEMMA ListBalances ==
    ASSUME FeedTypeOK, FeedTypeOK', NEW s \in Subscribed, Untouched(s), Accounted(s), Covered(s),
           Seen \subseteq Seen',
           List \/ HydrateShows \/ Hydrate \/ HydrateThrows \/ HydrateRefused
    PROVE  Accounted(s)' /\ Covered(s)'
<1>1. /\ Coming(s)' = Coming(s) /\ Since(s)' = Since(s)
      /\ Told(s)' = Told(s) /\ Counted(s)' = Counted(s)
  BY UntouchedFlow
<1>2. Accounted(s)'
  BY <1>1 DEF Accounted
<1>3. announced' = announced
  BY DEF Untouched
<1>4. /\ Told(s) \in Nat
      /\ IsFiniteSet(Lacks(s)) /\ IsFiniteSet(Missing(s))
  BY AmountType, FiniteSets
<1>5. Missing(s)' \subseteq Missing(s)
  BY <1>1 DEF Missing
<1>6. Cardinality(Missing(s)') <= Told(s)'
  BY <1>1, <1>4, <1>5, Fewer DEF Covered
<1>7. CASE Hydrate \/ HydrateThrows \/ HydrateRefused
  <2>1. listing'.pc \in {"none", "asked", "refused"}
    BY <1>7 DEF Hydrate, HydrateThrows, HydrateRefused, FeedTypeOK, Listings, NoListing
  <2>. QED
    BY <1>2, <1>6, <2>1 DEF Covered
<1>8. CASE List
  <2>1. PICK items \in Lists :
          listing' = [pc |-> "answered", items |-> items, beyond |-> saved \ ToSet(items)]
    BY <1>8 DEF List
  <2>2. announced \subseteq Listed' \cup listing'.beyond
    BY <2>1 DEF Listed, FeedTypeOK
  <2>3. sub'[s].before = sub[s].before
    BY DEF Untouched
  <2>4. Lacks(s)' \subseteq Missing(s)'
    BY <1>3, <2>2, <2>3 DEF Lacks, Missing, Beyond, Since
  <2>5. Cardinality(Lacks(s)') <= Told(s)'
    <3>1. Lacks(s)' \subseteq Missing(s)
      BY <1>5, <2>4
    <3>. QED
      BY <1>1, <1>4, <3>1, Fewer DEF Covered
  <2>. QED
    BY <1>2, <1>6, <2>5 DEF Covered
<1>9. CASE HydrateShows
  <2>1. /\ listing.pc = "answered" /\ board' = Seeded(listing.items)
        /\ listing'.pc = "shown" /\ listing'.beyond = listing.beyond /\ sub' = sub
    BY <1>9 DEF HydrateShows, FeedTypeOK, Listings, server
  <2>2. Listed \subseteq Seen'
    BY <2>1, SeededShows DEF Listed, Seen, FeedTypeOK, Listings
  <2>3. Lacks(s)' \subseteq Lacks(s)
    BY <1>1, <1>3, <2>1, <2>2 DEF Lacks, Beyond
  <2>4. ASSUME sub'[s].listed
        PROVE  Cardinality(Lacks(s)') <= Told(s)'
    BY <1>1, <1>4, <2>1, <2>3, <2>4, Fewer DEF Covered
  <2>. QED
    BY <1>2, <1>6, <2>4 DEF Covered
<1>. QED
  BY <1>7, <1>8, <1>9

\* Every step keeps both accounts of every subscription there is after it.
LEMMA StepKeepsAccounts ==
    ASSUME LInv, [Next]_vars, FeedTypeOK', NEW s \in Subscribed'
    PROVE  Accounted(s)' /\ Covered(s)'
<1>1. /\ FeedTypeOK /\ \A t \in Sockets : Holds(t)
      /\ \A t \in Subscribed : Accounted(t) /\ Covered(t)
      /\ Seen \subseteq Seen'
  BY SeenGrows DEF LInv
<1>2. s \in Sockets /\ sub'[s] # NoSub
  BY SubscriberTypeAfter
<1>3. ASSUME Untouched(s), sub'[s].listed = sub[s].listed, listing' = listing
      PROVE  Accounted(s)' /\ Covered(s)'
  <2>1. s \in Subscribed /\ announced' = announced /\ sub'[s].before = sub[s].before
    BY <1>3 DEF Untouched
  <2>. QED
    BY <1>1, <1>3, <2>1, UntouchedFlow, AccountsBalance
<1>4. CASE List \/ HydrateShows \/ Hydrate \/ HydrateThrows \/ HydrateRefused
  <2>1. Untouched(s)
    BY <1>1, <1>2, <1>4, QuietUntouched DEF Quiet
  <2>2. s \in Subscribed
    BY <2>1 DEF Untouched
  <2>. QED
    BY <1>1, <1>4, <2>1, <2>2, ListBalances
<1>5. CASE \/ \E u \in Units : Save(u) \/ PushLocal(u)
           \/ \E t \in Sockets : Drop(t)
           \/ UNCHANGED vars
  <2>1. UNCHANGED <<sub, listing>>
    BY <1>5 DEF Save, PushLocal, Drop, vars, server, page
  <2>2. Untouched(s)
    BY <1>1, <1>2, <1>5, QuietUntouched DEF Quiet
  <2>. QED
    BY <1>3, <2>1, <2>2
<1>6. CASE Reconnecting
  <2>1. UNCHANGED <<sub, listing>>
    BY <1>6 DEF Reconnecting, Mount, Timer, server, page
  <2>2. Untouched(s)
    BY <1>1, <1>2, <1>6, ReconnectingUntouched
  <2>. QED
    BY <1>3, <2>1, <2>2
<1>7. ASSUME NEW t \in Sockets, Opens(t)
      PROVE  Accounted(s)' /\ Covered(s)'
  <2>1. UNCHANGED <<announced, sub, wire, ledger, listing>>
    BY <1>7 DEF Opens, server, page
  <2>2. Untouched(s)
    BY <2>1 DEF Untouched, Subscribed
  <2>. QED
    BY <1>3, <2>1, <2>2
<1>8. ASSUME NEW u \in Units, Broadcast(u)
      PROVE  Accounted(s)' /\ Covered(s)'
  <2>1. s \in Subscribed
    BY <1>1, <1>2, <1>8, SubscriberType DEF Broadcast
  <2>. QED
    BY <1>1, <1>2, <1>8, <2>1, BroadcastBalances
<1>9. ASSUME NEW t \in Sockets,
             \/ Subscribe(t) \/ Take(t) \/ Send(t) \/ Receive(t)
             \/ Closes(t) \/ Closed(t) \/ Fails(t)
      PROVE  Accounted(s)' /\ Covered(s)'
  <2>1. listing' = listing
    BY <1>9 DEF Subscribe, Take, Send, Receive, Closes, Closed, Fails, Lost, page
  <2>2. CASE s # t
    <3>1. Untouched(s) /\ sub'[s] = sub[s]
      BY <1>1, <1>2, <1>9, <2>2, OthersUntouched
    <3>. QED
      BY <1>3, <2>1, <3>1
  <2>3. CASE s = t /\ Subscribe(s)
    BY <1>1, <1>2, <2>3, SubscribeBalances
  <2>4. CASE s = t /\ (Take(s) \/ Send(s))
    <3>1. /\ s \in Subscribed
          /\ Coming(s)' = Coming(s) /\ Since(s)' = Since(s)
          /\ Told(s)' = Told(s) /\ Counted(s)' = Counted(s)
      BY <1>1, <1>2, <2>4, TakeFlow, SendFlow
    <3>2. sub[s] \in Subscribers
      BY <1>1, <3>1, SubscriberType
    <3>3. /\ announced' = announced
          /\ sub'[s].listed = sub[s].listed /\ sub'[s].before = sub[s].before
      BY <1>1, <1>2, <2>4, <3>2 DEF Take, Send, FeedTypeOK, Subscribers
    <3>. QED
      BY <1>1, <2>1, <3>1, <3>3, AccountsBalance
  <2>5. CASE s = t /\ Receive(s)
    <3>1. UNCHANGED <<announced, sub>>
      BY <2>5 DEF Receive, server
    <3>2. s \in Subscribed
      BY <3>1 DEF Subscribed
    <3>3. /\ Coming(s) \subseteq Coming(s)' \cup Seen' /\ Since(s)' = Since(s)
          /\ Told(s)' = Told(s) /\ Counted(s)' = Counted(s)
      BY <1>1, <2>5, <3>2, ReceiveFlow DEF Seen
    <3>. QED
      BY <1>1, <2>1, <3>1, <3>2, <3>3, AccountsBalance
  <2>6. CASE s = t /\ (Closes(s) \/ Closed(s) \/ Fails(s))
    <3>1. sub'[s] = NoSub
      BY <1>1, <1>2, <2>6 DEF Closes, Closed, Fails, Lost, FeedTypeOK
    <3>. QED
      BY <1>2, <3>1
  <2>. QED
    BY <1>9, <2>2, <2>3, <2>4, <2>5, <2>6
<1>. QED
  BY <1>4, <1>5, <1>6, <1>7, <1>8, <1>9 DEF Next, Reconnecting

\* The invariant holds when the page loads, and every step keeps it.
LEMMA FeedInvariant == Spec => []LInv
<1>1. Init => LInv
  <2>. SUFFICES ASSUME Init PROVE LInv
    OBVIOUS
  <2>1. Subscribed = {}
    BY DEF Init, Subscribed, NoSub
  <2>. QED
    BY <2>1, InitTypes, ConnectionsHold DEF LInv
<1>2. LInv /\ [Next]_vars => LInv'
  <2>. SUFFICES ASSUME LInv, [Next]_vars PROVE LInv'
    OBVIOUS
  <2>1. FeedTypeOK'
    BY StepKeepsTypes DEF LInv
  <2>2. \A s \in Sockets : Holds(s)'
    BY <2>1, StepKeepsHolds DEF LInv
  <2>3. OnlyTheCurrent'
    BY StepKeepsTheOnly DEF LInv
  <2>4. \A s \in Subscribed' : Accounted(s)' /\ Covered(s)'
    BY <2>1, StepKeepsAccounts
  <2>. QED
    BY <2>1, <2>2, <2>3, <2>4 DEF LInv
<1>. QED
  BY <1>1, <1>2, PTL DEF Spec

(***************************************************************************)
(* What the feed promises, always.                                         *)
(***************************************************************************)

\* ensureSocket() keeps one WebSocket for the whole page.
THEOREM AlwaysOneFeed == Spec => []OneFeed
<1>1. LInv => OneFeed
  <2>. SUFFICES ASSUME LInv PROVE OneFeed
    OBVIOUS
  <2>. DEFINE live == {s \in Sockets : sock[s] \in {"connecting", "open"}}
  <2>1. live \in SUBSET {socket}
    BY DEF LInv, OnlyTheCurrent
  <2>2. IsFiniteSet({socket}) /\ Cardinality({socket}) = 1
    BY FS_Singleton
  <2>. HIDE DEF live
  <2>3. Cardinality(live) <= 1
    BY <2>1, <2>2, FS_Subset
  <2>. QED
    BY <2>3 DEF OneFeed, live
<1>. QED
  BY <1>1, FeedInvariant, PTL

\* No frame is lost in silence, and none is counted twice.
THEOREM FramesAlwaysAccounted == Spec => []FramesAccounted
<1>1. LInv => FramesAccounted
  <2>. SUFFICES ASSUME LInv, NEW s \in Subscribed
                PROVE  Cardinality(announced \ sub[s].before) =
                         ledger.frames[s] + ledger.missed[s]
                         + Len(UnderWay(s)) + MissedUnderWay(s)
                         + Len(sub[s].queue) + sub[s].dropped
    BY DEF FramesAccounted
  <2>. DEFINE f == ledger.frames[s]
              x == ledger.missed[s]
              n == Len(UnderWay(s))
              m == MissedUnderWay(s)
              q == Len(sub[s].queue)
              d == sub[s].dropped
  <2>1. f \in Nat /\ x \in Nat /\ n \in Nat /\ m \in Nat /\ q \in Nat /\ d \in Nat
    BY FlowOf DEF LInv
  <2>2. Cardinality(announced \ sub[s].before) = (f + n + q) + (x + m + d)
    BY DEF LInv, Accounted, Counted, Told, Since
  <2>. HIDE DEF f, x, n, m, q, d
  <2>3. (f + n + q) + (x + m + d) = f + x + n + m + q + d
    BY <2>1
  <2>. QED
    BY <2>2, <2>3 DEF f, x, n, m, q, d
<1>. QED
  BY <1>1, FeedInvariant, PTL

\* However the list, the frames and the page's own responses overtake each other, the
\* board lacks no more units than the page is told of, but for those that the list
\* left out and that were announced before the page subscribed.
THEOREM BoardAlwaysLacksOnlyWhatWasDropped == Spec => []BoardLacksOnlyWhatWasDropped
<1>1. LInv => BoardLacksOnlyWhatWasDropped
  <2>. SUFFICES ASSUME LInv, NEW s \in Subscribed, sub[s].listed,
                       listing.pc \in {"answered", "shown"}
                PROVE  Cardinality(announced \ (ToSet(board) \cup ledger.evicted \cup ToCome(s)
                                                  \cup (listing.beyond \cap sub[s].before)))
                         <= ledger.missed[s] + MissedUnderWay(s) + sub[s].dropped
    BY DEF BoardLacksOnlyWhatWasDropped
  <2>1. Cardinality(Lacks(s)) <= Told(s)
    BY DEF LInv, Covered
  <2>2. Lacks(s) = announced \ (ToSet(board) \cup ledger.evicted \cup ToCome(s)
                                  \cup (listing.beyond \cap sub[s].before))
    BY DEF Lacks, Seen, Coming, Listed, Beyond, ToCome
  <2>. QED
    BY <2>1, <2>2 DEF Told
<1>. QED
  BY <1>1, FeedInvariant, PTL

(***************************************************************************)
(* The limits, of which the accounts know nothing.                         *)
(***************************************************************************)
QueueFits(q) == Len(q.queue) <= QueueCap /\ (q.dropped > 0 => Len(q.queue) = QueueCap)

PageTypeOK ==
    /\ fires \in [Sockets -> 0 .. 2] /\ timers \in Nat
    /\ socket \in Sockets \cup {NoSocket} /\ connected \in BOOLEAN
    /\ pushed \subseteq Own /\ IsFiniteSet(pushed)

BoardFits ==
    Len(board) <= BoardCap + Cardinality(pushed)
                    + (IF listing.pc = "shown" THEN Len(listing.items) ELSE 0)

Limits ==
    /\ \A s \in Subscribed : QueueFits(sub[s])
    /\ \A s \in Sockets : Len(wire[s]) <= WireCap
    /\ PageTypeOK
    /\ BoardFits

LEMMA StepKeepsQueues ==
    ASSUME FeedTypeOK, FeedTypeOK', [Next]_vars, \A s \in Subscribed : QueueFits(sub[s]),
           NEW s \in Subscribed'
    PROVE  QueueFits(sub'[s])
<1>1. s \in Sockets /\ sub'[s] # NoSub
  BY SubscriberTypeAfter
<1>2. CASE sub'[s] = sub[s]
  <2>1. s \in Subscribed
    BY <1>1, <1>2, SubscriberType
  <2>. QED
    BY <1>2, <2>1
<1>3. CASE List
  <2>1. sub'[s] = IF s \in Subscribed THEN [sub[s] EXCEPT !.listed = TRUE] ELSE sub[s]
    BY <1>1, <1>3 DEF List
  <2>2. s \in Subscribed
    BY <1>1, <2>1, SubscriberType
  <2>3. sub[s] \in Subscribers /\ QueueFits(sub[s])
    BY <2>2, SubscriberType
  <2>. QED
    BY <2>1, <2>2, <2>3 DEF QueueFits, Subscribers
<1>4. ASSUME NEW u \in Units, Broadcast(u)
      PROVE  QueueFits(sub'[s])
  <2>1. sub'[s] = IF s \in Subscribed THEN Put(sub[s], u) ELSE sub[s]
    BY <1>1, <1>4 DEF Broadcast
  <2>2. s \in Subscribed
    BY <1>1, <2>1, SubscriberType
  <2>3. sub[s] \in Subscribers /\ QueueFits(sub[s])
    BY <2>2, SubscriberType
  <2>. DEFINE q == sub[s]
  <2>4. q.queue \in Seq(Units) /\ Len(q.queue) \in Nat /\ q.dropped \in Nat
    BY <2>3, LenProperties DEF Subscribers
  <2>5. Len(Append(q.queue, u)) = Len(q.queue) + 1
    BY <2>4, AppendProperties
  <2>6. CASE Len(q.queue) < QueueCap
    <3>1. Put(q, u).queue = Append(q.queue, u) /\ Put(q, u).dropped = q.dropped
      BY <2>3, <2>6 DEF Put, Subscribers
    <3>. QED
      BY <2>1, <2>2, <2>3, <2>4, <2>5, <2>6, <3>1, LiveFeedAssumption DEF QueueFits
  <2>7. CASE ~(Len(q.queue) < QueueCap)
    <3>1. Put(q, u).queue = q.queue
      BY <2>3, <2>7 DEF Put, Subscribers
    <3>. QED
      BY <2>1, <2>2, <2>3, <2>4, <2>7, <3>1, LiveFeedAssumption DEF QueueFits
  <2>. QED
    BY <2>6, <2>7
<1>5. ASSUME NEW t \in Sockets,
             \/ Subscribe(t) \/ Take(t) \/ Send(t)
             \/ Closes(t) \/ Closed(t) \/ Fails(t)
      PROVE  QueueFits(sub'[s])
  <2>1. CASE s # t
    BY <1>1, <1>2, <1>5, <2>1, OthersUntouched
  <2>2. CASE s = t /\ Subscribe(s)
    <3>1. sub'[s] = NewSub
      BY <1>1, <2>2 DEF Subscribe, FeedTypeOK
    <3>2. NewSub.queue = <<>> /\ NewSub.dropped = 0 /\ Len(<<>>) = 0
      BY EmptySeq DEF NewSub
    <3>. QED
      BY <3>1, <3>2, LiveFeedAssumption DEF QueueFits
  <2>3. CASE s = t /\ Take(s)
    <3>1. s \in Subscribed /\ sub[s].queue # <<>>
      BY <2>3 DEF Take
    <3>2. sub[s] \in Subscribers /\ sub[s].queue \in Seq(Units) /\ QueueFits(sub[s])
      BY <3>1, SubscriberType DEF Subscribers
    <3>3. sub'[s].queue = Tail(sub[s].queue) /\ sub'[s].dropped = 0
      BY <1>1, <2>3, <3>2 DEF Take, FeedTypeOK, Subscribers
    <3>4. /\ Len(Tail(sub[s].queue)) = Len(sub[s].queue) - 1
          /\ Len(sub[s].queue) \in Nat
      BY <3>1, <3>2, HeadTailProperties, LenProperties
    <3>. QED
      BY <3>2, <3>3, <3>4, LiveFeedAssumption DEF QueueFits
  <2>4. CASE s = t /\ Send(s)
    <3>1. s \in Subscribed
      BY <2>4 DEF Send
    <3>2. sub[s] \in Subscribers /\ QueueFits(sub[s])
      BY <3>1, SubscriberType
    <3>3. sub'[s].queue = sub[s].queue /\ sub'[s].dropped = sub[s].dropped
      BY <1>1, <2>4, <3>2 DEF Send, FeedTypeOK, Subscribers
    <3>. QED
      BY <3>2, <3>3 DEF QueueFits
  <2>5. CASE s = t /\ (Closes(s) \/ Closed(s) \/ Fails(s))
    <3>1. sub'[s] = NoSub
      BY <1>1, <2>5 DEF Closes, Closed, Fails, Lost, FeedTypeOK
    <3>. QED
      BY <1>1, <3>1
  <2>. QED
    BY <1>5, <2>1, <2>2, <2>3, <2>4, <2>5
<1>6. CASE \/ \E u \in Units : Save(u) \/ PushLocal(u)
           \/ \E t \in Sockets : Receive(t) \/ Opens(t) \/ Drop(t)
           \/ Mount \/ Timer
           \/ Hydrate \/ HydrateShows \/ HydrateThrows \/ HydrateRefused
           \/ UNCHANGED vars
  <2>1. sub' = sub
    BY <1>6 DEF Save, PushLocal, Receive, Opens, Drop, Mount, Timer, Hydrate, HydrateShows,
                HydrateThrows, HydrateRefused, vars, server
  <2>. QED
    BY <1>2, <2>1
<1>. QED
  BY <1>3, <1>4, <1>5, <1>6 DEF Next

LEMMA StepKeepsWires ==
    ASSUME FeedTypeOK, FeedTypeOK', [Next]_vars,
           NEW s \in Sockets, Len(wire[s]) <= WireCap
    PROVE  Len(wire'[s]) <= WireCap
<1>1. wire[s] \in Seq(FrameType) /\ Len(wire[s]) \in Nat
  BY LenProperties DEF FeedTypeOK
<1>2. CASE wire'[s] = wire[s]
  BY <1>2
<1>3. CASE wire'[s] = <<>>
  BY <1>3, EmptySeq, LiveFeedAssumption
<1>4. CASE Send(s)
  <2>1. s \in Subscribed /\ sub[s].hand # NoFrame /\ Len(wire[s]) < WireCap
    BY <1>4 DEF Send
  <2>2. sub[s].hand \in FrameType
    BY <2>1, SubscriberType DEF Subscribers
  <2>3. wire'[s] = Append(wire[s], sub[s].hand)
    BY <1>4 DEF Send, FeedTypeOK
  <2>4. Len(wire'[s]) = Len(wire[s]) + 1
    BY <1>1, <2>2, <2>3, AppendProperties
  <2>. QED
    BY <1>1, <2>1, <2>4, LiveFeedAssumption
<1>5. CASE Receive(s)
  <2>1. wire[s] # <<>> /\ wire'[s] = Tail(wire[s])
    BY <1>5 DEF Receive, FeedTypeOK
  <2>2. Len(wire'[s]) = Len(wire[s]) - 1
    BY <1>1, <2>1, HeadTailProperties
  <2>. QED
    BY <1>1, <2>2, LiveFeedAssumption
<1>6. ASSUME NEW t \in Sockets, t # s, Send(t) \/ Receive(t)
      PROVE  wire'[s] = wire[s]
  BY <1>6 DEF Send, Receive, FeedTypeOK
<1>7. ASSUME NEW t \in Sockets, Closes(t) \/ Closed(t) \/ Fails(t)
      PROVE  wire'[s] = wire[s] \/ wire'[s] = <<>>
  BY <1>7 DEF Closes, Closed, Fails, Lost, FeedTypeOK
<1>8. CASE \/ \E u \in Units : Save(u) \/ Broadcast(u) \/ PushLocal(u)
           \/ \E t \in Sockets : Subscribe(t) \/ Take(t) \/ Opens(t) \/ Drop(t)
           \/ Mount \/ Timer
           \/ Hydrate \/ List \/ HydrateShows \/ HydrateThrows \/ HydrateRefused
           \/ UNCHANGED vars
  <2>1. wire' = wire
    BY <1>8 DEF Save, Broadcast, PushLocal, Subscribe, Take, Opens, Drop, Mount, Timer, Hydrate,
                List, HydrateShows, HydrateThrows, HydrateRefused, vars
  <2>. QED
    BY <1>2, <2>1
<1>. QED
  BY <1>2, <1>3, <1>4, <1>5, <1>6, <1>7, <1>8 DEF Next

LEMMA StepKeepsPageTypes ==
    ASSUME FeedTypeOK, PageTypeOK, [Next]_vars
    PROVE  PageTypeOK'
<1>1. CASE UNCHANGED <<fires, timers, socket, connected, pushed>>
  BY <1>1 DEF PageTypeOK
<1>2. ASSUME NEW u \in Units, PushLocal(u)
      PROVE  PageTypeOK'
  <2>1. u \in Own /\ pushed' = pushed \cup {u} /\ UNCHANGED <<fires, timers, socket, connected>>
    BY <1>2 DEF PushLocal, client
  <2>2. IsFiniteSet(pushed')
    BY <2>1, FS_AddElement DEF PageTypeOK
  <2>. QED
    BY <2>1, <2>2 DEF PageTypeOK
<1>3. CASE Reconnecting
  <2>1. /\ UNCHANGED <<fires, connected, pushed>>
        /\ timers' = timers \/ (timers > 0 /\ timers' = timers - 1)
    BY <1>3 DEF Reconnecting, Mount, Timer, page
  <2>2. socket' = socket \/ socket' \in Sockets
    BY <1>3 DEF Reconnecting, Mount, Timer, EnsureSocket, Connecting
  <2>3. timers' \in Nat
    BY <2>1 DEF PageTypeOK
  <2>. QED
    BY <2>1, <2>2, <2>3 DEF PageTypeOK
<1>4. ASSUME NEW s \in Sockets, Opens(s) \/ Closes(s)
      PROVE  PageTypeOK'
  BY <1>4 DEF Opens, Closes, Lost, PageTypeOK, page
<1>5. ASSUME NEW s \in Sockets, Closed(s) \/ Fails(s)
      PROVE  PageTypeOK'
  BY <1>5 DEF Closed, Fails, Lost, PageTypeOK, page
<1>6. ASSUME NEW s \in Sockets, Drop(s)
      PROVE  PageTypeOK'
  <2>1. /\ fires[s] > 0 /\ fires' = [fires EXCEPT ![s] = fires[s] - 1]
        /\ connected' = FALSE /\ timers' = timers + 1 /\ UNCHANGED <<socket, pushed>>
    BY <1>6 DEF Drop, page
  <2>2. fires[s] - 1 \in 0 .. 2
    BY <2>1 DEF PageTypeOK
  <2>3. fires' \in [Sockets -> 0 .. 2]
    BY <2>1, <2>2 DEF PageTypeOK
  <2>4. timers' \in Nat
    BY <2>1 DEF PageTypeOK
  <2>5. socket' \in Sockets \cup {NoSocket} /\ connected' \in BOOLEAN
    BY <2>1 DEF PageTypeOK
  <2>6. pushed' \subseteq Own /\ IsFiniteSet(pushed')
    BY <2>1 DEF PageTypeOK
  <2>. QED
    BY <2>3, <2>4, <2>5, <2>6 DEF PageTypeOK
<1>7. CASE \/ \E u \in Units : Save(u) \/ Broadcast(u)
           \/ \E s \in Sockets : Subscribe(s) \/ Take(s) \/ Send(s) \/ Receive(s)
           \/ Hydrate \/ List \/ HydrateShows \/ HydrateThrows \/ HydrateRefused
           \/ UNCHANGED vars
  <2>1. UNCHANGED <<fires, timers, socket, connected, pushed>>
    BY <1>7 DEF Save, Broadcast, Subscribe, Take, Send, Receive, Hydrate, List, HydrateShows,
                HydrateThrows, HydrateRefused, vars, client, page
  <2>. QED
    BY <1>1, <2>1
<1>. QED
  BY <1>2, <1>3, <1>4, <1>5, <1>6, <1>7 DEF Next, Reconnecting

LEMMA StepKeepsBoard ==
    ASSUME FeedTypeOK, FeedTypeOK', PageTypeOK, BoardFits, [Next]_vars
    PROVE  BoardFits'
<1>. DEFINE len  == Len(board)
            more == IF listing.pc = "shown" THEN Len(listing.items) ELSE 0
            own  == Cardinality(pushed)
            new  == Len(listing.items)
<1>1. len \in Nat /\ Len(board') \in Nat /\ Len(listing.items) \in Nat
  BY LenProperties DEF FeedTypeOK, Listings
<1>2. own \in Nat /\ more \in Nat /\ BoardCap \in Nat
  BY <1>1, FS_CardinalityType, LiveFeedAssumption DEF PageTypeOK
<1>3. len <= BoardCap + own + more
  BY DEF BoardFits
<1>4. CASE UNCHANGED <<board, pushed, listing>>
  BY <1>3, <1>4 DEF BoardFits
<1>5. ASSUME NEW s \in Sockets, Receive(s)
      PROVE  BoardFits'
  <2>1. wire[s] # <<>> /\ board' = Unshift(Head(wire[s]).unit) /\ UNCHANGED <<pushed, listing>>
    BY <1>5 DEF Receive
  <2>2. Head(wire[s]) \in FrameType
    BY <2>1, HeadTailProperties DEF FeedTypeOK
  <2>3. Head(wire[s]).unit \in Units
    BY <2>2 DEF FrameType
  <2>4. Len(board') <= len \/ Len(board') <= BoardCap
    BY <2>1, <2>3, UnshiftShows DEF FeedTypeOK
  <2>. HIDE DEF len, more, own
  <2>5. Len(board') <= BoardCap + own + more
    BY <1>1, <1>2, <1>3, <2>4
  <2>. QED
    BY <2>1, <2>5 DEF BoardFits, more, own
<1>6. ASSUME NEW u \in Units, PushLocal(u)
      PROVE  BoardFits'
  <2>1. /\ u \notin pushed /\ pushed' = pushed \cup {u} /\ listing' = listing
        /\ board' = IF Contains(board, u) THEN board ELSE <<u>> \o board
    BY <1>6 DEF PushLocal
  <2>2. Cardinality(pushed') = own + 1
    BY <2>1, FS_AddElement DEF PageTypeOK
  <2>3. Len(<<u>> \o board) = 1 + len
    BY ConcatProperties DEF FeedTypeOK
  <2>. HIDE DEF len, more, own
  <2>4. Len(board') <= len + 1
    BY <1>1, <2>1, <2>3 DEF len
  <2>5. Len(board') <= BoardCap + (own + 1) + more
    BY <1>1, <1>2, <1>3, <2>4
  <2>. QED
    BY <2>1, <2>2, <2>5 DEF BoardFits, more
<1>7. CASE HydrateShows
  <2>1. /\ listing.pc = "answered" /\ board' = Seeded(listing.items) /\ pushed' = pushed
        /\ listing'.pc = "shown" /\ listing'.items = listing.items
    BY <1>7 DEF HydrateShows, FeedTypeOK, Listings
  <2>2. Len(board') <= len + new
    BY <2>1, SeededShows DEF FeedTypeOK, Listings
  <2>3. more = 0
    BY <2>1
  <2>4. new \in Nat
    BY <1>1
  <2>. HIDE DEF len, more, own, new
  <2>5. Len(board') <= BoardCap + own + new
    BY <1>1, <1>2, <1>3, <2>2, <2>3, <2>4
  <2>. QED
    BY <2>1, <2>5 DEF BoardFits, own, new
<1>8. CASE Hydrate \/ List \/ HydrateThrows \/ HydrateRefused
  <2>1. /\ listing.pc # "shown" /\ listing'.pc # "shown"
        /\ UNCHANGED <<board, pushed>>
    BY <1>8 DEF Hydrate, List, HydrateThrows, HydrateRefused, FeedTypeOK, Listings, NoListing
  <2>. QED
    BY <1>3, <2>1 DEF BoardFits
<1>9. CASE \/ \E u \in Units : Save(u) \/ Broadcast(u)
           \/ \E s \in Sockets : \/ Subscribe(s) \/ Take(s) \/ Send(s)
                                 \/ Opens(s) \/ Closes(s) \/ Closed(s) \/ Fails(s) \/ Drop(s)
           \/ Mount \/ Timer \/ UNCHANGED vars
  <2>1. UNCHANGED <<board, pushed, listing>>
    BY <1>9 DEF Save, Broadcast, Subscribe, Take, Send, Opens, Closes, Closed, Fails, Lost, Drop,
                Mount, Timer, vars, page
  <2>. QED
    BY <1>4, <2>1
<1>. QED
  BY <1>5, <1>6, <1>7, <1>8, <1>9 DEF Next

LEMMA LimitsInvariant == Spec => []Limits
<1>1. Init => Limits
  <2>. SUFFICES ASSUME Init PROVE Limits
    OBVIOUS
  <2>1. Subscribed = {}
    BY DEF Init, Subscribed, NoSub
  <2>2. Len(<<>>) = 0 /\ IsFiniteSet({}) /\ Cardinality({}) = 0
    BY EmptySeq, FS_EmptySet
  <2>3. PageTypeOK
    <3>1. fires \in [Sockets -> 0 .. 2]
      BY DEF Init
    <3>2. timers \in Nat /\ socket \in Sockets \cup {NoSocket}
      BY DEF Init
    <3>3. connected \in BOOLEAN /\ pushed \subseteq Own /\ IsFiniteSet(pushed)
      BY <2>2 DEF Init
    <3>. QED
      BY <3>1, <3>2, <3>3 DEF PageTypeOK
  <2>4. BoardFits
    BY <2>2, LiveFeedAssumption DEF Init, BoardFits, NoListing
  <2>5. \A s \in Sockets : Len(wire[s]) <= WireCap
    BY <2>2, LiveFeedAssumption DEF Init
  <2>. QED
    BY <2>1, <2>3, <2>4, <2>5 DEF Limits
<1>2. LInv /\ LInv' /\ Limits /\ [Next]_vars => Limits'
  <2>. SUFFICES ASSUME LInv, LInv', Limits, [Next]_vars PROVE Limits'
    OBVIOUS
  <2>1. FeedTypeOK /\ FeedTypeOK'
    BY DEF LInv
  <2>2. \A s \in Subscribed' : QueueFits(sub'[s])
    BY <2>1, StepKeepsQueues DEF Limits
  <2>3. \A s \in Sockets : Len(wire'[s]) <= WireCap
    BY <2>1, StepKeepsWires DEF Limits
  <2>4. PageTypeOK'
    BY <2>1, StepKeepsPageTypes DEF Limits
  <2>5. BoardFits'
    BY <2>1, StepKeepsBoard DEF Limits
  <2>. QED
    BY <2>2, <2>3, <2>4, <2>5 DEF Limits
<1>. QED
  BY <1>1, <1>2, FeedInvariant, PTL DEF Spec

\* The queue of a subscriber, the wire and the board keep their limits, and a dropped
\* frame has one in the queue before which it is told of.
THEOREM TypeCorrect == Spec => []TypeOK
<1>1. LInv /\ Limits => TypeOK
  <2>. SUFFICES ASSUME LInv, Limits PROVE TypeOK
    OBVIOUS
  <2>1. FeedTypeOK /\ PageTypeOK
    BY DEF LInv, Limits
  <2>2. saved \subseteq Units
    BY <2>1 DEF FeedTypeOK
  <2>3. ASSUME NEW s \in Sockets
        PROVE  SubType(sub[s])
    <3>1. CASE s \notin Subscribed
      BY <2>1, <3>1, SubscriberType DEF SubType
    <3>2. CASE s \in Subscribed
      <4>1. sub[s] \in Subscribers /\ QueueFits(sub[s])
        BY <2>1, <3>2, SubscriberType DEF Limits
      <4>2. sub[s].hand \in FrameType \cup {NoFrame} /\ sub[s].queue \in Seq(Units)
        BY <4>1 DEF Subscribers
      <4>3. sub[s].hand.unit \in Units \cup {NoUnit}
        BY <4>2 DEF FrameType, NoFrame, Frame
      <4>. QED
        BY <4>1, <4>2, <4>3 DEF SubType, QueueFits
    <3>. QED
      BY <3>1, <3>2
  <2>4. Len(board) <= BoardCap + Cardinality(pushed) + Len(listing.items)
    <3>1. Len(board) \in Nat /\ Len(listing.items) \in Nat
      BY <2>1, LenProperties DEF FeedTypeOK, Listings
    <3>2. Cardinality(pushed) \in Nat /\ BoardCap \in Nat
      BY <2>1, FS_CardinalityType, LiveFeedAssumption DEF PageTypeOK
    <3>. QED
      BY <3>1, <3>2 DEF Limits, BoardFits
  <2>5. listing.pc \in {"none", "asked", "answered", "shown", "refused"}
    BY <2>1 DEF FeedTypeOK, Listings
  <2>. QED
    BY <2>1, <2>2, <2>3, <2>4, <2>5 DEF TypeOK, FeedTypeOK, PageTypeOK, Limits
<1>. QED
  BY <1>1, FeedInvariant, LimitsInvariant, PTL
================================================================================
