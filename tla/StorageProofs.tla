---------------------------- MODULE StorageProofs ----------------------------
(***************************************************************************)
(* Storage implements DurableStore, for any keys, callers, file names and  *)
(* limits, and so does the storage that InspectionReads reads from; and    *)
(* what those requests answer is what they promise, for any limits.        *)
(***************************************************************************)
EXTENDS InspectionReads, FiniteSetTheorems, WellFoundedInduction, TLAPS

(***************************************************************************)
(* The inductive invariant.  A thread writes a file only in file mode; and *)
(* the order of the records in memory lists each of them once, so that the *)
(* eviction counts what is there.                                          *)
(***************************************************************************)
Call == [phase : {"idle", "asked", "writing", "placed"}, key : Nat, value : 0..MaxWrites]

CallsOK ==
    /\ mode \in Tiers \cup {"none"}
    /\ written \in 0..MaxWrites
    /\ calls \in [Callers -> Call]
    /\ \A c \in Callers :
         /\ calls[c].phase = "idle" => calls[c] = Idle
         /\ calls[c].phase # "idle" => calls[c].key \in Keys /\ calls[c].value \in Values
         /\ calls[c].phase = "writing" => mode = "file"
         /\ calls[c].phase # "idle" => mode \in Tiers

TiersOK ==
    /\ db \in [Keys -> 0..MaxWrites]
    /\ disk \in [Names -> [key : Nat, value : 0..MaxWrites]]
    /\ ram \in [Keys -> 0..MaxWrites]

InMemory == {k \in Inspections : ram[k] # 0}

InOrder ==
    /\ order \in Seq(Inspections)
    /\ Len(order) <= MaxRecords
    /\ \A i, j \in 1..Len(order) : order[i] = order[j] => i = j
    /\ InMemory = {order[i] : i \in 1..Len(order)}
    /\ Cardinality(InMemory) = Len(order)

StInv == CallsOK /\ TiersOK /\ InOrder

\* A sequence that grows at its end, and one that loses its head then.
LEMMA AppendFacts ==
    ASSUME NEW S, NEW s \in Seq(S), NEW x \in S
    PROVE  /\ Append(s, x) \in Seq(S) /\ Len(Append(s, x)) = Len(s) + 1
           /\ \A i \in 1..Len(Append(s, x)) :
                Append(s, x)[i] = IF i <= Len(s) THEN s[i] ELSE x
           /\ Len(s) \in Nat
OBVIOUS

LEMMA TailAppendFacts ==
    ASSUME NEW S, NEW s \in Seq(S), NEW x \in S, Len(s) # 0
    PROVE  LET t == Tail(Append(s, x))
           IN  /\ t \in Seq(S) /\ Len(t) = Len(s) /\ Len(s) \in Nat \ {0}
               /\ \A i \in 1..Len(t) : t[i] = IF i < Len(s) THEN s[i + 1] ELSE x
<1>. DEFINE g == Append(s, x)
<1>1. g \in Seq(S) /\ Len(g) = Len(s) + 1 /\ Len(s) \in Nat /\ g # <<>>
  OBVIOUS
<1>2. \A i \in 1..Len(g) : g[i] = IF i <= Len(s) THEN s[i] ELSE x
  OBVIOUS
<1>. HIDE DEF g
<1>3. /\ Tail(g) \in Seq(S) /\ Len(Tail(g)) = Len(s)
      /\ \A i \in 1..Len(s) : Tail(g)[i] = g[i + 1]
  BY <1>1
<1>. QED
  BY <1>1, <1>2, <1>3 DEF g

\* The store starts empty.
LEMMA InitStInv == Init => StInv
<1>. SUFFICES ASSUME Init PROVE StInv
  OBVIOUS
<1>1. CallsOK
  BY StorageAssumption DEF Init, CallsOK, Call, Idle, Opened, Surroundings, Tiers
<1>2. TiersOK
  BY StorageAssumption DEF Init, TiersOK, NoFile
<1>3. InOrder
  <2>1. order = <<>> /\ InMemory = {}
    BY DEF Init, InMemory, Keys
  <2>. QED
    BY <2>1, StorageAssumption, FS_EmptySet DEF InOrder
<1>. QED
  BY <1>1, <1>2, <1>3 DEF StInv

\* A step that leaves the stores alone.
LEMMA CallsKeepStInv ==
    ASSUME StInv, NEW c \in Callers,
           \/ \E k \in Keys : Ask(c, k)
           \/ Acquire(c) \/ WriteFails(c) \/ MongoFails(c) \/ Return(c)
    PROVE  StInv'
<1>1. UNCHANGED <<mode, store>>
  BY DEF Ask, Acquire, WriteFails, MongoFails, Return
<1>2. TiersOK' /\ InOrder'
  BY <1>1 DEF StInv, TiersOK, InOrder, InMemory, store
<1>3. CallsOK'
  <2>1. ASSUME NEW k \in Keys, Ask(c, k)
        PROVE  CallsOK'
    <3>. DEFINE asked == [phase |-> "asked", key |-> k, value |-> written']
    <3>1. /\ written' \in Values /\ written' \in 0..MaxWrites /\ k \in Nat
          /\ mode \in Tiers /\ calls' = [calls EXCEPT ![c] = asked]
      BY <2>1, StorageAssumption DEF Ask, StInv, CallsOK, Values, Keys
    <3>2. asked \in Call
      BY <3>1 DEF Call
    <3>. HIDE DEF asked
    <3>3. asked.phase = "asked" /\ asked.key = k /\ asked.value = written'
      BY DEF asked
    <3>. QED
      BY <1>1, <3>1, <3>2, <3>3 DEF StInv, CallsOK
  <2>2. CASE Acquire(c)
    <3>1. /\ calls' = [calls EXCEPT ![c].phase = "writing"]
          /\ calls[c].phase = "asked" /\ mode = "file" /\ written' = written
      BY <2>2 DEF Acquire, Become
    <3>. QED
      BY <1>1, <3>1 DEF StInv, CallsOK, Call
  <2>3. CASE WriteFails(c) \/ MongoFails(c) \/ Return(c)
    <3>1. calls' = [calls EXCEPT ![c] = Idle] /\ written' = written
      BY <2>3 DEF WriteFails, MongoFails, Return, Done
    <3>2. Idle \in Call /\ Idle.phase = "idle"
      BY StorageAssumption DEF Call, Idle
    <3>. QED
      BY <1>1, <3>1, <3>2 DEF StInv, CallsOK
  <2>. QED
    BY <2>1, <2>2, <2>3
<1>. QED
  BY <1>2, <1>3 DEF StInv

\* A write takes effect: the call is placed.
LEMMA PlacedKeepsCallsOK ==
    ASSUME CallsOK, NEW c \in Callers, calls[c].phase # "idle",
           calls' = [calls EXCEPT ![c].phase = "placed"], UNCHANGED <<mode, written>>
    PROVE  CallsOK'
BY DEF CallsOK, Call

\* In MongoDB and in a file.
LEMMA DurableKeepsStInv ==
    ASSUME StInv, NEW c \in Callers, Replace(c) \/ ReplaceOne(c)
    PROVE  StInv'
<1>1. /\ calls[c].phase # "idle" /\ calls' = [calls EXCEPT ![c].phase = "placed"]
      /\ UNCHANGED <<mode, written, ram, order>>
  BY DEF Replace, ReplaceOne, Become
<1>2. CallsOK'
  BY <1>1, PlacedKeepsCallsOK DEF StInv
<1>3. calls[c].key \in Keys /\ calls[c].key \in Nat /\ calls[c].value \in 0..MaxWrites
  BY <1>1 DEF StInv, CallsOK, Call
<1>4. TiersOK'
  BY <1>1, <1>3 DEF StInv, TiersOK, Replace, ReplaceOne
<1>5. InOrder'
  BY <1>1 DEF StInv, InOrder, InMemory
<1>. QED
  BY <1>2, <1>4, <1>5 DEF StInv

(***************************************************************************)
(* In memory: what is evicted, if anything, is another inspection, and     *)
(* only when there would be too many.                                      *)
(***************************************************************************)
Overwrites(c) ==
    /\ calls[c].key \notin Inspections \/ ram[calls[c].key] # 0
    /\ order' = order
    /\ ram' = [ram EXCEPT ![calls[c].key] = calls[c].value]

Adds(c) ==
    /\ calls[c].key \in Inspections /\ ram[calls[c].key] = 0
    /\ Len(order) < MaxRecords
    /\ order' = Append(order, calls[c].key)
    /\ ram' = [ram EXCEPT ![calls[c].key] = calls[c].value]

Evicts(c) ==
    /\ calls[c].key \in Inspections /\ ram[calls[c].key] = 0
    /\ Len(order) = MaxRecords
    /\ order' = Tail(Append(order, calls[c].key))
    /\ ram' = [ram EXCEPT ![calls[c].key] = calls[c].value, ![order[1]] = 0]

LEMMA RememberCases ==
    ASSUME StInv, NEW c \in Callers, Remember(c)
    PROVE  /\ calls[c].key \in Keys /\ calls[c].value \in Values
           /\ Overwrites(c) \/ Adds(c) \/ Evicts(c)
<1>. DEFINE k == calls[c].key
<1>1. k \in Keys /\ calls[c].value \in Values
  BY DEF StInv, CallsOK, Remember
<1>2. /\ order \in Seq(Inspections) /\ Len(order) \in Nat /\ Len(order) <= MaxRecords
      /\ MaxRecords \in Nat \ {0}
      /\ ToSet(order) = InMemory
  <2>1. order \in Seq(Inspections) /\ Len(order) <= MaxRecords
    BY DEF StInv, InOrder
  <2>2. Len(order) \in Nat /\ DOMAIN order = 1..Len(order)
    BY <2>1
  <2>3. ToSet(order) = InMemory
    BY <2>2 DEF StInv, InOrder, ToSet
  <2>. QED
    BY <2>1, <2>2, <2>3, StorageAssumption
<1>3. CASE k \in Documents \cup ToSet(order)
  <2>1. k \notin Inspections \/ ram[k] # 0
    BY <1>2, <1>3, StorageAssumption DEF InMemory
  <2>2. ~(Len(order) > MaxRecords)
    BY <1>2
  <2>3. order' = order /\ ram' = [j \in Keys |-> IF j = k THEN calls[c].value ELSE ram[j]]
    BY <1>3, <2>2 DEF Remember
  <2>. QED
    BY <1>1, <2>1, <2>3 DEF StInv, TiersOK, Overwrites
<1>4. CASE k \notin Documents \cup ToSet(order)
  <2>. DEFINE grown == Append(order, k)
  <2>1. k \in Inspections /\ ram[k] = 0
    BY <1>1, <1>2, <1>4 DEF Keys, InMemory
  <2>2. /\ Len(grown) = Len(order) + 1
        /\ order' = IF Len(grown) > MaxRecords THEN Tail(grown) ELSE grown
        /\ ram' = [j \in Keys |-> IF Len(grown) > MaxRecords /\ j = Head(grown) THEN 0
                                  ELSE IF j = k THEN calls[c].value ELSE ram[j]]
    BY <1>2, <1>4, <2>1 DEF Remember
  <2>3. CASE Len(order) < MaxRecords
    <3>1. ~(Len(grown) > MaxRecords)
      BY <1>2, <2>2, <2>3
    <3>. QED
      BY <1>1, <2>1, <2>2, <2>3, <3>1 DEF StInv, TiersOK, Adds
  <2>4. CASE Len(order) = MaxRecords
    <3>1. Len(grown) > MaxRecords /\ Head(grown) = order[1]
      BY <1>2, <2>1, <2>2, <2>4
    <3>2. order[1] \in InMemory
      BY <1>2, <2>4 DEF StInv, InOrder
    <3>3. order[1] # k
      BY <2>1, <3>2 DEF InMemory
    <3>4. ram' = [ram EXCEPT ![k] = calls[c].value, ![order[1]] = 0]
      BY <1>1, <2>2, <3>1, <3>3 DEF StInv, TiersOK
    <3>5. order' = Tail(grown)
      BY <2>2, <3>1
    <3>. QED
      BY <1>1, <2>1, <2>4, <3>4, <3>5 DEF Evicts
  <2>. QED
    BY <1>2, <2>3, <2>4
<1>. QED
  BY <1>1, <1>3, <1>4

\* What is in memory after an eviction.
LEMMA EvictionFacts ==
    ASSUME StInv, NEW c \in Callers, Evicts(c), calls[c].key \in Keys
    PROVE  /\ order[1] \in InMemory /\ order[1] # calls[c].key
           /\ order[1] \in Keys
BY StorageAssumption DEF StInv, InOrder, InMemory, Evicts, Keys

LEMMA RememberKeepsStInv ==
    ASSUME StInv, NEW c \in Callers, Remember(c)
    PROVE  StInv'
<1>. DEFINE k == calls[c].key
<1>0. /\ k \in Keys /\ calls[c].value \in Values
      /\ Overwrites(c) \/ Adds(c) \/ Evicts(c)
  BY RememberCases
<1>v. calls[c].value \in 0..MaxWrites /\ calls[c].value # 0
  BY <1>0, StorageAssumption DEF Values
<1>f. IsFiniteSet(InMemory)
  BY FS_Subset, StorageAssumption DEF InMemory
<1>1. CallsOK'
  BY PlacedKeepsCallsOK DEF StInv, Remember, Become
<1>2. TiersOK'
  BY <1>0, <1>v, StorageAssumption DEF StInv, TiersOK, Overwrites, Adds, Evicts, Remember
<1>3. InOrder'
  <2>1. CASE Overwrites(c)
    <3>1. InMemory' = InMemory
      BY <1>0, <1>v, <2>1 DEF StInv, TiersOK, Overwrites, InMemory
    <3>. QED
      BY <2>1, <3>1 DEF StInv, InOrder, Overwrites
  <2>2. CASE Adds(c)
    <3>1. InMemory' = InMemory \cup {k} /\ k \notin InMemory
      BY <1>0, <1>v, <2>2 DEF StInv, TiersOK, Adds, InMemory
    <3>2. Cardinality(InMemory') = Cardinality(InMemory) + 1
      BY <3>1, <1>f, FS_AddElement
    <3>3. /\ order' \in Seq(Inspections) /\ Len(order') = Len(order) + 1
          /\ \A i \in 1..Len(order') : order'[i] = IF i <= Len(order) THEN order[i] ELSE k
          /\ Len(order) \in Nat
      <4>1. order \in Seq(Inspections) /\ k \in Inspections /\ order' = Append(order, k)
        BY <2>2 DEF StInv, InOrder, Adds
      <4>. QED
        BY <4>1, AppendFacts
    <3>4. \A i \in 1..Len(order) : order[i] # k
      BY <3>1 DEF StInv, InOrder
    <3>5. InMemory' = {order'[i] : i \in 1..Len(order')}
      <4>1. InMemory = {order[i] : i \in 1..Len(order)}
        BY DEF StInv, InOrder
      <4>2. \A i \in 1..Len(order) : i \in 1..Len(order') /\ order'[i] = order[i]
        BY <3>3
      <4>3. Len(order') \in 1..Len(order') /\ order'[Len(order')] = k
        BY <3>3
      <4>4. ASSUME NEW i \in 1..Len(order')
            PROVE  order'[i] = k \/ (i \in 1..Len(order) /\ order'[i] = order[i])
        <5>1. CASE i <= Len(order)
          BY <3>3, <5>1
        <5>2. CASE ~(i <= Len(order))
          BY <3>3, <5>2
        <5>. QED
          BY <5>1, <5>2
      <4>. HIDE DEF k
      <4>. QED
        BY <3>1, <4>1, <4>2, <4>3, <4>4
    <3>6. \A i, j \in 1..Len(order') : order'[i] = order'[j] => i = j
      <4>1. \A i, j \in 1..Len(order) : order[i] = order[j] => i = j
        BY DEF StInv, InOrder
      <4>2. ASSUME NEW i \in 1..Len(order'), NEW j \in 1..Len(order'), order'[i] = order'[j]
            PROVE  i = j
        <5>1. CASE i <= Len(order) /\ j <= Len(order)
          BY <3>3, <4>1, <4>2, <5>1
        <5>2. CASE i > Len(order) /\ j > Len(order)
          BY <3>3, <5>2
        <5>3. CASE i <= Len(order) /\ j > Len(order)
          BY <3>3, <3>4, <4>2, <5>3
        <5>4. CASE i > Len(order) /\ j <= Len(order)
          BY <3>3, <3>4, <4>2, <5>4
        <5>. QED
          BY <3>3, <5>1, <5>2, <5>3, <5>4
      <4>. QED
        BY <4>2
    <3>7. Len(order') <= MaxRecords
      BY <2>2, <3>3, StorageAssumption DEF Adds
    <3>. QED
      BY <3>2, <3>3, <3>5, <3>6, <3>7 DEF StInv, InOrder
  <2>3. CASE Evicts(c)
    <3>0. order[1] \in InMemory /\ order[1] # k /\ order[1] \in Keys
      BY <1>0, <2>3, EvictionFacts
    <3>1. InMemory' = (InMemory \cup {k}) \ {order[1]} /\ k \notin InMemory
      <4>1. /\ k \in Inspections /\ ram[k] = 0
            /\ ram \in [Keys -> 0..MaxWrites] /\ Inspections \subseteq Keys
            /\ ram' = [ram EXCEPT ![k] = calls[c].value, ![order[1]] = 0]
        BY <2>3 DEF StInv, TiersOK, Evicts, Keys
      <4>2. \A j \in Inspections :
              ram'[j] = IF j = order[1] THEN 0 ELSE IF j = k THEN calls[c].value ELSE ram[j]
        BY <1>0, <3>0, <4>1
      <4>. QED
        BY <1>v, <3>0, <4>1, <4>2 DEF InMemory
    <3>2. Cardinality(InMemory') = Cardinality(InMemory)
      <4>1. /\ IsFiniteSet(InMemory \cup {k})
            /\ Cardinality(InMemory \cup {k}) = Cardinality(InMemory) + 1
        BY <3>1, <1>f, FS_AddElement
      <4>2. Cardinality(InMemory') = Cardinality(InMemory \cup {k}) - 1
        BY <3>0, <3>1, <4>1, FS_RemoveElement
      <4>3. Cardinality(InMemory) \in Nat
        BY <1>f, FS_CardinalityType
      <4>. QED
        BY <4>1, <4>2, <4>3
    <3>3. /\ order' \in Seq(Inspections) /\ Len(order') = Len(order)
          /\ Len(order) \in Nat \ {0}
          /\ \A i \in 1..Len(order') :
               order'[i] = IF i < Len(order) THEN order[i + 1] ELSE k
      <4>1. /\ order \in Seq(Inspections) /\ k \in Inspections
            /\ Len(order) \in Nat \ {0} /\ order' = Tail(Append(order, k))
        BY <2>3, StorageAssumption DEF StInv, InOrder, Evicts
      <4>. QED
        BY <4>1, TailAppendFacts
    <3>4. \A i \in 1..Len(order) : order[i] # k
      BY <3>1 DEF StInv, InOrder
    <3>5. \A i, j \in 1..Len(order') : order'[i] = order'[j] => i = j
      <4>1. \A i, j \in 1..Len(order) : order[i] = order[j] => i = j
        BY DEF StInv, InOrder
      <4>2. ASSUME NEW i \in 1..Len(order'), NEW j \in 1..Len(order'), order'[i] = order'[j]
            PROVE  i = j
        <5>1. CASE i < Len(order) /\ j < Len(order)
          <6>1. i + 1 \in 1..Len(order) /\ j + 1 \in 1..Len(order)
            BY <3>3, <5>1
          <6>2. order[i + 1] = order[j + 1]
            BY <3>3, <4>2, <5>1
          <6>. QED
            BY <4>1, <6>1, <6>2
        <5>2. CASE i = Len(order) /\ j = Len(order)
          BY <5>2
        <5>3. CASE i < Len(order) /\ j = Len(order)
          <6>1. i + 1 \in 1..Len(order) /\ order[i + 1] = k
            BY <3>3, <4>2, <5>3
          <6>. QED
            BY <3>4, <6>1
        <5>4. CASE i = Len(order) /\ j < Len(order)
          <6>1. j + 1 \in 1..Len(order) /\ order[j + 1] = k
            BY <3>3, <4>2, <5>4
          <6>. QED
            BY <3>4, <6>1
        <5>. QED
          BY <3>3, <5>1, <5>2, <5>3, <5>4
      <4>. QED
        BY <4>2
    <3>6. InMemory' = {order'[i] : i \in 1..Len(order')}
      <4>1. ASSUME NEW i \in 1..Len(order')
            PROVE  order'[i] \in InMemory'
        <5>1. \A m \in 1..Len(order) : order[m] \in InMemory /\ (order[m] = order[1] => m = 1)
          <6>1. 1 \in 1..Len(order)
            BY <3>3
          <6>. QED
            BY <6>1 DEF StInv, InOrder
        <5>2. CASE i < Len(order)
          <6>1. i + 1 \in 1..Len(order) /\ i + 1 # 1 /\ order'[i] = order[i + 1]
            BY <3>3, <5>2
          <6>2. order[i + 1] \in InMemory /\ order[i + 1] # order[1]
            BY <5>1, <6>1
          <6>. QED
            BY <3>1, <6>1, <6>2
        <5>3. CASE ~(i < Len(order))
          <6>1. order'[i] = k
            BY <3>3, <5>3
          <6>. QED
            BY <3>0, <3>1, <6>1
        <5>. QED
          BY <5>2, <5>3
      <4>2. ASSUME NEW x \in InMemory'
            PROVE  \E i \in 1..Len(order') : order'[i] = x
        <5>1. CASE x = k
          BY <3>3, <5>1
        <5>2. CASE x # k
          <6>1. PICK i \in 1..Len(order) : order[i] = x /\ i # 1
            BY <3>1, <5>2 DEF StInv, InOrder
          <6>2. i - 1 \in 1..Len(order') /\ i - 1 < Len(order) /\ (i - 1) + 1 = i
            BY <6>1, <3>3
          <6>. QED
            BY <3>3, <6>1, <6>2
        <5>. QED
          BY <5>1, <5>2
      <4>. QED
        BY <4>1, <4>2
    <3>. QED
      BY <3>2, <3>3, <3>5, <3>6 DEF StInv, InOrder
  <2>. QED
    BY <1>0, <2>1, <2>2, <2>3
<1>. QED
  BY <1>1, <1>2, <1>3 DEF StInv

\* A boot forgets the calls and the memory.
LEMMA RebootKeepsStInv ==
    ASSUME StInv, Reboot
    PROVE  StInv'
<1>1. CallsOK'
  BY StorageAssumption
  DEF StInv, CallsOK, Call, Idle, Reboot, Open, Opened, Surroundings, Tiers
<1>2. TiersOK'
  BY StorageAssumption DEF StInv, TiersOK, Reboot
<1>3. InOrder'
  <2>1. order' = <<>> /\ InMemory' = {}
    BY DEF Reboot, InMemory, Keys
  <2>. QED
    BY <2>1, StorageAssumption, FS_EmptySet DEF InOrder
<1>. QED
  BY <1>1, <1>2, <1>3 DEF StInv

\* Every step keeps the invariant.
LEMMA StepKeepsStInv == StInv /\ [Next]_vars => StInv'
<1>. SUFFICES ASSUME StInv, [Next]_vars PROVE StInv'
  OBVIOUS
<1>1. CASE UNCHANGED vars
  <2>1. CallsOK' /\ TiersOK'
    BY <1>1 DEF vars, store, StInv, CallsOK, TiersOK
  <2>2. order' = order /\ InMemory' = InMemory
    BY <1>1 DEF vars, store, InMemory
  <2>3. InOrder'
    BY <2>2 DEF StInv, InOrder
  <2>. QED
    BY <2>1, <2>3 DEF StInv
<1>2. CASE Reboot
  BY <1>2, RebootKeepsStInv
<1>3. ASSUME NEW c \in Callers, (\E k \in Keys : Ask(c, k)) \/ Proceed(c)
      PROVE  StInv'
  BY <1>3, CallsKeepStInv, DurableKeepsStInv, RememberKeepsStInv DEF Proceed
<1>. QED
  BY <1>1, <1>2, <1>3 DEF Next

\* The invariant always holds.
LEMMA StorageInvariant == Spec => []StInv
BY InitStInv, StepKeepsStInv, PTL DEF Spec

(***************************************************************************)
(* The refinement.  First, what the mapping makes of a call and a tier.    *)
(***************************************************************************)
LEMMA TakenFacts ==
    ASSUME CallsOK, NEW c \in Callers
    PROVE  /\ TakenCalls[c].key = calls[c].key /\ TakenCalls[c].value = calls[c].value
           /\ calls[c] = Idle => TakenCalls[c] = Promise!Idle
           /\ calls[c].phase \in {"asked", "writing"} => TakenCalls[c].phase = "asked"
           /\ calls[c].phase = "placed" => TakenCalls[c].phase = "applied"
<1>1. calls[c] \in Call
  BY DEF CallsOK
<1>. QED
  BY <1>1 DEF TakenCalls, Taken, Call, Idle, Promise!Idle

\* One call moves.
LEMMA TakenMoves ==
    ASSUME CallsOK, NEW c \in Callers, NEW call, calls' = [calls EXCEPT ![c] = call]
    PROVE  TakenCalls' = [TakenCalls EXCEPT ![c] = Taken(call)]
BY DEF CallsOK, TakenCalls

\* It ends; it goes on without taking effect; it takes effect.
LEMMA TakenSteps ==
    ASSUME CallsOK, NEW c \in Callers
    PROVE  /\ calls' = [calls EXCEPT ![c] = Idle]
                => TakenCalls' = [TakenCalls EXCEPT ![c] = Promise!Idle]
           /\ calls' = [calls EXCEPT ![c].phase = "writing"] /\ calls[c].phase = "asked"
                => TakenCalls' = TakenCalls
           /\ calls' = [calls EXCEPT ![c].phase = "placed"]
                => TakenCalls' = [TakenCalls EXCEPT ![c].phase = "applied"]
<1>1. calls[c] \in Call /\ calls \in [Callers -> Call]
  BY DEF CallsOK
<1>2. ASSUME calls' = [calls EXCEPT ![c] = Idle]
      PROVE  TakenCalls' = [TakenCalls EXCEPT ![c] = Promise!Idle]
  <2>1. Taken(Idle) = Promise!Idle
    BY DEF Taken, Idle, Promise!Idle
  <2>. QED
    BY <1>2, <2>1, TakenMoves
<1>3. ASSUME calls' = [calls EXCEPT ![c].phase = "writing"], calls[c].phase = "asked"
      PROVE  TakenCalls' = TakenCalls
  <2>1. Taken([calls[c] EXCEPT !.phase = "writing"]) = Taken(calls[c])
    BY <1>1, <1>3 DEF Taken, Call
  <2>2. TakenCalls' = [TakenCalls EXCEPT ![c] = Taken(calls[c])]
    <3>1. calls' = [calls EXCEPT ![c] = [calls[c] EXCEPT !.phase = "writing"]]
      BY <1>3
    <3>. QED
      BY <2>1, <3>1, TakenMoves
  <2>. QED
    BY <2>2 DEF TakenCalls
<1>4. ASSUME calls' = [calls EXCEPT ![c].phase = "placed"]
      PROVE  TakenCalls' = [TakenCalls EXCEPT ![c].phase = "applied"]
  <2>1. Taken([calls[c] EXCEPT !.phase = "placed"]) = [Taken(calls[c]) EXCEPT !.phase = "applied"]
    BY <1>1 DEF Taken, Call
  <2>2. TakenCalls' = [TakenCalls EXCEPT ![c] = [Taken(calls[c]) EXCEPT !.phase = "applied"]]
    BY <1>4, <2>1, TakenMoves
  <2>. QED
    BY <2>2 DEF TakenCalls
<1>. QED
  BY <1>2, <1>3, <1>4

LEMMA KeptFacts ==
    ASSUME NEW k \in Keys
    PROVE  /\ KeptBy["mongo"][k] = db[k]
           /\ KeptBy["file"][k] = InFile(k)
           /\ KeptBy["ephemeral"][k] = ram[k]
BY DEF KeptBy, Tiers

\* One tier changes.
LEMMA KeptMoves ==
    ASSUME NEW t \in Tiers, NEW f, f = [k \in Keys |-> f[k]],
           \A k \in Keys : KeptBy'[t][k] = f[k],
           \A u \in Tiers \ {t} : KeptBy'[u] = KeptBy[u]
    PROVE  KeptBy' = [KeptBy EXCEPT ![t] = f]
<1>1. KeptBy'[t] = f
  <2>1. KeptBy'[t] = [k \in Keys |-> KeptBy'[t][k]]
    BY DEF KeptBy
  <2>. QED
    BY <2>1
<1>2. KeptBy' = [u \in Tiers |-> KeptBy'[u]] /\ KeptBy = [u \in Tiers |-> KeptBy[u]]
  BY DEF KeptBy
<1>. QED
  BY <1>1, <1>2

\* The tiers that a write leaves alone.
LEMMA OtherTiers ==
    /\ UNCHANGED db => KeptBy'["mongo"] = KeptBy["mongo"]
    /\ UNCHANGED disk => KeptBy'["file"] = KeptBy["file"]
    /\ UNCHANGED ram => KeptBy'["ephemeral"] = KeptBy["ephemeral"]
BY DEF KeptBy, Tiers, InFile

\* A write that takes effect on tier t, and makes other keys go that may.
LEMMA EffectIsPromised ==
    ASSUME StInv, NEW c \in Callers, NEW gone, mode \in Tiers, UNCHANGED mode,
           calls[c].phase \in {"asked", "writing"},
           calls' = [calls EXCEPT ![c].phase = "placed"],
           gone \subseteq Promise!MayGo(calls[c].key),
           \A k \in Keys :
              KeptBy'[mode][k] = IF k = calls[c].key THEN calls[c].value
                                 ELSE IF k \in gone THEN 0 ELSE KeptBy[mode][k],
           \A t \in Tiers \ {mode} : KeptBy'[t] = KeptBy[t]
    PROVE  Promise!TakeEffect(c)
<1>. DEFINE f == [k \in Keys |-> IF k = TakenCalls[c].key THEN TakenCalls[c].value
                                 ELSE IF k \in gone THEN 0 ELSE KeptBy[mode][k]]
<1>1. /\ TakenCalls[c].key = calls[c].key /\ TakenCalls[c].value = calls[c].value
      /\ TakenCalls[c].phase = "asked"
      /\ TakenCalls' = [TakenCalls EXCEPT ![c].phase = "applied"]
  BY TakenFacts, TakenSteps DEF StInv
<1>2. KeptBy' = [KeptBy EXCEPT ![mode] = f]
  <2>1. \A k \in Keys : KeptBy'[mode][k] = f[k]
    BY <1>1
  <2>2. f = [k \in Keys |-> f[k]]
    OBVIOUS
  <2>. HIDE DEF f
  <2>. QED
    BY <2>1, <2>2, KeptMoves
<1>3. gone \in SUBSET Promise!MayGo(TakenCalls[c].key)
  BY <1>1
<1>. QED
  BY <1>1, <1>2, <1>3 DEF Promise!TakeEffect, Promise!Tiers, Tiers

\* os.replace(): the files of the same name may go.
LEMMA ReplaceIsPromised ==
    ASSUME StInv, NEW c \in Callers, Replace(c)
    PROVE  Promise!TakeEffect(c)
<1>. DEFINE k == calls[c].key
            gone == {j \in Keys \ {k} : NameOf[j] = NameOf[k]}
<1>1. /\ mode = "file" /\ k \in Keys
      /\ disk \in [Names -> [key : Nat, value : 0..MaxWrites]]
      /\ disk' = [disk EXCEPT ![NameOf[k]] = [key |-> k, value |-> calls[c].value]]
  BY DEF StInv, CallsOK, TiersOK, Replace
<1>2. gone \subseteq Promise!MayGo(k)
  BY <1>1 DEF Promise!MayGo
<1>3. ASSUME NEW j \in Keys
      PROVE  KeptBy'["file"][j] = IF j = k THEN calls[c].value
                                  ELSE IF j \in gone THEN 0 ELSE KeptBy["file"][j]
  <2>1. NameOf[j] \in Names /\ NameOf[k] \in Names
    BY <1>1 DEF Names
  <2>2. InFile(j)' = IF j = k THEN calls[c].value
                     ELSE IF NameOf[j] = NameOf[k] THEN 0 ELSE InFile(j)
    BY <1>1, <2>1 DEF InFile
  <2>3. KeptBy'["file"][j] = InFile(j)' /\ KeptBy["file"][j] = InFile(j)
    BY DEF KeptBy, Tiers, InFile
  <2>. QED
    BY <2>2, <2>3
<1>4. \A t \in Tiers \ {"file"} : KeptBy'[t] = KeptBy[t]
  BY OtherTiers DEF Replace, Tiers
<1>5. /\ calls[c].phase = "writing" /\ UNCHANGED mode
      /\ calls' = [calls EXCEPT ![c].phase = "placed"]
  BY DEF Replace, Become
<1>6. /\ mode \in Tiers
      /\ \A j \in Keys : KeptBy'[mode][j] = IF j = k THEN calls[c].value
                                           ELSE IF j \in gone THEN 0 ELSE KeptBy[mode][j]
      /\ \A t \in Tiers \ {mode} : KeptBy'[t] = KeptBy[t]
  BY <1>1, <1>3, <1>4 DEF Tiers
<1>. HIDE DEF gone
<1>. QED
  BY <1>2, <1>5, <1>6, EffectIsPromised

\* replace_one(): nothing goes.
LEMMA ReplaceOneIsPromised ==
    ASSUME StInv, NEW c \in Callers, ReplaceOne(c)
    PROVE  Promise!TakeEffect(c)
<1>. DEFINE gone == {}
<1>1. /\ mode = "mongo" /\ UNCHANGED mode /\ calls[c].phase = "asked"
      /\ calls' = [calls EXCEPT ![c].phase = "placed"]
      /\ db \in [Keys -> 0..MaxWrites]
      /\ db' = [db EXCEPT ![calls[c].key] = calls[c].value]
  BY DEF StInv, TiersOK, ReplaceOne, Become
<1>2. ASSUME NEW j \in Keys
      PROVE  KeptBy'["mongo"][j] = IF j = calls[c].key THEN calls[c].value
                                   ELSE IF j \in {} THEN 0 ELSE KeptBy["mongo"][j]
  BY <1>1 DEF KeptBy, Tiers
<1>3. \A t \in Tiers \ {"mongo"} : KeptBy'[t] = KeptBy[t]
  BY OtherTiers DEF ReplaceOne, Tiers
<1>4. /\ mode \in Tiers
      /\ \A j \in Keys : KeptBy'[mode][j] = IF j = calls[c].key THEN calls[c].value
                                           ELSE IF j \in gone THEN 0 ELSE KeptBy[mode][j]
      /\ \A t \in Tiers \ {mode} : KeptBy'[t] = KeptBy[t]
  BY <1>1, <1>2, <1>3 DEF Tiers
<1>5. gone \subseteq Promise!MayGo(calls[c].key)
  OBVIOUS
<1>. HIDE DEF gone
<1>. QED
  BY <1>1, <1>4, <1>5, EffectIsPromised

\* In memory: the oldest may go when there are too many.
LEMMA RememberIsPromised ==
    ASSUME StInv, NEW c \in Callers, Remember(c)
    PROVE  Promise!TakeEffect(c)
<1>. DEFINE k == calls[c].key
            gone == IF Evicts(c) THEN {order[1]} ELSE {}
<1>1. /\ mode = "ephemeral" /\ UNCHANGED mode /\ calls[c].phase = "asked"
      /\ calls' = [calls EXCEPT ![c].phase = "placed"]
  BY DEF Remember, Become
<1>2. /\ k \in Keys
      /\ Overwrites(c) \/ Adds(c) \/ Evicts(c)
      /\ ram \in [Keys -> 0..MaxWrites]
  BY RememberCases DEF StInv, TiersOK
<1>3. gone \subseteq Promise!MayGo(k)
  <2>1. CASE Evicts(c)
    <3>1. order[1] \in InMemory /\ order[1] # k
      BY <1>2, <2>1, EvictionFacts
    <3>2. Promise!Held = InMemory
      BY <1>1, KeptFacts DEF Promise!Held, InMemory, Keys
    <3>3. k \in Inspections /\ k \notin InMemory
      BY <2>1 DEF Evicts, InMemory
    <3>4. Cardinality(InMemory \cup {k}) > MaxRecords
      <4>1. IsFiniteSet(InMemory)
        BY FS_Subset, StorageAssumption DEF InMemory
      <4>2. Cardinality(InMemory \cup {k}) = Cardinality(InMemory) + 1
        BY <3>3, <4>1, FS_AddElement
      <4>3. Cardinality(InMemory) = MaxRecords
        BY <2>1 DEF StInv, InOrder, Evicts
      <4>. QED
        BY <4>2, <4>3, StorageAssumption
    <3>5. Promise!MayGo(k) = InMemory \ {k}
      <4>1. Promise!MayGo(k) = IF /\ k \in Inspections
                                  /\ Cardinality(Promise!Held \cup {k}) > MaxRecords
                               THEN Promise!Held \ {k} ELSE {}
        BY <1>1, Zenon DEF Promise!MayGo, Promise!Cardinality, Cardinality
      <4>. QED
        BY <3>2, <3>3, <3>4, <4>1
    <3>. QED
      BY <2>1, <3>1, <3>5
  <2>2. CASE ~Evicts(c)
    BY <2>2
  <2>. QED
    BY <2>1, <2>2
<1>4. ASSUME NEW j \in Keys
      PROVE  KeptBy'["ephemeral"][j] = IF j = k THEN calls[c].value
                                       ELSE IF j \in gone THEN 0 ELSE KeptBy["ephemeral"][j]
  <2>1. KeptBy'["ephemeral"][j] = ram'[j] /\ KeptBy["ephemeral"][j] = ram[j]
    BY DEF KeptBy, Tiers
  <2>2. CASE Evicts(c)
    <3>1. order[1] \in Keys /\ order[1] # k
      BY <1>2, <2>2, EvictionFacts
    <3>. QED
      BY <1>2, <2>1, <2>2, <3>1 DEF Evicts
  <2>3. CASE ~Evicts(c)
    <3>1. ram' = [ram EXCEPT ![k] = calls[c].value]
      BY <1>2, <2>3 DEF Overwrites, Adds
    <3>. QED
      BY <1>2, <2>1, <2>3, <3>1
  <2>. QED
    BY <2>2, <2>3
<1>5. \A t \in Tiers \ {"ephemeral"} : KeptBy'[t] = KeptBy[t]
  BY OtherTiers DEF Remember, Tiers
<1>6. /\ mode \in Tiers
      /\ \A j \in Keys : KeptBy'[mode][j] = IF j = k THEN calls[c].value
                                           ELSE IF j \in gone THEN 0 ELSE KeptBy[mode][j]
      /\ \A t \in Tiers \ {mode} : KeptBy'[t] = KeptBy[t]
  BY <1>1, <1>4, <1>5 DEF Tiers
<1>. HIDE DEF gone
<1>. QED
  BY <1>1, <1>3, <1>6, EffectIsPromised

\* What does not touch the stores.
LEMMA CallIsPromised ==
    ASSUME StInv, NEW c \in Callers,
           \/ \E k \in Keys : Ask(c, k)
           \/ Acquire(c) \/ WriteFails(c) \/ MongoFails(c) \/ Return(c)
    PROVE  \/ Promise!Ask(c) \/ Promise!Return(c) \/ Promise!Raise(c)
           \/ UNCHANGED Promise!vars
<1>1. UNCHANGED <<mode, KeptBy>>
  <2>1. UNCHANGED <<mode, db, disk, ram>>
    BY DEF Ask, Acquire, WriteFails, MongoFails, Return, store
  <2>. QED
    BY <2>1 DEF KeptBy, InFile
<1>2. ASSUME NEW k \in Keys, Ask(c, k)
      PROVE  Promise!Ask(c)
  <2>. DEFINE asked == [phase |-> "asked", key |-> k, value |-> written']
  <2>1. /\ mode \in Tiers /\ calls[c] = Idle /\ written' \in Values
        /\ calls' = [calls EXCEPT ![c] = asked]
    BY <1>2, StorageAssumption DEF Ask, StInv, CallsOK, Values
  <2>2. Taken(asked) = asked
    BY DEF Taken
  <2>3. TakenCalls' = [TakenCalls EXCEPT ![c] = asked]
    BY <2>1, <2>2, TakenMoves DEF StInv
  <2>4. TakenCalls[c] = Promise!Idle
    BY <2>1, TakenFacts DEF StInv
  <2>. QED
    BY <1>1, <2>1, <2>3, <2>4 DEF Promise!Ask, Promise!Tiers, Tiers
<1>3. CASE Acquire(c)
  <2>1. TakenCalls' = TakenCalls
    BY <1>3, TakenSteps DEF StInv, Acquire, Become
  <2>. QED
    BY <1>1, <2>1 DEF Promise!vars
<1>4. CASE WriteFails(c) \/ MongoFails(c)
  <2>1. TakenCalls' = [TakenCalls EXCEPT ![c] = Promise!Idle]
    BY <1>4, TakenSteps DEF StInv, WriteFails, MongoFails, Done
  <2>2. TakenCalls[c].phase \in {"asked", "applied"}
    BY <1>4, TakenFacts DEF StInv, WriteFails, MongoFails
  <2>. QED
    BY <1>1, <2>1, <2>2 DEF Promise!Raise
<1>5. CASE Return(c)
  <2>1. TakenCalls' = [TakenCalls EXCEPT ![c] = Promise!Idle]
    BY <1>5, TakenSteps DEF StInv, Return, Done
  <2>2. TakenCalls[c].phase = "applied"
    BY <1>5, TakenFacts DEF StInv, Return
  <2>. QED
    BY <1>1, <2>1, <2>2 DEF Promise!Return
<1>. QED
  BY <1>2, <1>3, <1>4, <1>5

\* A boot loses the memory and the calls, and nothing else.
LEMMA RebootIsPromised ==
    ASSUME StInv, Reboot
    PROVE  Promise!Reboot
<1>1. mode' \in Promise!Tiers \cup {"none"}
  BY DEF Reboot, Open, Opened, Surroundings, Promise!Tiers
<1>2. TakenCalls' = [c \in Callers |-> Promise!Idle]
  BY DEF Reboot, TakenCalls, Taken, Idle, Promise!Idle
<1>3. KeptBy' = [KeptBy EXCEPT !["ephemeral"] = [k \in Keys |-> 0]]
  <2>1. \A k \in Keys : KeptBy'["ephemeral"][k] = 0
    BY DEF Reboot, KeptBy, Tiers
  <2>2. \A t \in Tiers \ {"ephemeral"} : KeptBy'[t] = KeptBy[t]
    BY OtherTiers DEF Reboot, Tiers
  <2>. DEFINE f == [k \in Keys |-> 0]
  <2>3. f = [k \in Keys |-> f[k]] /\ \A k \in Keys : f[k] = 0
    OBVIOUS
  <2>. HIDE DEF f
  <2>4. KeptBy' = [KeptBy EXCEPT !["ephemeral"] = f]
    BY <2>1, <2>2, <2>3, KeptMoves DEF Tiers
  <2>. QED
    BY <2>4 DEF f
<1>. QED
  BY <1>1, <1>2, <1>3 DEF Promise!Reboot

\* It starts as promised, and every step is promised or a stutter.
LEMMA InitIsPromised == Init => Promise!Init
<1>. SUFFICES ASSUME Init PROVE Promise!Init
  OBVIOUS
<1>1. mode \in Promise!Tiers \cup {"none"}
  BY DEF Init, Opened, Surroundings, Promise!Tiers
<1>2. TakenCalls = [c \in Callers |-> Promise!Idle]
  BY DEF Init, TakenCalls, Taken, Idle, Promise!Idle
<1>3. KeptBy = [t \in Promise!Tiers |-> [k \in Keys |-> 0]]
  <2>1. \A k \in Keys : InFile(k) = 0 /\ db[k] = 0 /\ ram[k] = 0
    BY DEF Init, InFile, NoFile, Names
  <2>. QED
    BY <2>1 DEF KeptBy, Tiers, Promise!Tiers
<1>. QED
  BY <1>1, <1>2, <1>3 DEF Promise!Init

LEMMA StepIsPromised == StInv /\ [Next]_vars => [Promise!Next]_(Promise!vars)
<1>. SUFFICES ASSUME StInv, [Next]_vars PROVE [Promise!Next]_(Promise!vars)
  OBVIOUS
<1>1. CASE UNCHANGED vars
  BY <1>1 DEF vars, store, Promise!vars, KeptBy, InFile, TakenCalls
<1>2. CASE Reboot
  BY <1>2, RebootIsPromised DEF Promise!Next
<1>3. ASSUME NEW c \in Callers, (\E k \in Keys : Ask(c, k)) \/ Proceed(c)
      PROVE  [Promise!Next]_(Promise!vars)
  <2>1. \/ Promise!Ask(c) \/ Promise!TakeEffect(c) \/ Promise!Return(c) \/ Promise!Raise(c)
        \/ UNCHANGED Promise!vars
    BY <1>3, CallIsPromised, ReplaceIsPromised, ReplaceOneIsPromised, RememberIsPromised
    DEF Proceed
  <2>. QED
    BY <2>1 DEF Promise!Next
<1>. QED
  BY <1>1, <1>2, <1>3 DEF Next

(***************************************************************************)
(* What the storage promises, whichever tier the boots open.               *)
(***************************************************************************)

\* Every write is atomic and durable as far as its tier goes, over failures and boots.
THEOREM Implements == Spec => KeepsPromise
BY InitIsPromised, StepIsPromised, StorageInvariant, PTL DEF Spec, KeepsPromise, Promise!Spec

\* Requests that read do not write.
THEOREM ReadsImplementStorage == ReadsSpec => Spec
<1>1. ReadsInit => Init
  BY DEF ReadsInit
<1>2. [ReadsNext]_readVars => [Next]_vars
  <2>. SUFFICES ASSUME [ReadsNext]_readVars PROVE [Next]_vars
    OBVIOUS
  <2>1. CASE Save
    BY <2>1 DEF Save, Next, Keys
  <2>2. CASE ReadsReboot
    BY <2>2 DEF ReadsReboot, Next
  <2>3. CASE Read \/ UNCHANGED readVars \/ UNCHANGED vars
    BY <2>3 DEF Read, readVars
  <2>. QED
    BY <2>1, <2>2, <2>3 DEF ReadsNext
<1>. QED
  BY <1>1, <1>2, PTL DEF ReadsSpec, Spec

(***************************************************************************)
(* Lists of ids: sorted enumerations, selections and beginnings.           *)
(***************************************************************************)

\* A list of ids in which each stands in the relation R to all that follow.
Ordered(seq, R) == \A i, j \in 1 .. Len(seq) : i < j => <<seq[i], seq[j]>> \in R

Smaller == {p \in Nat \X Nat : p[1] < p[2]}
Larger == {p \in Nat \X Nat : p[1] > p[2]}

\* seq enumerates ids from the smallest to the largest.
Enumerates(seq, ids) ==
    /\ seq \in [1 .. Cardinality(ids) -> ids]
    /\ \A i, j \in 1 .. Cardinality(ids) : i < j => seq[i] < seq[j]

LEMMA LeastOf ==
    ASSUME NEW S, S \subseteq Nat, S # {}
    PROVE  \E n \in S : \A m \in S : n <= m
<1>1. PICK n \in S : \A m \in S : ~(<<m, n>> \in OpToRel(<, Nat))
  BY NatLessThanWellFounded, WFMin
<1>2. \A m \in S : ~(m < n)
  BY <1>1 DEF OpToRel
<1>. QED
  BY <1>2

LEMMA EnumerationWithLeast ==
    ASSUME NEW ids, ids \subseteq Nat, IsFiniteSet(ids), NEW m \in ids,
           \A k \in ids : m <= k, NEW rest, Enumerates(rest, ids \ {m})
    PROVE  \E seq : Enumerates(seq, ids)
<1>. DEFINE n == Cardinality(ids)
            seq == [i \in 1 .. n |-> IF i = 1 THEN m ELSE rest[i - 1]]
<1>1. n \in Nat /\ Cardinality(ids \ {m}) = n - 1
  BY FS_CardinalityType, FS_RemoveElement
<1>. HIDE DEF n
<1>2. ASSUME NEW i \in 1 .. n, i # 1
      PROVE  rest[i - 1] \in ids /\ m < rest[i - 1]
  <2>1. i - 1 \in 1 .. (n - 1)
    BY <1>1, <1>2
  <2>2. rest[i - 1] \in ids \ {m}
    BY <1>1, <2>1 DEF Enumerates
  <2>3. ASSUME NEW k \in ids, k # m
        PROVE  m < k
    BY <2>3
  <2>. QED
    BY <2>2, <2>3
<1>3. seq \in [1 .. n -> ids]
  BY <1>2
<1>4. ASSUME NEW i \in 1 .. n, NEW j \in 1 .. n, i < j
      PROVE  seq[i] < seq[j]
  <2>1. j # 1 /\ j - 1 \in 1 .. (n - 1)
    BY <1>1, <1>4
  <2>2. CASE i = 1
    BY <1>2, <2>1, <2>2
  <2>3. CASE i # 1
    <3>1. i - 1 \in 1 .. (n - 1) /\ i - 1 < j - 1
      BY <1>1, <1>4, <2>3
    <3>2. rest[i - 1] < rest[j - 1]
      BY <1>1, <2>1, <3>1 DEF Enumerates
    <3>. QED
      BY <2>1, <2>3, <3>2
  <2>. QED
    BY <2>2, <2>3
<1>. HIDE DEF seq
<1>. QED
  BY <1>3, <1>4 DEF Enumerates, n

\* There is an enumeration, or there would be a smallest set without one.
LEMMA EnumerationExists ==
    ASSUME NEW ids, ids \subseteq Nat, IsFiniteSet(ids)
    PROVE  \E seq : Enumerates(seq, ids)
<1>. DEFINE without == {S \in SUBSET Nat : IsFiniteSet(S) /\ ~\E seq : Enumerates(seq, S)}
            sizes == {n \in Nat : \E S \in without : Cardinality(S) = n}
<1>. SUFFICES ASSUME ids \in without PROVE FALSE
  OBVIOUS
<1>1. Cardinality(ids) \in sizes
  BY FS_CardinalityType
<1>2. PICK n \in sizes : \A m \in sizes : n <= m
  <2>1. sizes \subseteq Nat /\ sizes # {}
    BY <1>1
  <2>. HIDE DEF sizes
  <2>. QED
    BY <2>1, LeastOf
<1>3. PICK S \in without : Cardinality(S) = n
  BY <1>2
<1>4. S \subseteq Nat /\ IsFiniteSet(S) /\ ~\E seq : Enumerates(seq, S)
  BY <1>3
<1>5. S # {}
  <2>1. Cardinality({}) = 0
    BY FS_EmptySet
  <2>2. Enumerates(<<>>, {})
    BY <2>1 DEF Enumerates
  <2>. QED
    BY <1>4, <2>2
<1>6. PICK m \in S : \A k \in S : m <= k
  BY <1>4, <1>5, LeastOf
<1>7. /\ S \ {m} \subseteq Nat /\ IsFiniteSet(S \ {m})
      /\ n \in Nat /\ Cardinality(S \ {m}) = n - 1
  BY <1>2, <1>3, <1>4, FS_RemoveElement
<1>8. n - 1 \in Nat
  BY <1>7, FS_CardinalityType
<1>9. S \ {m} \notin without
  <2>1. ~(n <= n - 1)
    BY <1>7
  <2>. QED
    BY <1>2, <1>7, <1>8, <2>1
<1>10. PICK rest : Enumerates(rest, S \ {m})
  BY <1>7, <1>9
<1>. QED
  BY <1>4, <1>6, <1>10, EnumerationWithLeast

\* A list without repetition has as many items as its set.
LEMMA OrderedCounts ==
    ASSUME NEW T, NEW seq \in Seq(T), NEW R, \A x \in T : <<x, x>> \notin R, Ordered(seq, R)
    PROVE  /\ IsFiniteSet(ToSet(seq)) /\ Cardinality(ToSet(seq)) = Len(seq)
           /\ \A i, j \in 1 .. Len(seq) : seq[i] = seq[j] => i = j
<1>1. Len(seq) \in Nat /\ DOMAIN seq = 1 .. Len(seq) /\ seq \in [1 .. Len(seq) -> T]
  OBVIOUS
<1>2. ASSUME NEW i \in 1 .. Len(seq), NEW j \in 1 .. Len(seq), seq[i] = seq[j], i # j
      PROVE  FALSE
  <2>1. seq[i] \in T /\ <<seq[i], seq[i]>> \notin R
    BY <1>1
  <2>2. i < j \/ j < i
    BY <1>1, <1>2
  <2>. QED
    BY <1>2, <2>1, <2>2 DEF Ordered
<1>3. seq \in Bijection(1 .. Len(seq), ToSet(seq))
  BY <1>1, <1>2 DEF Bijection, Injection, Surjection, IsInjective, ToSet
<1>4. IsFiniteSet(1 .. Len(seq)) /\ Cardinality(1 .. Len(seq)) = Len(seq)
  <2>. DEFINE n == Len(seq)
  <2>1. n \in Nat /\ 1 \in Int /\ n \in Int
    BY <1>1
  <2>. HIDE DEF n
  <2>2. IsFiniteSet(1 .. n) /\ Cardinality(1 .. n) = IF 1 > n THEN 0 ELSE n - 1 + 1
    BY <2>1, FS_Interval
  <2>3. (IF 1 > n THEN 0 ELSE n - 1 + 1) = n
    BY <2>1
  <2>. QED
    BY <2>2, <2>3 DEF n
<1>. QED
  BY <1>2, <1>3, <1>4, FS_Bijection DEF ExistsBijection

LEMMA AscendingFacts ==
    ASSUME NEW ids, ids \subseteq Nat, IsFiniteSet(ids)
    PROVE  /\ Ascending(ids) \in Seq(ids) /\ Len(Ascending(ids)) = Cardinality(ids)
           /\ ToSet(Ascending(ids)) = ids
           /\ Ordered(Ascending(ids), Smaller)
<1>. DEFINE n == Cardinality(ids)
            seq == Ascending(ids)
<1>1. n \in Nat
  BY FS_CardinalityType
<1>2. Enumerates(seq, ids)
  <2>1. \E s \in [1 .. n -> ids] : \A i, j \in DOMAIN s : i < j => s[i] < s[j]
    BY EnumerationExists DEF Enumerates
  <2>. QED
    BY <2>1 DEF Enumerates, Ascending
<1>. HIDE DEF seq
<1>3. seq \in [1 .. n -> ids]
  BY <1>2 DEF Enumerates
<1>. HIDE DEF n
<1>4. seq \in Seq(ids) /\ Len(seq) = n
  BY <1>1, <1>3
<1>5. Ordered(seq, Smaller)
  <2>1. \A i \in 1 .. n : seq[i] \in Nat
    BY <1>3
  <2>. QED
    BY <1>2, <1>4, <2>1 DEF Ordered, Smaller, Enumerates, n
<1>6. ToSet(seq) = ids
  <2>1. Cardinality(ToSet(seq)) = n
    <3>1. \A x \in ids : <<x, x>> \notin Smaller
      BY DEF Smaller
    <3>. QED
      BY <1>4, <1>5, <3>1, OrderedCounts
  <2>2. ToSet(seq) \subseteq ids
    BY <1>3 DEF ToSet
  <2>. QED
    BY <2>1, <2>2, FS_Subset DEF n
<1>. QED
  BY <1>4, <1>5, <1>6 DEF n, seq

LEMMA ReverseFacts ==
    ASSUME NEW T, NEW seq \in Seq(T)
    PROVE  /\ Reverse(seq) \in Seq(T) /\ Len(Reverse(seq)) = Len(seq) /\ Len(seq) \in Nat
           /\ \A i \in 1 .. Len(seq) : /\ Len(seq) - i + 1 \in 1 .. Len(seq)
                                       /\ Reverse(seq)[i] = seq[Len(seq) - i + 1]
           /\ ToSet(Reverse(seq)) = ToSet(seq)
<1>. DEFINE n == Len(seq)
            rev == Reverse(seq)
<1>1. n \in Nat /\ DOMAIN seq = 1 .. n /\ seq \in [1 .. n -> T]
  OBVIOUS
<1>2. rev = [i \in 1 .. n |-> seq[(n - i) + 1]]
  BY DEF Reverse
<1>. HIDE DEF n, rev
<1>3. \A i \in 1 .. n : n - i + 1 \in 1 .. n /\ n - (n - i + 1) + 1 = i
  BY <1>1
<1>4. rev \in [1 .. n -> T]
  BY <1>1, <1>2, <1>3
<1>5. rev \in Seq(T) /\ Len(rev) = n /\ DOMAIN rev = 1 .. n
  BY <1>1, <1>4
<1>6. \A i \in 1 .. n : rev[i] = seq[n - i + 1]
  BY <1>2
<1>7. ToSet(rev) = ToSet(seq)
  <2>1. \A i \in 1 .. n : rev[i] \in ToSet(seq)
    BY <1>1, <1>3, <1>6 DEF ToSet
  <2>2. \A i \in 1 .. n : seq[i] \in ToSet(rev)
    <3>. SUFFICES ASSUME NEW i \in 1 .. n PROVE seq[i] \in ToSet(rev)
      OBVIOUS
    <3>1. rev[n - i + 1] = seq[i]
      BY <1>3, <1>6
    <3>. QED
      BY <1>3, <1>5, <3>1 DEF ToSet
  <2>. QED
    BY <1>1, <1>5, <2>1, <2>2 DEF ToSet
<1>. QED
  BY <1>1, <1>3, <1>5, <1>6, <1>7 DEF n, rev

LEMMA NewestFirstFacts ==
    ASSUME NEW ids, ids \subseteq Nat, IsFiniteSet(ids)
    PROVE  /\ NewestFirst(ids) \in Seq(ids) /\ ToSet(NewestFirst(ids)) = ids
           /\ Ordered(NewestFirst(ids), Larger)
<1>. DEFINE asc == Ascending(ids)
            rev == NewestFirst(ids)
            n == Len(asc)
<1>1. asc \in Seq(ids) /\ ToSet(asc) = ids /\ Ordered(asc, Smaller)
  BY AscendingFacts
<1>. HIDE DEF asc
<1>2. /\ rev \in Seq(ids) /\ Len(rev) = n /\ n \in Nat /\ ToSet(rev) = ids
      /\ \A i \in 1 .. n : n - i + 1 \in 1 .. n /\ rev[i] = asc[n - i + 1]
  BY <1>1, ReverseFacts DEF NewestFirst, asc
<1>. HIDE DEF rev, n
<1>3. ASSUME NEW i \in 1 .. n, NEW j \in 1 .. n, i < j
      PROVE  <<rev[i], rev[j]>> \in Larger
  <2>1. n - j + 1 < n - i + 1
    BY <1>2, <1>3
  <2>2. <<asc[n - j + 1], asc[n - i + 1]>> \in Smaller
    BY <1>1, <1>2, <2>1 DEF Ordered, n
  <2>3. <<rev[j], rev[i]>> \in Smaller
    BY <1>2, <2>2
  <2>. QED
    BY <2>3 DEF Smaller, Larger
<1>4. Ordered(rev, Larger)
  BY <1>2, <1>3 DEF Ordered
<1>. QED
  BY <1>2, <1>4 DEF rev

LEMMA AmongFacts ==
    ASSUME NEW T, NEW seq \in Seq(T), NEW ids, NEW R
    PROVE  /\ Among(seq, ids) \in Seq(T \cap ids)
           /\ ToSet(Among(seq, ids)) = ToSet(seq) \cap ids
           /\ Ordered(seq, R) => Ordered(Among(seq, ids), R)
<1>. DEFINE n == Len(seq)
            picks == {i \in DOMAIN seq : seq[i] \in ids}
            at == Ascending(picks)
            res == Among(seq, ids)
<1>1. n \in Nat /\ DOMAIN seq = 1 .. n /\ seq \in [1 .. n -> T]
  OBVIOUS
<1>2. picks \subseteq Nat /\ IsFiniteSet(picks)
  <2>1. picks \in SUBSET Nat /\ \A i \in picks : i <= n
    BY <1>1
  <2>. HIDE DEF picks, n
  <2>. QED
    BY <1>1, <2>1, FS_BoundedSetOfNaturals
<1>3. at \in Seq(picks) /\ ToSet(at) = picks /\ Ordered(at, Smaller)
  <2>. HIDE DEF picks
  <2>. QED
    BY <1>2, AscendingFacts
<1>4. res = [m \in DOMAIN at |-> seq[at[m]]]
  BY DEF Among
<1>5. \A i \in picks : i \in 1 .. n /\ seq[i] \in T \cap ids
  BY <1>1
<1>6. \A i \in 1 .. n : seq[i] \in ids => i \in picks
  BY <1>1
<1>. HIDE DEF picks, at, res
<1>7. Len(at) \in Nat /\ DOMAIN at = 1 .. Len(at) /\ at \in [1 .. Len(at) -> picks]
  BY <1>3
<1>8. res \in [1 .. Len(at) -> T \cap ids]
  BY <1>4, <1>5, <1>7
<1>9. res \in Seq(T \cap ids) /\ Len(res) = Len(at) /\ DOMAIN res = 1 .. Len(at)
  BY <1>7, <1>8
<1>10. \A m \in 1 .. Len(at) : res[m] = seq[at[m]]
  BY <1>4, <1>7
<1>11. ToSet(res) = ToSet(seq) \cap ids
  <2>1. ToSet(res) = {seq[i] : i \in picks}
    <3>1. ToSet(res) = {seq[at[m]] : m \in 1 .. Len(at)}
      BY <1>9, <1>10 DEF ToSet
    <3>2. picks = {at[m] : m \in 1 .. Len(at)}
      BY <1>3, <1>7 DEF ToSet
    <3>. QED
      BY <3>1, <3>2
  <2>2. {seq[i] : i \in picks} = ToSet(seq) \cap ids
    BY <1>1, <1>5, <1>6 DEF ToSet
  <2>. QED
    BY <2>1, <2>2
<1>12. ASSUME Ordered(seq, R)
       PROVE  Ordered(res, R)
  <2>. SUFFICES ASSUME NEW i \in 1 .. Len(at), NEW j \in 1 .. Len(at), i < j
                PROVE  <<res[i], res[j]>> \in R
    BY <1>9 DEF Ordered
  <2>1. <<at[i], at[j]>> \in Smaller
    BY <1>3 DEF Ordered
  <2>2. at[i] < at[j] /\ at[i] \in 1 .. n /\ at[j] \in 1 .. n
    BY <1>5, <1>7, <2>1 DEF Smaller
  <2>. QED
    BY <1>10, <1>12, <2>2 DEF Ordered
<1>. QED
  BY <1>9, <1>11, <1>12 DEF res

\* The first n of a list: all of it, or n items; what is missing comes after them.
LEMMA FirstOfFacts ==
    ASSUME NEW T, NEW seq \in Seq(T), NEW n \in Nat, NEW R, Ordered(seq, R)
    PROVE  LET first == FirstOf(seq, n)
           IN  /\ first \in Seq(T) /\ Len(first) = (IF Len(seq) < n THEN Len(seq) ELSE n)
               /\ Len(seq) \in Nat
               /\ \A i \in 1 .. Len(first) : i \in 1 .. Len(seq) /\ first[i] = seq[i]
               /\ ToSet(first) \subseteq ToSet(seq)
               /\ Ordered(first, R)
               /\ \A x \in ToSet(seq) \ ToSet(first) :
                    Len(first) = n /\ Len(seq) > n /\ \A y \in ToSet(first) : <<y, x>> \in R
<1>. DEFINE len == Len(seq)
            most == IF len < n THEN len ELSE n
            first == FirstOf(seq, n)
<1>1. len \in Nat /\ DOMAIN seq = 1 .. len /\ seq \in [1 .. len -> T]
  OBVIOUS
<1>2. first = SubSeq(seq, 1, most)
  BY DEF FirstOf
<1>. HIDE DEF len
<1>3. most \in Nat /\ most <= len /\ ((most = len /\ ~(len > n)) \/ (most = n /\ len > n))
  BY <1>1
<1>. HIDE DEF most, first
<1>4. \A i \in 1 .. most : i \in 1 .. len /\ seq[i] \in T
  BY <1>1, <1>3
<1>5. /\ first \in Seq(T) /\ Len(first) = most /\ DOMAIN first = 1 .. most
      /\ \A i \in 1 .. most : first[i] = seq[i]
  <2>1. first = [i \in 1 .. most |-> seq[i]]
    BY <1>1, <1>3, <1>2, <1>4
  <2>2. first \in [1 .. most -> T]
    BY <1>4, <2>1
  <2>. QED
    BY <1>3, <2>1, <2>2
<1>6. ToSet(first) \subseteq ToSet(seq)
  BY <1>1, <1>4, <1>5 DEF ToSet
<1>7. Ordered(first, R)
  BY <1>4, <1>5 DEF Ordered, len
<1>8. ASSUME NEW x \in ToSet(seq) \ ToSet(first)
      PROVE  most = n /\ len > n /\ \A y \in ToSet(first) : <<y, x>> \in R
  <2>1. PICK i \in 1 .. len : x = seq[i]
    BY <1>1 DEF ToSet
  <2>2. i \notin 1 .. most
    BY <1>5, <1>8, <2>1 DEF ToSet
  <2>3. i > most /\ most = n /\ len > n
    BY <1>1, <1>3, <2>1, <2>2
  <2>4. ASSUME NEW y \in ToSet(first)
        PROVE  <<y, x>> \in R
    <3>1. PICK j \in 1 .. most : y = seq[j]
      BY <1>5 DEF ToSet
    <3>2. j < i /\ j \in 1 .. len
      BY <1>3, <1>4, <2>3, <3>1
    <3>. QED
      BY <2>1, <3>1, <3>2 DEF Ordered, len
  <2>. QED
    BY <2>3, <2>4
<1>. QED
  BY <1>1, <1>4, <1>5, <1>6, <1>7, <1>8 DEF len, most, first

(***************************************************************************)
(* What list() may answer, and what is made of it.                         *)
(***************************************************************************)
Above == {p \in Inspections \X Inspections : Newer(p[1], p[2])}

LEMMA AboveIsStrict ==
    ASSUME StInv
    PROVE  \A x \in Inspections : <<x, x>> \notin Above
<1>. SUFFICES ASSUME NEW x \in Inspections, Newer(x, x) PROVE FALSE
  BY DEF Above
<1>1. x \in Nat
  BY StorageAssumption
<1>2. mode = "ephemeral"
  BY <1>1 DEF Newer
<1>3. PICK m, n \in DOMAIN order : order[m] = x /\ order[n] = x /\ m > n
  BY <1>2 DEF Newer
<1>4. /\ DOMAIN order = 1 .. Len(order) /\ Len(order) \in Nat
      /\ \A i, j \in 1 .. Len(order) : order[i] = order[j] => i = j
  <2>1. order \in Seq(Inspections)
    BY DEF StInv, InOrder
  <2>2. DOMAIN order = 1 .. Len(order) /\ Len(order) \in Nat
    BY <2>1
  <2>3. \A i, j \in 1 .. Len(order) : order[i] = order[j] => i = j
    BY DEF StInv, InOrder
  <2>. QED
    BY <2>2, <2>3
<1>. QED
  BY <1>3, <1>4

LEMMA StoredFacts ==
    Stored \subseteq Inspections /\ IsFiniteSet(Inspections) /\ Inspections \subseteq Nat
    /\ \A ids \in SUBSET Inspections : ids \subseteq Nat /\ IsFiniteSet(ids)
BY StorageAssumption, FS_Subset DEF Stored

LEMMA ListingFacts ==
    ASSUME StInv, mode \in Tiers, NEW r, r.before \subseteq Stored, NEW listed \in Listings(r)
    PROVE  /\ listed \in Seq(Inspections)
           /\ r.before \subseteq ToSet(listed) /\ ToSet(listed) \subseteq Stored
           /\ mode # "ephemeral" => Ordered(listed, Larger)
           /\ Ordered(listed, Above)
<1>1. ASSUME mode # "ephemeral", NEW ids, r.before \subseteq ids, ids \subseteq Stored,
             listed = NewestFirst(ids)
      PROVE  /\ listed \in Seq(Inspections)
             /\ r.before \subseteq ToSet(listed) /\ ToSet(listed) \subseteq Stored
             /\ Ordered(listed, Larger) /\ Ordered(listed, Above)
  <2>1. ids \subseteq Nat /\ IsFiniteSet(ids) /\ ids \subseteq Inspections
    BY <1>1, StoredFacts
  <2>2. listed \in Seq(ids) /\ ToSet(listed) = ids /\ Ordered(listed, Larger)
    BY <1>1, <2>1, NewestFirstFacts
  <2>3. /\ listed \in Seq(Inspections)
        /\ \A i \in 1 .. Len(listed) : listed[i] \in Inspections
    BY <2>1, <2>2
  <2>4. Ordered(listed, Above)
    <3>. SUFFICES ASSUME NEW i \in 1 .. Len(listed), NEW j \in 1 .. Len(listed), i < j
                  PROVE  <<listed[i], listed[j]>> \in Above
      BY DEF Ordered
    <3>1. <<listed[i], listed[j]>> \in Larger
      BY <2>2 DEF Ordered
    <3>. QED
      BY <1>1, <2>3, <3>1 DEF Larger, Above, Newer
  <2>. QED
    BY <1>1, <2>2, <2>3, <2>4
<1>2. CASE mode = "mongo"
  <2>1. listed = NewestFirst(Stored)
    BY <1>2 DEF Listings
  <2>. QED
    BY <1>1, <1>2, <2>1
<1>3. CASE mode = "file"
  <2>1. PICK late \in SUBSET (Stored \ r.before) : listed = NewestFirst(r.before \cup late)
    BY <1>3 DEF Listings
  <2>2. r.before \subseteq r.before \cup late /\ r.before \cup late \subseteq Stored
    OBVIOUS
  <2>. QED
    BY <1>1, <1>3, <2>1, <2>2
<1>4. CASE mode = "ephemeral"
  <2>. DEFINE n == Len(order)
  <2>1. order \in Seq(Inspections) /\ InMemory = {order[i] : i \in 1 .. n}
    BY DEF StInv, InOrder
  <2>2. listed = Reverse(order)
    BY <1>4 DEF Listings
  <2>3. /\ listed \in Seq(Inspections) /\ Len(listed) = n /\ n \in Nat
        /\ \A i \in 1 .. n : n - i + 1 \in 1 .. n /\ listed[i] = order[n - i + 1]
        /\ ToSet(listed) = ToSet(order)
    BY <2>1, <2>2, ReverseFacts
  <2>4. DOMAIN order = 1 .. n /\ \A i \in 1 .. n : order[i] \in Inspections
    BY <2>1
  <2>. HIDE DEF n
  <2>5. ToSet(order) = Stored
    <3>1. InMemory = Stored
      BY <1>4 DEF InMemory, Stored, Reads
    <3>2. ToSet(order) = {order[i] : i \in 1 .. n}
      BY <2>4 DEF ToSet
    <3>. QED
      BY <2>1, <3>1, <3>2
  <2>6. ASSUME NEW i \in 1 .. n, NEW j \in 1 .. n, i < j
        PROVE  <<listed[i], listed[j]>> \in Above
    <3>1. n - i + 1 > n - j + 1
      BY <2>3, <2>6
    <3>2. /\ n - i + 1 \in DOMAIN order /\ order[n - i + 1] = listed[i]
          /\ n - j + 1 \in DOMAIN order /\ order[n - j + 1] = listed[j]
      BY <2>3, <2>4
    <3>3. Newer(listed[i], listed[j])
      BY <1>4, <3>1, <3>2 DEF Newer
    <3>. QED
      BY <2>4, <3>2, <3>3 DEF Above
  <2>. QED
    BY <1>4, <2>3, <2>5, <2>6 DEF Ordered
<1>. QED
  BY <1>2, <1>3, <1>4 DEF Tiers

(***************************************************************************)
(* The invariant of the requests that read: what was stored when a listing *)
(* began is stored still.                                                  *)
(***************************************************************************)
Reading ==
    /\ mode \in Tiers
    /\ read.kind \in {"page", "chat"} /\ read.scope \in {"all", "own"}
    /\ read.before \subseteq Stored /\ read.copied \subseteq Inspections

ReadsInv ==
    /\ states \in Seq(Inspections)
    /\ read.phase = "listing" => Reading

LEMMA PageOf ==
    ASSUME StInv, Reading, read.kind = "page", NEW listed \in Listings(read)
    PROVE  LET page   == Page(read, listed)
               before == read.before \cap Permitted(read.scope)
               now    == Stored \cap Permitted(read.scope)
               sure   == /\ read.before = Stored
                         /\ ~page.truncated \/ Cardinality(Stored) <= ScanCap
           IN  /\ page.shown \in Seq(Inspections) /\ ToSet(page.shown) \subseteq now
               /\ Ordered(page.shown, Above)
               /\ \A k \in before \ ToSet(page.shown) :
                    /\ \A j \in ToSet(page.shown) : <<j, k>> \in Above
                    /\ sure => Len(page.shown) = Limit
               /\ page.total <= Cardinality(now)
               /\ sure => page.total = Cardinality(now)
<1>. DEFINE fetch == Fetch(read)
            mine == Permitted(read.scope)
            scanned == FirstOf(listed, fetch)
            visible == Among(scanned, mine)
            shown == FirstOf(visible, Limit)
            stored == Counted(read, listed)
            page == Page(read, listed)
            now == Stored \cap mine
            sure == /\ read.before = Stored
                    /\ ~page.truncated \/ Cardinality(Stored) <= ScanCap
<1>1. /\ page.shown = shown
      /\ page.total = IF read.scope = "all" THEN stored ELSE Len(visible)
      /\ page.truncated = (read.scope # "all" /\ stored > Len(scanned))
  BY DEF Page
<1>2. fetch \in Nat /\ Limit \in Nat /\ ScanCap \in Nat
  BY ReadsAssumption DEF Fetch
<1>3. /\ listed \in Seq(Inspections)
      /\ read.before \subseteq ToSet(listed) /\ ToSet(listed) \subseteq Stored
      /\ Ordered(listed, Above)
  BY ListingFacts DEF Reading
<1>4. /\ mine \subseteq Inspections
      /\ read.scope = "all" => mine = Inspections /\ fetch = Limit
      /\ read.scope # "all" => fetch = ScanCap
  BY ReadsAssumption DEF Permitted, Fetch
<1>5. stored = IF mode = "mongo" THEN Cardinality(read.before) ELSE Len(listed)
  BY DEF Counted
<1>. HIDE DEF fetch, mine, page, stored
<1>6. /\ scanned \in Seq(Inspections) /\ Ordered(scanned, Above)
      /\ Len(scanned) \in Nat /\ Len(listed) \in Nat
      /\ ToSet(scanned) \subseteq ToSet(listed)
      /\ \A x \in ToSet(listed) \ ToSet(scanned) :
           /\ Len(scanned) = fetch /\ Len(listed) > fetch
           /\ \A y \in ToSet(scanned) : <<y, x>> \in Above
  <2>1. scanned \in Seq(Inspections)
    BY <1>2, <1>3, FirstOfFacts
  <2>2. Len(scanned) \in Nat
    BY <2>1
  <2>. QED
    BY <1>2, <1>3, <2>1, <2>2, FirstOfFacts
<1>. HIDE DEF scanned
<1>7. /\ visible \in Seq(Inspections) /\ Ordered(visible, Above)
      /\ ToSet(visible) = ToSet(scanned) \cap mine
  <2>1. visible \in Seq(Inspections \cap mine)
    BY <1>6, AmongFacts
  <2>. QED
    BY <1>6, <2>1, AmongFacts
<1>. HIDE DEF visible
<1>8. /\ shown \in Seq(Inspections) /\ Ordered(shown, Above)
      /\ ToSet(shown) \subseteq ToSet(visible)
      /\ \A x \in ToSet(visible) \ ToSet(shown) :
           Len(shown) = Limit /\ \A y \in ToSet(shown) : <<y, x>> \in Above
      /\ Len(shown) = IF Len(visible) < Limit THEN Len(visible) ELSE Limit
  BY <1>2, <1>7, FirstOfFacts
<1>. HIDE DEF shown
<1>9. /\ IsFiniteSet(ToSet(listed)) /\ Cardinality(ToSet(listed)) = Len(listed)
      /\ IsFiniteSet(ToSet(scanned)) /\ Cardinality(ToSet(scanned)) = Len(scanned)
      /\ IsFiniteSet(ToSet(visible)) /\ Cardinality(ToSet(visible)) = Len(visible)
  BY <1>3, <1>6, <1>7, AboveIsStrict, OrderedCounts
<1>10. /\ IsFiniteSet(Stored) /\ Cardinality(Stored) \in Nat
       /\ IsFiniteSet(now) /\ Cardinality(now) \in Nat
  BY StoredFacts, FS_Subset, FS_CardinalityType
<1>11. /\ stored \in Nat /\ stored <= Cardinality(Stored)
       /\ read.before = Stored => /\ stored = Cardinality(Stored)
                                  /\ Len(listed) = Cardinality(Stored)
  <2>1. Cardinality(read.before) \in Nat /\ Cardinality(read.before) <= Cardinality(Stored)
    BY <1>10, FS_Subset, FS_CardinalityType DEF Reading
  <2>2. Len(listed) \in Nat /\ Len(listed) <= Cardinality(Stored)
    BY <1>3, <1>6, <1>9, <1>10, FS_Subset
  <2>3. ASSUME read.before = Stored
        PROVE  Len(listed) = Cardinality(Stored)
    <3>1. ToSet(listed) = Stored
      BY <1>3, <2>3
    <3>. QED
      BY <1>9, <3>1
  <2>. QED
    BY <1>5, <2>1, <2>2, <2>3
\* A sure page of one station has scanned everything.
<1>12. ASSUME sure, read.scope # "all"
       PROVE  ToSet(scanned) = Stored
  <2>. SUFFICES ASSUME NEW x \in ToSet(listed) \ ToSet(scanned) PROVE FALSE
    BY <1>3, <1>6, <1>12
  <2>1. Len(scanned) = ScanCap /\ Len(listed) > ScanCap
    BY <1>4, <1>6, <1>12
  <2>2. stored > Len(scanned) /\ ~(Cardinality(Stored) <= ScanCap)
    BY <1>2, <1>6, <1>10, <1>11, <1>12, <2>1
  <2>3. page.truncated
    BY <1>1, <1>12, <2>2
  <2>. QED
    BY <1>12, <2>2, <2>3
<1>13. ASSUME read.scope = "all"
       PROVE  Len(visible) = Len(scanned) /\ now = Stored /\ ToSet(visible) = ToSet(scanned)
  <2>1. ToSet(scanned) \subseteq Inspections
    BY <1>3, <1>6, StoredFacts
  <2>2. ToSet(visible) = ToSet(scanned)
    BY <1>4, <1>7, <1>13, <2>1
  <2>. QED
    BY <1>4, <1>9, <1>13, <2>2, StoredFacts
<1>14. page.total <= Cardinality(now) /\ (sure => page.total = Cardinality(now))
  <2>1. CASE read.scope = "all"
    BY <1>1, <1>11, <1>13, <2>1
  <2>2. CASE read.scope # "all"
    <3>1. ToSet(visible) \subseteq now
      BY <1>3, <1>6, <1>7
    <3>2. Len(visible) <= Cardinality(now)
      BY <1>9, <1>10, <3>1, FS_Subset
    <3>3. sure => ToSet(visible) = now
      BY <1>7, <1>12, <2>2
    <3>. QED
      BY <1>1, <1>9, <2>2, <3>2, <3>3
  <2>. QED
    BY <2>1, <2>2
<1>15. ASSUME NEW k \in (read.before \cap mine) \ ToSet(shown)
       PROVE  /\ \A j \in ToSet(shown) : <<j, k>> \in Above
              /\ sure => Len(shown) = Limit
  <2>1. CASE k \in ToSet(scanned)
    <3>1. k \in ToSet(visible) \ ToSet(shown)
      BY <1>7, <1>15, <2>1
    <3>. QED
      BY <1>8, <3>1
  <2>2. CASE k \notin ToSet(scanned)
    <3>1. k \in ToSet(listed) \ ToSet(scanned)
      BY <1>3, <1>15, <2>2
    <3>2. \A j \in ToSet(shown) : <<j, k>> \in Above
      BY <1>6, <1>7, <1>8, <3>1
    <3>3. ASSUME sure
          PROVE  Len(shown) = Limit
      <4>1. read.scope = "all"
        BY <1>3, <1>12, <3>1, <3>3
      <4>2. Len(visible) = Limit
        BY <1>4, <1>6, <1>13, <3>1, <4>1
      <4>. QED
        BY <1>2, <1>8, <4>2
    <3>. QED
      BY <3>2, <3>3
  <2>. QED
    BY <2>1, <2>2
<1>16. shown \in Seq(Inspections) /\ ToSet(shown) \subseteq now
  BY <1>3, <1>6, <1>7, <1>8
<1>. QED
  BY <1>1, <1>8, <1>14, <1>15, <1>16 DEF page, mine

LEMMA PutFirst ==
    ASSUME NEW T, NEW seq \in Seq(T), NEW x \in T
    PROVE  /\ <<x>> \o seq \in Seq(T) /\ Len(<<x>> \o seq) = 1 + Len(seq) /\ Len(seq) \in Nat
           /\ ToSet(<<x>> \o seq) = {x} \cup ToSet(seq)
<1>. DEFINE put == <<x>> \o seq
            n == Len(seq)
<1>1. n \in Nat /\ DOMAIN seq = 1 .. n /\ put \in Seq(T) /\ Len(put) = 1 + n
      /\ DOMAIN put = 1 .. (1 + n)
  OBVIOUS
<1>2. put[1] = x /\ \A i \in 1 .. n : put[1 + i] = seq[i]
  OBVIOUS
<1>. HIDE DEF put, n
<1>3. \A i \in 1 .. (1 + n) : i = 1 \/ (i - 1 \in 1 .. n /\ i = 1 + (i - 1))
  BY <1>1
<1>4. 1 \in 1 .. (1 + n) /\ \A i \in 1 .. n : 1 + i \in 1 .. (1 + n)
  BY <1>1
<1>5. ToSet(put) \subseteq {x} \cup ToSet(seq)
  <2>. SUFFICES ASSUME NEW i \in 1 .. (1 + n) PROVE put[i] \in {x} \cup ToSet(seq)
    BY <1>1 DEF ToSet
  <2>1. CASE i = 1
    BY <1>2, <2>1
  <2>2. CASE i # 1
    <3>1. i - 1 \in 1 .. n /\ put[i] = seq[i - 1]
      BY <1>2, <1>3, <2>2
    <3>. QED
      BY <1>1, <3>1 DEF ToSet
  <2>. QED
    BY <2>1, <2>2
<1>6. x \in ToSet(put) /\ \A i \in 1 .. n : seq[i] \in ToSet(put)
  BY <1>1, <1>2, <1>4 DEF ToSet
<1>7. ToSet(seq) \subseteq ToSet(put)
  BY <1>1, <1>6 DEF ToSet
<1>. QED
  BY <1>1, <1>5, <1>6, <1>7 DEF put, n

\* The first of a list that is sorted, when it is not all of it.
LEMMA NewestOf ==
    ASSUME NEW pool \in SUBSET Inspections, NEW seq \in Seq(pool), Ordered(seq, Larger),
           NEW n \in Nat
    PROVE  LET first == FirstOf(seq, n)
           IN  /\ first \in Seq(pool) /\ ToSet(first) \subseteq ToSet(seq)
               /\ Ordered(first, Larger)
               /\ Len(first) \in Nat /\ Len(first) <= n
               /\ IsFiniteSet(ToSet(first)) /\ Cardinality(ToSet(first)) = Len(first)
               /\ IsFiniteSet(ToSet(seq)) /\ Cardinality(ToSet(seq)) = Len(seq)
               /\ Len(seq) \in Nat
               /\ Len(seq) >= n => Len(first) = n
               /\ \A x \in ToSet(seq) \ ToSet(first) :
                    Len(first) = n /\ Len(seq) > n /\ \A y \in ToSet(first) : y > x
<1>. DEFINE first == FirstOf(seq, n)
<1>1. /\ first \in Seq(pool) /\ ToSet(first) \subseteq ToSet(seq) /\ Ordered(first, Larger)
      /\ Len(first) = (IF Len(seq) < n THEN Len(seq) ELSE n) /\ Len(seq) \in Nat
      /\ \A x \in ToSet(seq) \ ToSet(first) :
           Len(first) = n /\ Len(seq) > n /\ \A y \in ToSet(first) : <<y, x>> \in Larger
  BY FirstOfFacts
<1>. HIDE DEF first
<1>2. \A x \in pool : <<x, x>> \notin Larger
  BY StorageAssumption DEF Larger
<1>3. /\ IsFiniteSet(ToSet(first)) /\ Cardinality(ToSet(first)) = Len(first)
      /\ IsFiniteSet(ToSet(seq)) /\ Cardinality(ToSet(seq)) = Len(seq)
  BY <1>1, <1>2, OrderedCounts
<1>4. Len(first) \in Nat /\ Len(first) <= n /\ (Len(seq) >= n => Len(first) = n)
  BY <1>1
<1>5. \A x, y : <<y, x>> \in Larger => y > x
  BY DEF Larger
<1>. QED
  BY <1>1, <1>3, <1>4, <1>5 DEF first

\* When at least Window of the pool are newer than k, the newest of the pool are.
LEMMA NewestBeat ==
    ASSUME NEW pool, pool \subseteq Inspections, NEW recent, recent \subseteq pool,
           \A x \in pool \ recent : \A y \in recent : y > x,
           IsFiniteSet(recent), Cardinality(recent) = Window,
           NEW k \in Inspections, NEW newer, newer \subseteq pool,
           \A y \in newer : y > k, IsFiniteSet(newer), Cardinality(newer) >= Window
    PROVE  \A j \in recent : j > k
<1>. SUFFICES ASSUME NEW j \in recent, ~(j > k) PROVE FALSE
  OBVIOUS
<1>1. pool \subseteq Nat /\ k \in Nat /\ j \in Nat /\ Window \in Nat
  BY StorageAssumption, ReadsAssumption
<1>2. \A y \in newer : y \in Nat /\ y > j
  BY <1>1
<1>3. newer \subseteq recent \ {j}
  <2>. SUFFICES ASSUME NEW y \in newer PROVE y \in recent \ {j}
    OBVIOUS
  <2>1. y \in pool /\ y \in Nat /\ y > j
    BY <1>2
  <2>2. ~(j > y) /\ y # j
    BY <1>1, <2>1
  <2>. QED
    BY <2>1, <2>2
<1>4. IsFiniteSet(recent \ {j}) /\ Cardinality(recent \ {j}) = Window - 1
  BY FS_RemoveElement
<1>5. Cardinality(newer) <= Window - 1 /\ Cardinality(newer) \in Nat
  BY <1>3, <1>4, FS_Subset, FS_CardinalityType
<1>. QED
  BY <1>1, <1>5

LEMMA ContextOf ==
    ASSUME StInv, Reading, read.kind = "chat", NEW listed \in Listings(read)
    PROVE  LET context == Context(read, listed)
               shown   == ToSet(context)
               mine    == Permitted(read.scope)
               had     == read.before \cup read.copied
           IN  /\ shown \subseteq mine \cap (Stored \cup read.copied)
               /\ Len(context) <= Window
               /\ {read.about} \cap mine \cap had \subseteq shown
               /\ read.scope = "all" /\ mode # "ephemeral" =>
                    \A k \in had \ shown : Cardinality(shown) = Window
                                           /\ \A j \in shown \ {read.about} : j > k
<1>. DEFINE mine == Permitted(read.scope)
            had == read.before \cup read.copied
            about == {read.about} \cap (read.copied \cup Stored)
            scanned == FirstOf(listed, Backfill)
            known == read.copied \cup ToSet(scanned) \cup about
            pool == known \cap mine
            sorted == NewestFirst(pool)
            recent == FirstOf(sorted, Window)
            fewer == Window - 1
            others == FirstOf(recent, fewer)
            context == Context(read, listed)
            shown == ToSet(context)
<1>1. context = IF about \cap mine \subseteq ToSet(recent) THEN recent
                ELSE <<read.about>> \o others
  <2>1. Fetch(read) = Backfill
    BY DEF Fetch
  <2>. QED
    BY <2>1 DEF Context
<1>2. Window \in Nat \ {0} /\ Backfill \in Nat /\ Window <= Backfill
      /\ fewer \in Nat /\ 1 + fewer = Window /\ fewer < Window
  BY ReadsAssumption
<1>3. /\ listed \in Seq(Inspections)
      /\ read.before \subseteq ToSet(listed) /\ ToSet(listed) \subseteq Stored
      /\ mode # "ephemeral" => Ordered(listed, Larger)
      /\ Ordered(listed, Above)
  BY ListingFacts DEF Reading
<1>4. /\ scanned \in Seq(Inspections) /\ Len(scanned) \in Nat
      /\ ToSet(scanned) \subseteq ToSet(listed)
  <2>1. scanned \in Seq(Inspections) /\ ToSet(scanned) \subseteq ToSet(listed)
    BY <1>2, <1>3, FirstOfFacts
  <2>. QED
    BY <2>1
<1>. HIDE DEF scanned, fewer
<1>5. /\ pool \subseteq Inspections /\ pool \subseteq mine \cap (Stored \cup read.copied)
      /\ IsFiniteSet(pool) /\ pool \subseteq Nat
  <2>1. pool \subseteq Stored \cup read.copied
    BY <1>3, <1>4
  <2>2. pool \subseteq Inspections
    BY <2>1, StoredFacts DEF Reading
  <2>. QED
    BY <2>1, <2>2, StoredFacts
<1>6. about \cap mine \subseteq pool /\ read.copied \cap mine \subseteq pool
      /\ ToSet(scanned) \cap mine \subseteq pool
  OBVIOUS
<1>7. mine \subseteq Inspections /\ (read.scope = "all" => mine = Inspections)
  BY ReadsAssumption DEF Permitted
<1>. HIDE DEF pool, mine
<1>8. sorted \in Seq(pool) /\ ToSet(sorted) = pool /\ Ordered(sorted, Larger)
  BY <1>5, NewestFirstFacts
<1>. HIDE DEF sorted
<1>9. /\ recent \in Seq(pool) /\ ToSet(recent) \subseteq pool /\ Ordered(recent, Larger)
      /\ Len(recent) \in Nat /\ Len(recent) <= Window
      /\ IsFiniteSet(ToSet(recent)) /\ Cardinality(ToSet(recent)) = Len(recent)
      /\ Len(sorted) \in Nat /\ Cardinality(pool) = Len(sorted)
      /\ Len(sorted) >= Window => Len(recent) = Window
      /\ \A x \in pool \ ToSet(recent) :
           Len(recent) = Window /\ \A y \in ToSet(recent) : y > x
  BY <1>2, <1>5, <1>8, NewestOf
<1>. HIDE DEF recent
<1>10. /\ others \in Seq(pool) /\ ToSet(others) \subseteq ToSet(recent)
       /\ Len(others) \in Nat /\ Len(others) <= fewer
       /\ IsFiniteSet(ToSet(others)) /\ Cardinality(ToSet(others)) = Len(others)
       /\ Len(recent) >= fewer => Len(others) = fewer
       /\ \A x \in ToSet(recent) \ ToSet(others) : \A y \in ToSet(others) : y > x
  BY <1>2, <1>5, <1>9, NewestOf
<1>. HIDE DEF others
\* The unit asked about is in the place of the oldest.
<1>11. ASSUME ~(about \cap mine \subseteq ToSet(recent))
       PROVE  /\ about = {read.about} /\ read.about \in pool \ ToSet(recent)
              /\ shown = {read.about} \cup ToSet(others)
              /\ Len(context) = Window /\ Len(recent) = Window
              /\ Cardinality(shown) = Window
  <2>1. about = {read.about} /\ read.about \in pool \ ToSet(recent)
    BY <1>6, <1>11
  <2>2. Len(recent) = Window /\ Len(others) = fewer
    BY <1>2, <1>9, <1>10, <2>1
  <2>3. context = <<read.about>> \o others
    BY <1>1, <1>11
  <2>4. Len(context) = 1 + Len(others) /\ shown = {read.about} \cup ToSet(others)
    BY <1>10, <2>1, <2>3, PutFirst
  <2>5. read.about \notin ToSet(others)
    BY <1>10, <2>1
  <2>6. Cardinality(ToSet(others) \cup {read.about}) = Cardinality(ToSet(others)) + 1
    BY <1>10, <2>5, FS_AddElement
  <2>7. shown = ToSet(others) \cup {read.about}
    BY <2>4
  <2>8. Cardinality(shown) = Window
    BY <1>2, <1>10, <2>2, <2>6, <2>7
  <2>9. Len(context) = Window
    BY <1>2, <2>2, <2>4
  <2>. QED
    BY <2>1, <2>2, <2>4, <2>8, <2>9
<1>12. ASSUME about \cap mine \subseteq ToSet(recent)
       PROVE  context = recent /\ shown = ToSet(recent)
  BY <1>1, <1>12
<1>. HIDE DEF context, about
<1>13. shown \subseteq mine \cap (Stored \cup read.copied)
  <2>1. shown \subseteq pool
    BY <1>9, <1>10, <1>11, <1>12
  <2>. QED
    BY <1>5, <2>1
<1>14. Len(context) <= Window
  BY <1>2, <1>9, <1>11, <1>12
<1>15. {read.about} \cap mine \cap had \subseteq shown
  <2>1. {read.about} \cap had \subseteq about
    BY DEF about, Reading
  <2>. QED
    BY <1>11, <1>12, <2>1
<1>16. ASSUME read.scope = "all", mode # "ephemeral", NEW k \in had \ shown
       PROVE  Cardinality(shown) = Window /\ \A j \in shown \ {read.about} : j > k
  <2>1. k \in Inspections /\ mine = Inspections
    BY <1>7, <1>16, StoredFacts DEF Reading
  <2>2. CASE k \in pool
    <3>1. CASE k \in ToSet(recent)
      <4>1. ~(about \cap mine \subseteq ToSet(recent)) /\ k \notin ToSet(others)
        BY <1>11, <1>12, <1>16, <3>1
      <4>. QED
        BY <1>10, <1>11, <3>1, <4>1
    <3>2. CASE k \notin ToSet(recent)
      <4>1. Len(recent) = Window /\ \A y \in ToSet(recent) : y > k
        BY <1>9, <2>2, <3>2
      <4>. QED
        BY <1>9, <1>10, <1>11, <1>12, <4>1
    <3>. QED
      BY <3>1, <3>2
  <2>3. CASE k \notin pool
    <3>1. k \in ToSet(listed) \ ToSet(scanned)
      BY <1>3, <1>6, <1>16, <2>1, <2>3
    <3>2. /\ Len(scanned) = Backfill /\ \A y \in ToSet(scanned) : y > k
          /\ IsFiniteSet(ToSet(scanned)) /\ Cardinality(ToSet(scanned)) = Len(scanned)
      <4>1. Inspections \in SUBSET Inspections
        OBVIOUS
      <4>. QED
        BY <1>2, <1>3, <1>16, <3>1, <4>1, NewestOf DEF scanned
    <3>3. ToSet(scanned) \subseteq pool
      BY <1>3, <1>4, <1>6, <2>1, StoredFacts
    <3>4. Cardinality(ToSet(scanned)) <= Cardinality(pool)
      BY <1>5, <3>3, FS_Subset
    <3>5. Len(recent) = Window
      BY <1>2, <1>9, <3>2, <3>4
    <3>6. \A y \in ToSet(recent) : y > k
      BY <1>2, <1>5, <1>9, <2>1, <3>2, <3>3, <3>5, NewestBeat
    <3>. QED
      BY <1>9, <1>10, <1>11, <1>12, <3>5, <3>6
  <2>. QED
    BY <2>2, <2>3
<1>. QED
  BY <1>13, <1>14, <1>15, <1>16 DEF context, mine

\* While nobody reboots the process, what an inspection reads as stays something.
LEMMA StoredStays ==
    ASSUME StInv, mode \in {"mongo", "file"}, NEW c \in Callers,
           (\E k \in Keys : Ask(c, k)) \/ Proceed(c)
    PROVE  Stored \subseteq Stored' /\ mode' = mode
<1>1. CASE (\E k \in Keys : Ask(c, k)) \/ Acquire(c) \/ WriteFails(c) \/ MongoFails(c) \/ Return(c)
  <2>1. UNCHANGED <<mode, db, disk, ram>>
    BY <1>1 DEF Ask, Acquire, WriteFails, MongoFails, Return, store
  <2>. QED
    BY <2>1 DEF Stored, Reads, InFile
<1>2. CASE Replace(c)
  <2>1. /\ calls[c].key \in Keys /\ calls[c].value \in Values /\ mode = "file"
        /\ disk \in [Names -> [key : Nat, value : 0..MaxWrites]]
        /\ disk' = [disk EXCEPT ![NameOf[calls[c].key]] =
                      [key |-> calls[c].key, value |-> calls[c].value]]
        /\ mode' = mode
    BY <1>2 DEF StInv, CallsOK, TiersOK, Replace
  <2>2. ASSUME NEW k \in Inspections, InFile(k) # 0
        PROVE  InFile(k)' # 0
    <3>1. k \in Keys /\ NameOf[k] \in Names /\ NameOf[calls[c].key] \in Names
      BY <2>1 DEF Keys, Names
    <3>2. NameOf[k] = NameOf[calls[c].key] => k = calls[c].key
      BY <2>1, <3>1, StorageAssumption
    <3>3. calls[c].value # 0
      BY <2>1 DEF Values
    <3>. QED
      BY <2>1, <2>2, <3>1, <3>2, <3>3 DEF InFile
  <2>. QED
    BY <2>1, <2>2 DEF Stored, Reads
<1>3. CASE ReplaceOne(c)
  <2>1. /\ calls[c].key \in Keys /\ calls[c].value \in Values /\ mode = "mongo"
        /\ db \in [Keys -> 0..MaxWrites]
        /\ db' = [db EXCEPT ![calls[c].key] = calls[c].value] /\ mode' = mode
    BY <1>3 DEF StInv, CallsOK, TiersOK, ReplaceOne
  <2>2. \A k \in Keys : db[k] # 0 => db'[k] # 0
    BY <2>1 DEF Values
  <2>. QED
    BY <2>1, <2>2 DEF Stored, Reads, Keys
<1>4. CASE Remember(c)
  BY <1>4 DEF Remember
<1>. QED
  BY <1>1, <1>2, <1>3, <1>4 DEF Proceed

LEMMA KeptType ==
    ASSUME states \in Seq(Inspections), NEW k \in Inspections
    PROVE  Kept(k) \in Seq(Inspections)
<1>. DEFINE others == Among(states, Inspections \ {k})
            moved == Append(others, k)
<1>1. others \in Seq(Inspections)
  <2>1. others \in Seq(Inspections \cap (Inspections \ {k}))
    BY AmongFacts
  <2>. QED
    BY <2>1
<1>2. Kept(k) = IF Len(moved) > CacheMax THEN Tail(moved) ELSE moved
  BY DEF Kept
<1>. HIDE DEF others
<1>3. moved \in Seq(Inspections) /\ moved # <<>>
  BY <1>1
<1>. HIDE DEF moved
<1>4. Tail(moved) \in Seq(Inspections)
  BY <1>3
<1>. QED
  BY <1>2, <1>3, <1>4

LEMMA StepKeepsReadsInv ==
    ASSUME StInv, ReadsInv, [ReadsNext]_readVars
    PROVE  ReadsInv'
<1>1. CASE UNCHANGED readVars
  BY <1>1 DEF ReadsInv, Reading, Stored, Reads, InFile, readVars, vars, store
<1>2. CASE ReadsReboot
  BY <1>2 DEF ReadsReboot, ReadsInv, NoRead
<1>3. ASSUME List, UNCHANGED states
      PROVE  ReadsInv'
  BY <1>3 DEF List, ReadsInv, NoRead
<1>4. ASSUME NEW kind \in {"page", "chat"}, NEW scope \in {"all", "own"}, NEW about,
             Begin(kind, scope, about), UNCHANGED <<vars, states>>
      PROVE  ReadsInv'
  <2>1. UNCHANGED <<mode, db, disk, ram, states>>
    BY <1>4 DEF vars, store
  <2>2. Stored' = Stored
    BY <2>1 DEF Stored, Reads, InFile
  <2>3. mode \in Tiers
    BY <1>4 DEF Begin, StInv, CallsOK
  <2>4. ToSet(states) \subseteq Inspections
    BY DEF ReadsInv, ToSet
  <2>5. /\ read'.kind = kind /\ read'.scope = scope /\ read'.before = Stored
        /\ read'.copied \in {ToSet(states), {}}
    BY <1>4 DEF Begin
  <2>6. Reading'
    BY <2>1, <2>2, <2>3, <2>4, <2>5 DEF Reading
  <2>. QED
    BY <2>1, <2>6 DEF ReadsInv
<1>5. ASSUME Save, ~(read.phase = "listing" /\ mode = "ephemeral")
      PROVE  ReadsInv'
  <2>1. states' \in Seq(Inspections)
    BY <1>5, KeptType DEF Save, ReadsInv
  <2>2. ASSUME read'.phase = "listing"
        PROVE  Reading'
    <3>1. read' = read /\ Reading /\ mode \in {"mongo", "file"}
      BY <1>5, <2>2 DEF Save, ReadsInv, Reading, Tiers
    <3>2. PICK c \in Callers : (\E k \in Keys : Ask(c, k)) \/ Proceed(c)
      BY <1>5 DEF Save, Keys
    <3>3. Stored \subseteq Stored' /\ mode' = mode
      BY <3>1, <3>2, StoredStays
    <3>. QED
      BY <3>1, <3>3 DEF Reading
  <2>. QED
    BY <2>1, <2>2 DEF ReadsInv
<1>6. ASSUME Read
      PROVE  ReadsInv'
  BY <1>3, <1>4, <1>6 DEF Read
<1>. QED
  BY <1>1, <1>2, <1>3, <1>5, <1>6 DEF ReadsNext

LEMMA ReadsInvariant == ReadsSpec => [](StInv /\ ReadsInv)
<1>1. ReadsInit => ReadsInv
  BY DEF ReadsInit, ReadsInv, NoRead
<1>2. StInv /\ ReadsInv /\ [ReadsNext]_readVars => ReadsInv'
  BY StepKeepsReadsInv
<1>. QED
  BY <1>1, <1>2, ReadsImplementStorage, StorageInvariant, PTL DEF ReadsSpec

\* A page adds up on any tier, whatever is saved while it is read: it shows the newest
\* of the caller's stations, and is short or miscounted only where it says so.
THEOREM PageAlwaysAddsUp == ReadsSpec => []PageAddsUp
<1>1. StInv /\ ReadsInv => PageAddsUp
  <2>. SUFFICES ASSUME StInv, ReadsInv, Answering("page"), NEW listed \in Listings(read)
                PROVE  LET page   == Page(read, listed)
                           before == read.before \cap Permitted(read.scope)
                           now    == Stored \cap Permitted(read.scope)
                           sure   == /\ read.before = Stored
                                     /\ ~page.truncated \/ Cardinality(Stored) <= ScanCap
                       IN  /\ ToSet(page.shown) \subseteq now
                           /\ \A i, j \in DOMAIN page.shown :
                                i < j => Newer(page.shown[i], page.shown[j])
                           /\ \A k \in before \ ToSet(page.shown) :
                                /\ \A j \in ToSet(page.shown) : Newer(j, k)
                                /\ sure => Len(page.shown) = Limit
                           /\ page.total <= Cardinality(now)
                           /\ sure => page.total = Cardinality(now)
    BY DEF PageAddsUp
  <2>. DEFINE page == Page(read, listed)
  <2>1. Reading /\ read.kind = "page"
    BY DEF Answering, ReadsInv
  <2>2. page.shown \in Seq(Inspections) /\ Ordered(page.shown, Above)
    BY <2>1, PageOf
  <2>3. DOMAIN page.shown = 1 .. Len(page.shown)
    BY <2>2
  <2>4. \A j, k : <<j, k>> \in Above => Newer(j, k)
    BY DEF Above
  <2>5. \A i, j \in DOMAIN page.shown : i < j => Newer(page.shown[i], page.shown[j])
    BY <2>2, <2>3, <2>4 DEF Ordered
  <2>. HIDE DEF page
  <2>. QED
    BY <2>1, <2>4, <2>5, PageOf DEF page
<1>. QED
  BY <1>1, ReadsInvariant, PTL

\* The assistant is never grounded on another station's units, whatever the process
\* has cached, and for a caller who sees everything on the newest there were.
THEOREM AlwaysGroundedInScope == ReadsSpec => []GroundedInScope
<1>1. StInv /\ ReadsInv => GroundedInScope
  <2>. SUFFICES ASSUME StInv, ReadsInv, Answering("chat")
                PROVE  GroundedInScope
    BY DEF GroundedInScope
  <2>1. Reading /\ read.kind = "chat"
    BY DEF Answering, ReadsInv
  <2>. QED
    BY <2>1, ContextOf DEF GroundedInScope
<1>. QED
  BY <1>1, ReadsInvariant, PTL
=============================================================================
