-------------------------- MODULE InspectionsProofs --------------------------
(***************************************************************************)
(* Proofs about Inspections, for any number of units, workers, reads and   *)
(* assignments, any size of the two caches, and any boots.                 *)
(***************************************************************************)
EXTENDS Inspections, TLAPS

(***************************************************************************)
(* The inductive invariant.  A view is rendered from a record that a       *)
(* handler has in its hands; that this record is in the repository has to  *)
(* be known while the handler waits, before there is any view.  That an    *)
(* assigned unit is on record, or about to be, or was meant to be, has to  *)
(* be known of the units assign_defect() may be asked for without reading  *)
(* them, of those it is writing, and of the documents of earlier boots.    *)
(***************************************************************************)
InHandIsOnRecord ==
    /\ \A u \in Units : request[u] = "saved" => u \in OnRecord
    /\ \A r \in Readers : reader[r] # Idle => reader[r].unit \in OnRecord

\* A unit somebody may assign: on record, unanswered yet, or failed.
Known(u) == u \in OnRecord \/ request[u] \in {"saving", "failed"}

\* A unit MongoDB may have an assignment of.
Written(u) ==
    \/ u \in saved["mongodb"]
    \/ request[u] = "failed"
    \/ request[u] = "saving" /\ rung = "mongodb"

AssignedIsKnown ==
    /\ \A i \in DOMAIN states : Known(states[i])
    /\ \A o \in Operators : operator[o].pc \in {"byUnit", "byKey"}
                            => Known(operator[o].unit)
    /\ \A o \in Operators : operator[o].pc = "byUnit" => rung = "mongodb"
    /\ \A u \in Units : documents.byUnit[u] # NoOne \/ documents.byKey[u] # NoOne
                         => Written(u)

IInv == /\ Sorts /\ InHandIsOnRecord /\ AssignedIsKnown
        /\ ShownIsOnRecord /\ ViewsShowCustody

\* _view_from_state(): a view of u is of the right type, and shows who holds u.
LEMMA ViewShowsHolder ==
    ASSUME NEW u \in Units, NEW holders \in [Units -> Holders]
    PROVE  /\ View(u, holders) \in ViewType
           /\ View(u, holders).cached
           /\ View(u, holders).worker = holders[u]
BY DEF View, ViewType

\* _cache_view(): each view is afterwards the new one, or what it was, or gone.
LEMMA CacheViewFields ==
    ASSUME NEW u \in Units, NEW view \in ViewType,
           views \in [Units -> ViewType \cup {NoView}],
           CacheView(u, view)
    PROVE  /\ views' \in [Units -> ViewType \cup {NoView}]
           /\ views'[u] \in {view, NoView}
           /\ \A v \in Units \ {u} : views'[v] \in {views[v], NoView}
<1>. DEFINE order == Touch(recency, u)
<1>1. \/ views' = [views EXCEPT ![u] = view, ![Head(order)] = NoView]
      \/ views' = [views EXCEPT ![u] = view]
  BY DEF CacheView
<1>. QED
  BY <1>1

\* The worker whose turn it is is one of the shop floor, and so is the next one.
LEMMA NextTurn ==
    ASSUME turn \in 0 .. Len(ShopFloor) - 1
    PROVE  /\ ShopFloor[turn + 1] \in Workers
           /\ (turn + 1) % Len(ShopFloor) \in 0 .. Len(ShopFloor) - 1
BY InspectionsAssumption DEF Workers

\* persist() keeps the states it has, but for the oldest, and the new one.
LEMMA Remembered ==
    ASSUME states \in Seq(Units), NEW u \in Units, Remember(u)
    PROVE  /\ states' \in Seq(Units)
           /\ \A i \in DOMAIN states' :
                 states'[i] = u \/ \E j \in DOMAIN states : states'[i] = states[j]
<1>. DEFINE order == Append(states, u)
<1>1. order \in Seq(Units) /\ Len(order) = Len(states) + 1
  OBVIOUS
<1>2. Len(states) \in Nat
  OBVIOUS
<1>3. order # <<>>
  BY <1>1, <1>2
<1>4. \A i \in DOMAIN order :
        order[i] = u \/ \E j \in DOMAIN states : order[i] = states[j]
  OBVIOUS
<1>5. states' = IF Len(order) > StateCap THEN Tail(order) ELSE order
  BY DEF Remember
<1>. HIDE DEF order
<1>6. /\ Tail(order) \in Seq(Units)
      /\ \A i \in DOMAIN Tail(order) :
            i + 1 \in DOMAIN order /\ Tail(order)[i] = order[i + 1]
  BY <1>1, <1>3
<1>7. CASE Len(order) > StateCap
  BY <1>4, <1>5, <1>6, <1>7
<1>8. CASE ~(Len(order) > StateCap)
  BY <1>1, <1>4, <1>5, <1>8
<1>. QED
  BY <1>7, <1>8

\* What a boot has of the assignments: workers or nobody; nobody who has no document;
\* and all who have one, if it read to the end.
LEMMA SyncFinds ==
    ASSUME Sorts, Sync
    PROVE  /\ rung' \in Rungs /\ custody' \in [Units -> Holders] /\ whole' \in BOOLEAN
           /\ whole' => \A u \in Units : custody'[u] = NoOne
                                         => documents.byUnit[u] = NoOne
           /\ \A u \in Units : custody'[u] # NoOne
                => /\ rung' = "mongodb"
                   /\ documents.byUnit[u] # NoOne \/ documents.byKey[u] # NoOne
<1>1. \A u \in Units : /\ Reloaded(u) \in Holders
                       /\ Reloaded(u) = NoOne => documents.byUnit[u] = NoOne
  BY DEF Sorts, Reloaded, Holders
<1>2. rung' \in Rungs /\ whole' \in BOOLEAN
  BY DEF Sync, Rungs
<1>3. custody' \in [Units -> Holders]
  BY <1>1 DEF Sync, Holders
<1>4. whole' => custody' = [u \in Units |-> Reloaded(u)]
  BY DEF Sync
<1>5. \A u \in Units : custody'[u] # NoOne
        => /\ rung' = "mongodb"
           /\ documents.byUnit[u] # NoOne \/ documents.byKey[u] # NoOne
  BY DEF Sync, Reloaded
<1>. QED
  BY <1>1, <1>2, <1>3, <1>4, <1>5

\* The process starts with nothing.
LEMMA InitInv == Init => IInv
<1>. SUFFICES ASSUME Init PROVE IInv
  OBVIOUS
<1>1. Sorts
  BY InspectionsAssumption
     DEF Init, Sorts, Statuses, Narratives, Holders, NoView, ViewType, Rungs
<1>2. QED
  BY <1>1 DEF Init, IInv, InHandIsOnRecord, AssignedIsKnown, ShownIsOnRecord,
              ViewsShowCustody, NoView, Idle

\* The steps of create_inspection() up to the repository and its failure.
LEMMA SavingKeepsInv ==
    ASSUME IInv, NEW u \in Units, Inspect(u) \/ Save(u) \/ SaveFails(u)
    PROVE  IInv'
<1>1. /\ UNCHANGED <<rung, narrative, views, custody, whole, turn, documents, reader,
                      operator>>
      /\ request' \in [Units -> Statuses]
      /\ \A v \in Units : saved[rung] \subseteq saved'[rung]
      /\ \A v \in Units, s \in Rungs : v \in saved[s] => v \in saved'[s]
  BY DEF IInv, Sorts, Statuses, Inspect, Save, SaveFails, cache, process
<1>2. /\ states' \in Seq(Units)
      /\ \A i \in DOMAIN states' : \/ states'[i] = u /\ request'[u] = "saving"
                                   \/ \E j \in DOMAIN states : states'[i] = states[j]
  BY Remembered DEF IInv, Sorts, Inspect, Save, SaveFails
<1>3. saved' \in [Rungs -> SUBSET Units]
  BY DEF IInv, Sorts, Inspect, Save, SaveFails
<1>4. Sorts'
  BY <1>1, <1>2, <1>3 DEF IInv, Sorts
<1>5. \A v \in Units : request'[v] = "saved" => v \in saved'[rung]
  BY DEF IInv, Sorts, InHandIsOnRecord, OnRecord, Inspect, Save, SaveFails
<1>6. \A v \in Units : request'[v] = "returned" => request[v] = "returned"
  BY DEF IInv, Sorts, Inspect, Save, SaveFails
<1>7. \A v \in Units : Known(v) => Known(v)'
  BY <1>1 DEF IInv, Sorts, Known, OnRecord, Inspect, Save, SaveFails
<1>8. \A v \in Units : Written(v) => Written(v)'
  BY <1>1 DEF IInv, Sorts, Rungs, Written, Inspect, Save, SaveFails
<1>9. AssignedIsKnown'
  <2>1. \A i \in DOMAIN states' : Known(states[i])'
    <3>1. ASSUME NEW i \in DOMAIN states' PROVE Known(states[i])'
      <4>1. CASE states'[i] = u /\ request'[u] = "saving"
        BY <4>1 DEF Known
      <4>2. ASSUME NEW j \in DOMAIN states, states'[i] = states[j] PROVE Known(states[i])'
        <5>1. states[j] \in Units /\ Known(states[j])
          BY DEF IInv, Sorts, AssignedIsKnown
        <5>. QED
          BY <1>7, <4>2, <5>1 DEF Known, OnRecord
      <4>. QED
        BY <1>2, <4>1, <4>2
    <3>. QED
      BY <3>1
  <2>2. \A o \in Operators : operator[o].pc \in {"byUnit", "byKey"}
                               => operator[o].unit \in Units
    BY DEF IInv, Sorts, Idle, Assigning
  <2>. QED
    BY <1>1, <1>7, <1>8, <2>1, <2>2 DEF IInv, AssignedIsKnown
<1>10. InHandIsOnRecord' /\ ShownIsOnRecord' /\ ViewsShowCustody'
  BY <1>1, <1>5, <1>6, <1>7
  DEF IInv, Sorts, InHandIsOnRecord, ShownIsOnRecord, ViewsShowCustody, OnRecord, Known
<1>. QED
  BY <1>4, <1>9, <1>10 DEF IInv

\* The automatic assignment and the view of the new unit.
LEMMA RespondKeepsInv ==
    ASSUME IInv, NEW u \in Units, Respond(u)
    PROVE  IInv'
<1>. DEFINE holders == IF u \in Passing THEN custody
                       ELSE [custody EXCEPT ![u] = ShopFloor[turn + 1]]
<1>1. /\ holders \in [Units -> Holders]
      /\ \A v \in Units \ {u} : holders[v] = custody[v]
  BY NextTurn DEF IInv, Sorts, Holders
<1>2. /\ request[u] = "saved"
      /\ request' = [request EXCEPT ![u] = "returned"]
      /\ narrative' = [narrative EXCEPT ![u] = "pending"]
      /\ custody' = holders
      /\ turn' = IF u \in Passing THEN turn ELSE (turn + 1) % Len(ShopFloor)
      /\ CacheView(u, View(u, holders))
      /\ UNCHANGED <<rung, saved, states, whole, documents, reader, operator>>
  BY DEF Respond
<1>. HIDE DEF holders
<1>3. /\ View(u, holders) \in ViewType
      /\ View(u, holders).cached
      /\ View(u, holders).worker = holders[u]
  BY <1>1, ViewShowsHolder
<1>4. /\ views' \in [Units -> ViewType \cup {NoView}]
      /\ views'[u] \in {View(u, holders), NoView}
      /\ \A v \in Units \ {u} : views'[v] \in {views[v], NoView}
  BY <1>2, <1>3, CacheViewFields DEF IInv, Sorts
<1>5. Sorts'
  <2>1. turn' \in 0 .. Len(ShopFloor) - 1
    BY <1>2, NextTurn DEF IInv, Sorts
  <2>2. request' \in [Units -> Statuses] /\ narrative' \in [Units -> Narratives]
    BY <1>2 DEF IInv, Sorts, Statuses, Narratives
  <2>. QED
    BY <1>1, <1>2, <1>4, <2>1, <2>2 DEF IInv, Sorts
<1>6. u \in OnRecord /\ rung \in Rungs
  BY <1>2 DEF IInv, Sorts, InHandIsOnRecord
<1>7. InHandIsOnRecord'
  BY <1>2 DEF IInv, Sorts, InHandIsOnRecord, OnRecord
<1>8. ShownIsOnRecord'
  BY <1>1, <1>2, <1>4, <1>6 DEF IInv, Sorts, ShownIsOnRecord, NoView, OnRecord
<1>9. ViewsShowCustody'
  BY <1>1, <1>2, <1>3, <1>4 DEF IInv, Sorts, ViewsShowCustody, NoView
<1>10. \A v \in Units : (Known(v) => Known(v)') /\ (Written(v) => Written(v)')
  BY <1>2, <1>6 DEF IInv, Sorts, Known, Written, OnRecord
<1>11. AssignedIsKnown'
  <2>1. /\ \A i \in DOMAIN states : states[i] \in Units
        /\ \A o \in Operators : operator[o].pc \in {"byUnit", "byKey"}
                                 => operator[o].unit \in Units
    BY DEF IInv, Sorts, Idle, Assigning
  <2>. QED
    BY <1>2, <1>10, <2>1 DEF IInv, AssignedIsKnown
<1>. QED
  BY <1>5, <1>7, <1>8, <1>9, <1>11 DEF IInv

\* The narrative changes nothing of a view but the narrative.
LEMMA NarrateKeepsInv ==
    ASSUME IInv, NEW u \in Units, Narrate(u) \/ NarrateFails(u)
    PROVE  IInv'
<1>1. CASE NarrateFails(u)
  <2>1. Sorts'
    BY <1>1 DEF IInv, Sorts, Narratives, NarrateFails, record, cache, process
  <2>. QED
    BY <1>1, <2>1 DEF IInv, InHandIsOnRecord, AssignedIsKnown, Known, Written,
                      ShownIsOnRecord, ViewsShowCustody, OnRecord, NarrateFails,
                      record, cache, process
<1>2. CASE Narrate(u) /\ views[u].cached
  <2>1. /\ views[u] \in ViewType
        /\ views' = [views EXCEPT ![u].narrated = TRUE]
    BY <1>2 DEF IInv, Sorts, Narrate, NoView
  <2>2. /\ views' \in [Units -> ViewType \cup {NoView}]
        /\ \A v \in Units : views'[v].cached = views[v].cached
                         /\ (views[v].cached => views'[v].worker = views[v].worker)
    BY <2>1 DEF IInv, Sorts, ViewType
  <2>3. Sorts'
    BY <1>2, <2>2 DEF IInv, Sorts, Narratives, Narrate, record, process
  <2>. QED
    BY <1>2, <2>2, <2>3 DEF IInv, InHandIsOnRecord, AssignedIsKnown, Known,
                            Written, ShownIsOnRecord, ViewsShowCustody, OnRecord,
                            Narrate, record, process
<1>3. CASE Narrate(u) /\ ~views[u].cached
  <2>1. Sorts'
    BY <1>3 DEF IInv, Sorts, Narratives, Narrate, record, process
  <2>. QED
    BY <1>3, <2>1 DEF IInv, InHandIsOnRecord, AssignedIsKnown, Known, Written,
                      ShownIsOnRecord, ViewsShowCustody, OnRecord, Narrate, record,
                      process
<1>. QED
  BY <1>1, <1>2, <1>3

\* A read, up to the repository and from there to the cache.
LEMMA ReadKeepsInv ==
    ASSUME IInv, NEW r \in Readers,
           ResolveStored(r) \/ \E u \in Units : Resolve(r, u)
    PROVE  IInv'
<1>1. CASE \E u \in Units : Resolve(r, u)
  <2>1. PICK u \in Units : Resolve(r, u)
    BY <1>1
  <2>2. /\ u \in OnRecord
        /\ \/ UNCHANGED reader
           \/ reader' = [reader EXCEPT ![r] = [pc |-> "reading", unit |-> u]]
        /\ UNCHANGED <<request, rung, saved, states, narrative, views, custody, whole,
                       turn, documents, operator>>
    BY <2>1 DEF Resolve, record, process
  <2>3. Sorts'
    BY <2>2 DEF IInv, Sorts, Reading
  <2>. QED
    BY <2>2, <2>3
       DEF IInv, Sorts, InHandIsOnRecord, AssignedIsKnown, Known, Written,
           ShownIsOnRecord, ViewsShowCustody, OnRecord
<1>2. CASE ResolveStored(r)
  <2>. DEFINE u == reader[r].unit
  <2>1. /\ u \in Units /\ u \in OnRecord
        /\ CacheView(u, View(u, custody))
        /\ reader' = [reader EXCEPT ![r] = Idle]
        /\ UNCHANGED <<request, rung, saved, states, narrative, custody, whole, turn,
                       documents, operator>>
    BY <1>2 DEF IInv, Sorts, InHandIsOnRecord, Reading, ResolveStored, record, process
  <2>2. /\ View(u, custody) \in ViewType
        /\ View(u, custody).worker = custody[u]
    BY <2>1, ViewShowsHolder DEF IInv, Sorts
  <2>. HIDE DEF u
  <2>3. /\ views' \in [Units -> ViewType \cup {NoView}]
        /\ views'[u] \in {View(u, custody), NoView}
        /\ \A v \in Units \ {u} : views'[v] \in {views[v], NoView}
    BY <2>1, <2>2, CacheViewFields DEF IInv, Sorts
  <2>4. Sorts'
    BY <2>1, <2>3 DEF IInv, Sorts
  <2>5. InHandIsOnRecord' /\ ShownIsOnRecord' /\ ViewsShowCustody'
    BY <2>1, <2>2, <2>3
       DEF IInv, Sorts, InHandIsOnRecord, ShownIsOnRecord, ViewsShowCustody, NoView,
           OnRecord
  <2>6. AssignedIsKnown'
    BY <2>1 DEF IInv, AssignedIsKnown, Known, Written, OnRecord
  <2>. QED
    BY <2>4, <2>5, <2>6 DEF IInv
<1>. QED
  BY <1>1, <1>2

\* The hand-over of a known unit: it hands, and its view is gone.
LEMMA HandOverKeepsInv ==
    ASSUME IInv, NEW o \in Operators, NEW u \in Units, NEW w \in Workers,
           Known(u), HandOver(o, u, w),
           UNCHANGED <<record, narrative, whole, turn, documents, reader>>
    PROVE  IInv'
<1>1. /\ views' = [views EXCEPT ![u] = NoView]
      /\ custody' = [custody EXCEPT ![u] = w]
      /\ UNCHANGED <<request, rung, saved, states, narrative, whole, turn, documents,
                     reader>>
  BY DEF HandOver, DropView, record
<1>2. operator' \in [Operators -> {Idle} \cup Assigning]
  BY DEF IInv, Sorts, HandOver, Assigning
<1>3. Sorts'
  BY <1>1, <1>2 DEF IInv, Sorts, Holders
<1>4. AssignedIsKnown'
  <2>1. /\ operator'[o].unit = u
        /\ operator'[o].pc = "byUnit" => rung = "mongodb"
        /\ \A p \in Operators \ {o} : operator'[p] = operator[p]
    BY DEF IInv, Sorts, HandOver
  <2>. QED
    BY <1>1, <2>1 DEF IInv, AssignedIsKnown, Known, Written, OnRecord
<1>. QED
  BY <1>1, <1>3, <1>4
     DEF IInv, Sorts, InHandIsOnRecord, ShownIsOnRecord, ViewsShowCustody, NoView,
         OnRecord, Known

\* A step that changes nothing but where the assignments are, and their documents.
LEMMA OperatorStepKeepsInv ==
    ASSUME IInv, operator' \in [Operators -> {Idle} \cup Assigning],
           documents' \in [byUnit : [Units -> Holders], byKey : [Units -> Holders]],
           AssignedIsKnown',
           UNCHANGED <<record, narrative, cache, process, reader>>
    PROVE  IInv'
<1>1. UNCHANGED <<request, rung, saved, states, narrative, views, custody, whole, turn,
                  reader>>
  BY DEF record, cache, process
<1>2. Sorts'
  BY <1>1 DEF IInv, Sorts
<1>. QED
  BY <1>1, <1>2
     DEF IInv, InHandIsOnRecord, ShownIsOnRecord, ViewsShowCustody, OnRecord

\* The assignment, of a unit whose state the process has or whose record it reads.
LEMMA AssignKeepsInv ==
    ASSUME IInv, NEW o \in Operators,
           AssignStored(o) \/ \E u \in Units, w \in Workers : Assign(o, u, w)
    PROVE  IInv'
<1>1. CASE AssignStored(o)
  <2>1. operator[o] \in Assigning
    BY <1>1 DEF IInv, Sorts, AssignStored, Idle, Assigning
  <2>2. UNCHANGED <<record, narrative, whole, turn, documents, reader>>
    BY <1>1 DEF AssignStored
  <2>3. CASE operator[o].unit \in OnRecord
    BY <1>1, <2>1, <2>2, <2>3, HandOverKeepsInv DEF AssignStored, Assigning, Known
  <2>4. CASE operator[o].unit \notin OnRecord
    <3>1. /\ operator' = [operator EXCEPT ![o] = Idle]
          /\ UNCHANGED <<record, narrative, cache, process, documents, reader>>
      BY <1>1, <2>2, <2>4 DEF AssignStored, process
    <3>2. documents' \in [byUnit : [Units -> Holders], byKey : [Units -> Holders]]
      BY <3>1 DEF IInv, Sorts
    <3>3. operator' \in [Operators -> {Idle} \cup Assigning]
      BY <3>1 DEF IInv, Sorts
    <3>4. AssignedIsKnown'
      BY <3>1 DEF IInv, Sorts, AssignedIsKnown, Known, Written, OnRecord, Idle, record
    <3>. QED
      BY <3>1, <3>2, <3>3, <3>4, OperatorStepKeepsInv
  <2>. QED
    BY <2>3, <2>4
<1>2. ASSUME NEW u \in Units, NEW w \in Workers, Assign(o, u, w)
      PROVE  IInv'
  <2>1. UNCHANGED <<record, narrative, whole, turn, documents, reader>>
    BY <1>2 DEF Assign
  <2>2. CASE u \in {states[i] : i \in DOMAIN states}
    BY <1>2, <2>1, <2>2, HandOverKeepsInv DEF IInv, AssignedIsKnown, Assign
  <2>3. CASE u \notin {states[i] : i \in DOMAIN states}
    <3>1. /\ operator' = [operator EXCEPT ![o] =
                            [pc |-> "looking", unit |-> u, worker |-> w]]
          /\ UNCHANGED <<record, narrative, cache, process, documents, reader>>
      BY <1>2, <2>1, <2>3 DEF Assign, process
    <3>2. documents' \in [byUnit : [Units -> Holders], byKey : [Units -> Holders]]
      BY <3>1 DEF IInv, Sorts
    <3>3. operator' \in [Operators -> {Idle} \cup Assigning]
      BY <3>1 DEF IInv, Sorts, Assigning
    <3>4. AssignedIsKnown'
      BY <3>1 DEF IInv, Sorts, AssignedIsKnown, Known, Written, OnRecord, record
    <3>. QED
      BY <3>1, <3>2, <3>3, <3>4, OperatorStepKeepsInv
  <2>. QED
    BY <2>2, <2>3
<1>. QED
  BY <1>1, <1>2

\* The assignment's writes touch the documents alone.
LEMMA WriteKeepsInv ==
    ASSUME IInv, NEW o \in Operators, WriteByUnit(o) \/ WriteByKey(o) \/ AssignFails(o)
    PROVE  IInv'
<1>1. operator[o] \in Assigning
  BY DEF IInv, Sorts, Idle, Assigning, WriteByUnit, WriteByKey, AssignFails
<1>2. operator' \in [Operators -> {Idle} \cup Assigning]
  <2>1. CASE WriteByUnit(o)
    <3>1. [operator[o] EXCEPT !.pc = "byKey"] \in Assigning
      BY <1>1 DEF Assigning
    <3>. QED
      BY <2>1, <3>1 DEF IInv, Sorts, WriteByUnit
  <2>2. CASE WriteByKey(o) \/ AssignFails(o)
    BY <2>2 DEF IInv, Sorts, WriteByKey, AssignFails
  <2>. QED
    BY <2>1, <2>2
<1>3. documents' \in [byUnit : [Units -> Holders], byKey : [Units -> Holders]]
  BY <1>1 DEF IInv, Sorts, Assigning, Holders, WriteByUnit, WriteByKey, AssignFails
<1>4. UNCHANGED <<record, narrative, cache, process, reader>>
  BY DEF WriteByUnit, WriteByKey, AssignFails
<1>5. AssignedIsKnown'
  <2>1. /\ Known(operator[o].unit) /\ rung = "mongodb" => Written(operator[o].unit)
        /\ operator[o].pc \in {"byUnit", "byKey"} => Known(operator[o].unit)
    BY DEF IInv, AssignedIsKnown, Known, Written, OnRecord
  <2>2. CASE WriteByUnit(o)
    <3>1. /\ operator'[o].unit = operator[o].unit /\ operator'[o].pc = "byKey"
          /\ \A p \in Operators \ {o} : operator'[p] = operator[p]
          /\ operator[o].pc = "byUnit" /\ rung = "mongodb"
      BY <1>1, <2>2 DEF IInv, Sorts, AssignedIsKnown, WriteByUnit, Assigning
    <3>2. /\ documents'.byKey = documents.byKey
          /\ \A u \in Units \ {operator[o].unit} :
                documents'.byUnit[u] = documents.byUnit[u]
      BY <1>1, <2>2 DEF IInv, Sorts, WriteByUnit, Assigning
    <3>. QED
      BY <1>1, <1>4, <2>1, <3>1, <3>2
         DEF IInv, AssignedIsKnown, Known, Written, OnRecord, record
  <2>3. CASE WriteByKey(o) \/ AssignFails(o)
    <3>1. operator' = [operator EXCEPT ![o] = Idle]
      BY <2>3 DEF WriteByKey, AssignFails
    <3>2. \/ documents' = documents
          \/ /\ rung = "mongodb" /\ operator[o].pc = "byKey"
             /\ documents'.byUnit = documents.byUnit
             /\ \A u \in Units \ {operator[o].unit} :
                   documents'.byKey[u] = documents.byKey[u]
      BY <1>1, <2>3 DEF IInv, Sorts, Rungs, WriteByKey, AssignFails, Assigning
    <3>. QED
      BY <1>1, <1>4, <2>1, <3>1, <3>2
         DEF IInv, Sorts, AssignedIsKnown, Known, Written, OnRecord, Idle, record
  <2>. QED
    BY <2>2, <2>3
<1>. QED
  BY <1>2, <1>3, <1>4, <1>5, OperatorStepKeepsInv

\* A restart leaves no view, and nothing in anybody's hands.
LEMMA RestartKeepsInv ==
    ASSUME IInv, Restart
    PROVE  IInv'
<1>1. Sorts'
  <2>1. rung' \in Rungs /\ custody' \in [Units -> Holders] /\ whole' \in BOOLEAN
    BY SyncFinds DEF IInv, Restart
  <2>2. request' \in [Units -> Statuses] /\ narrative' \in [Units -> Narratives]
    BY DEF IInv, Sorts, Statuses, Narratives, Restart
  <2>3. turn' \in 0 .. Len(ShopFloor) - 1 /\ states' \in Seq(Units)
    BY InspectionsAssumption DEF Restart
  <2>. QED
    BY <2>1, <2>2, <2>3 DEF IInv, Sorts, Restart
<1>2. \A u \in Units : Written(u)
        => (u \in saved["mongodb"] /\ saved' = saved) \/ request'[u] = "failed"
  BY DEF IInv, Sorts, Written, Restart
<1>3. AssignedIsKnown'
  BY <1>2 DEF IInv, AssignedIsKnown, Written, Restart, Idle
<1>4. \A u \in Units : custody'[u] # NoOne => Known(u)'
  BY <1>2, SyncFinds DEF IInv, AssignedIsKnown, Known, OnRecord, Restart
<1>5. InHandIsOnRecord' /\ ShownIsOnRecord' /\ ViewsShowCustody'
  BY <1>4 DEF IInv, Sorts, Statuses, InHandIsOnRecord, ShownIsOnRecord, ViewsShowCustody,
              Restart, NoView, Known
<1>. QED
  BY <1>1, <1>3, <1>5 DEF IInv

\* Every step keeps the invariant.
LEMMA NextKeepsInv == IInv /\ [Next]_vars => IInv'
<1>. SUFFICES ASSUME IInv, [Next]_vars PROVE IInv'
  OBVIOUS
<1>1. CASE UNCHANGED vars
  BY <1>1 DEF vars, record, cache, process, IInv, Sorts, InHandIsOnRecord,
              AssignedIsKnown, Known, Written, ShownIsOnRecord, ViewsShowCustody, OnRecord
<1>2. ASSUME NEW u \in Units, Inspect(u) \/ Save(u) \/ SaveFails(u)
      PROVE  IInv'
  BY <1>2, SavingKeepsInv
<1>3. ASSUME NEW u \in Units, Respond(u)
      PROVE  IInv'
  BY <1>3, RespondKeepsInv
<1>4. ASSUME NEW u \in Units, Narrate(u) \/ NarrateFails(u)
      PROVE  IInv'
  BY <1>4, NarrateKeepsInv
<1>5. ASSUME NEW r \in Readers, ResolveStored(r) \/ \E u \in Units : Resolve(r, u)
      PROVE  IInv'
  BY <1>5, ReadKeepsInv
<1>6. ASSUME NEW o \in Operators,
             AssignStored(o) \/ \E u \in Units, w \in Workers : Assign(o, u, w)
      PROVE  IInv'
  BY <1>6, AssignKeepsInv
<1>7. ASSUME NEW o \in Operators, WriteByUnit(o) \/ WriteByKey(o) \/ AssignFails(o)
      PROVE  IInv'
  BY <1>7, WriteKeepsInv
<1>8. CASE Restart
  BY <1>8, RestartKeepsInv
<1>. QED
  BY <1>1, <1>2, <1>3, <1>4, <1>5, <1>6, <1>7, <1>8 DEF Next

\* The invariant always holds.
LEMMA Invariant == Spec => []IInv
<1>. QED
  BY InitInv, NextKeepsInv, PTL DEF Spec

(***************************************************************************)
(* What the records promise, always.                                       *)
(***************************************************************************)

\* A cached view always names the worker who has the unit now.
THEOREM ViewsAlwaysShowCustody == Spec => []ViewsShowCustody
<1>1. IInv => ViewsShowCustody
  BY DEF IInv
<1>. QED
  BY <1>1, Invariant, PTL

\* What create_inspection() returned, and what can be read from the cache, is in the
\* repository, whatever is assigned, fails or is restarted meanwhile; and no unit is
\* assigned but one on record, one still to be answered, or one whose inspection failed.
THEOREM ShownIsAlwaysOnRecord == Spec => []ShownIsOnRecord
<1>1. IInv => ShownIsOnRecord
  BY DEF IInv
<1>. QED
  BY <1>1, Invariant, PTL

\* What a step other than a restart does to the custody: it gives units to workers.
LEMMA StepKeepsCustody ==
    ASSUME IInv, Next, ~Restart, NEW u \in Units, custody[u] # NoOne
    PROVE  custody'[u] # NoOne
<1>1. ASSUME NEW v \in Units, Respond(v)
      PROVE  custody'[u] # NoOne
  BY <1>1, NextTurn, NoOneAssumption DEF IInv, Sorts, Respond
<1>2. ASSUME NEW o \in Operators, NEW v \in Units, NEW w \in Workers, HandOver(o, v, w)
      PROVE  custody'[u] # NoOne
  BY <1>2, NoOneAssumption DEF IInv, Sorts, HandOver
<1>3. CASE UNCHANGED custody
  BY <1>3
<1>4. ASSUME NEW o \in Operators, AssignStored(o)
      PROVE  \/ UNCHANGED custody
             \/ \E v \in Units, w \in Workers : HandOver(o, v, w)
  <2>1. operator[o] \in Assigning
    BY <1>4 DEF IInv, Sorts, AssignStored, Idle, Assigning
  <2>. QED
    BY <1>4, <2>1 DEF AssignStored, Assigning
<1>5. \/ UNCHANGED custody
      \/ \E v \in Units : Respond(v)
      \/ \E o \in Operators, v \in Units, w \in Workers : HandOver(o, v, w)
  BY <1>4 DEF Next, Inspect, Save, SaveFails, Narrate, NarrateFails, Resolve,
              ResolveStored, Assign, WriteByUnit, WriteByKey, AssignFails, process
<1>. QED
  BY <1>1, <1>2, <1>3, <1>5

\* No unit loses its worker but by a restart; and one that has a document only by one that
\* does not read them all.
THEOREM CustodyIsAlwaysKept == Spec => CustodyIsKept
<1>1. ASSUME IInv, [Next]_vars, NEW u \in Units, custody[u] # NoOne, custody'[u] = NoOne
      PROVE  Restart /\ (whole' => documents.byUnit[u] = NoOne)
  <2>1. Next
    BY <1>1 DEF vars, process
  <2>2. Restart
    BY <1>1, <2>1, StepKeepsCustody
  <2>. QED
    BY <1>1, <2>2, SyncFinds DEF IInv, Restart
<1>2. IInv /\ [Next]_vars
        => [\A u \in Units : custody[u] # NoOne /\ custody'[u] = NoOne
              => Restart /\ (whole' => documents.byUnit[u] = NoOne)]_vars
  BY <1>1
<1>. QED
  BY <1>2, Invariant, PTL DEF Spec, CustodyIsKept
=============================================================================
