----------------------------- MODULE Inspections -----------------------------
(***************************************************************************)
(* The life of a unit's record in the API process: the inspection request  *)
(* that saves it and renders its view, the narrative that is patched into  *)
(* the view afterwards, the reads that come from the view cache or from    *)
(* storage, the assignment to a worker, and a restart                      *)
(* (src/apps/api/main.py, src/apps/api/routers/defects.py).                *)
(*                                                                         *)
(* The process is one asyncio event loop: a handler runs without           *)
(* interruption between two awaits that suspend, so a step of this module  *)
(* is what a handler does from one call of the storage to the next.        *)
(* broadcast() suspends nowhere.  What leaves no trace in the views, the   *)
(* custody and the storage is left out: the unit numbers, the              *)
(* notifications.  So is the storage of last resort, the memory, which     *)
(* keeps nothing over a restart (see Storage).                             *)
(***************************************************************************)
EXTENDS Sequences, FiniteSets, Naturals

CONSTANTS
    Units,          \* the inspections, by correlation id
    Passing,        \* those whose verdict is PASS
    ShopFloor,      \* SHOP_FLOOR_WORKERS, in order
    Readers,        \* the reads that may be running at the same time
    Operators,      \* the assignments that may be running at the same time
    ViewCap,        \* _VIEW_CACHE_MAX
    StateCap,       \* _STATE_CACHE_MAX
    NoOne

ASSUME InspectionsAssumption ==
    /\ Passing \subseteq Units
    /\ Len(ShopFloor) \in Nat \ {0} /\ DOMAIN ShopFloor = 1 .. Len(ShopFloor)
    /\ ViewCap \in Nat \ {0} /\ StateCap \in Nat \ {0}

Workers == {ShopFloor[i] : i \in DOMAIN ShopFloor}

ASSUME NoOneAssumption == NoOne \notin Workers

\* What open_storage() opens at a boot: MongoDB, or the file store if that is not
\* configured or cannot be reached.
Rungs == {"mongodb", "files"}

VARIABLES
    request,    \* request[u]: where create_inspection() of u is
    narrative,  \* narrative[u]: where _narrate_and_publish() of u is
    rung,       \* the storage this process has opened
    saved,      \* saved[s]: the units in the inspection repository of the storage s
    states,     \* state.states: the units whose state the process has, oldest first
    views,      \* views[u]: the cached view of u, or NoView
    recency,    \* the units of _VIEWS, least recently used first
    custody,    \* custody[u]: the worker of _ASSIGNMENTS, or NoOne
    whole,      \* history: this boot read the assignments from MongoDB to the end
    turn,       \* _ASSIGNMENT_COUNTER, modulo the number of workers
    documents,  \* the assignment documents of MongoDB: byUnit and byKey
    reader,     \* reader[r]: the unit r waits for the storage for, or idle
    operator    \* operator[o]: where assign_defect() of o is

record   == <<request, rung, saved, states>>
cache    == <<views, recency>>
process  == <<custody, whole, turn>>
vars == <<record, narrative, cache, process, documents, reader, operator>>

NoView == [cached |-> FALSE]
Idle   == [pc |-> "idle"]

OnRecord == saved[rung]

-----------------------------------------------------------------------------
(* The view cache.                                                         *)

\* move_to_end()
Touch(order, u) == Append(SelectSeq(order, LAMBDA v : v # u), u)

\* _view_from_state(): a view is rendered without a narrative, and with the
\* custody of the moment.
View(u, holders) == [cached |-> TRUE, narrated |-> FALSE, worker |-> holders[u]]

\* _cache_view(): the least recently used view makes room.
CacheView(u, view) ==
    LET order == Touch(recency, u)
    IN  IF Len(order) > ViewCap
        THEN /\ recency' = Tail(order)
             /\ views' = [views EXCEPT ![u] = view, ![Head(order)] = NoView]
        ELSE /\ recency' = order
             /\ views' = [views EXCEPT ![u] = view]

\* _VIEWS.pop()
DropView(u) ==
    /\ recency' = SelectSeq(recency, LAMBDA v : v # u)
    /\ views' = [views EXCEPT ![u] = NoView]

-----------------------------------------------------------------------------
Init ==
    /\ request = [u \in Units |-> "none"]
    /\ narrative = [u \in Units |-> "none"]
    /\ rung \in Rungs
    /\ saved = [s \in Rungs |-> {}]
    /\ states = <<>>
    /\ views = [u \in Units |-> NoView]
    /\ recency = <<>>
    /\ custody = [u \in Units |-> NoOne]
    /\ whole = TRUE
    /\ turn = 0
    /\ documents = [byUnit |-> [u \in Units |-> NoOne],
                    byKey  |-> [u \in Units |-> NoOne]]
    /\ reader = [r \in Readers |-> Idle]
    /\ operator = [o \in Operators |-> Idle]

\* persist(), before it awaits the repository: the oldest state makes room.
Remember(u) ==
    LET order == Append(states, u)
    IN  states' = IF Len(order) > StateCap THEN Tail(order) ELSE order

\* create_inspection() has its verdict, which is in the process already, and awaits the
\* repository.
Inspect(u) ==
    /\ request[u] = "none"
    /\ request' = [request EXCEPT ![u] = "saving"]
    /\ Remember(u)
    /\ UNCHANGED <<rung, saved, narrative, cache, process, documents, reader, operator>>

\* The repository has written the record; the handler does not know yet.
Save(u) ==
    /\ request[u] = "saving"
    /\ request' = [request EXCEPT ![u] = "saved"]
    /\ saved' = [saved EXCEPT ![rung] = @ \cup {u}]
    /\ UNCHANGED <<rung, states, narrative, cache, process, documents, reader, operator>>

\* Mutant of SaveFails: the failure is logged and the verdict returned.
SaveFailsSilently(u) ==
    /\ request[u] \in {"saving", "saved"}
    /\ request' = [request EXCEPT ![u] = "returned"]
    /\ UNCHANGED <<rung, saved, states, narrative, cache, process, documents, reader,
                   operator>>

\* save() raises, whether or not the record was written: the client gets an error.  The
\* state stays where it is.
SaveFails(u) ==
    /\ request[u] \in {"saving", "saved"}
    /\ request' = [request EXCEPT ![u] = "failed"]
    /\ UNCHANGED <<rung, saved, states, narrative, cache, process, documents, reader,
                   operator>>

\* Back from the repository, create_inspection() assigns a unit that did not pass
\* to the worker whose turn it is, renders and caches the view, starts the
\* narrative and returns the view.
Respond(u) ==
    LET holders == IF u \in Passing THEN custody
                   ELSE [custody EXCEPT ![u] = ShopFloor[turn + 1]]
    IN  /\ request[u] = "saved"
        /\ request' = [request EXCEPT ![u] = "returned"]
        /\ custody' = holders
        /\ turn' = IF u \in Passing THEN turn ELSE (turn + 1) % Len(ShopFloor)
        /\ CacheView(u, View(u, holders))
        /\ narrative' = [narrative EXCEPT ![u] = "pending"]
        /\ UNCHANGED <<rung, saved, states, whole, documents, reader, operator>>

\* narrate() has an answer, a model's or the deterministic one: it is patched into
\* the view, if there is one.
Narrate(u) ==
    /\ narrative[u] = "pending"
    /\ narrative' = [narrative EXCEPT ![u] = "answered"]
    /\ views' = IF views[u].cached THEN [views EXCEPT ![u].narrated = TRUE] ELSE views
    /\ UNCHANGED <<record, recency, process, documents, reader, operator>>

\* narrate() raises: the exception is logged, and that is all.
NarrateFails(u) ==
    /\ narrative[u] = "pending"
    /\ narrative' = [narrative EXCEPT ![u] = "failed"]
    /\ UNCHANGED <<record, cache, process, documents, reader, operator>>

\* _resolve_view(), for the detail, for each record of a list, and for the metrics:
\* from the cache, or from the storage.
Resolve(r, u) ==
    /\ reader[r] = Idle
    /\ u \in OnRecord
    /\ IF views[u].cached
       THEN recency' = Touch(recency, u) /\ UNCHANGED reader
       ELSE reader' = [reader EXCEPT ![r] = [pc |-> "reading", unit |-> u]]
            /\ UNCHANGED recency
    /\ UNCHANGED <<record, narrative, views, process, documents, operator>>

\* ... where the record has been read, the view is rendered and cached.
ResolveStored(r) ==
    /\ reader[r] # Idle
    /\ CacheView(reader[r].unit, View(reader[r].unit, custody))
    /\ reader' = [reader EXCEPT ![r] = Idle]
    /\ UNCHANGED <<record, narrative, process, documents, operator>>

\* Mutant of HandOver: the cached view is left where it is.
HandOverKeepsView(o, u, w) ==
    /\ custody' = [custody EXCEPT ![u] = w]
    /\ UNCHANGED cache
    /\ operator' = [operator EXCEPT ![o] =
                      [pc |-> IF rung = "mongodb" THEN "byUnit" ELSE "byKey",
                       unit |-> u, worker |-> w]]

\* assign_defect() from the record to its first write: the unit changes hands in memory,
\* and the view that shows the old hands is dropped.
HandOver(o, u, w) ==
    /\ custody' = [custody EXCEPT ![u] = w]
    /\ DropView(u)
    /\ operator' = [operator EXCEPT ![o] =
                      [pc |-> IF rung = "mongodb" THEN "byUnit" ELSE "byKey",
                       unit |-> u, worker |-> w]]

\* assign_defect() of a unit that somebody has heard of (the assistant names those in
\* state.states, too) looks there first, saved or not, and then in the repository.
Assign(o, u, w) ==
    /\ operator[o] = Idle
    /\ request[u] # "none"
    /\ IF u \in {states[i] : i \in DOMAIN states}
       THEN HandOver(o, u, w)
       ELSE /\ operator' = [operator EXCEPT ![o] =
                              [pc |-> "looking", unit |-> u, worker |-> w]]
            /\ UNCHANGED <<custody, cache>>
    /\ UNCHANGED <<record, narrative, whole, turn, documents, reader>>

\* ... which answers: 404 if it has no such record.
AssignStored(o) ==
    /\ operator[o].pc = "looking"
    /\ IF operator[o].unit \in OnRecord
       THEN HandOver(o, operator[o].unit, operator[o].worker)
       ELSE /\ operator' = [operator EXCEPT ![o] = Idle]
            /\ UNCHANGED <<custody, cache>>
    /\ UNCHANGED <<record, narrative, whole, turn, documents, reader>>

\* MongoDB gets the document twice: found by its correlation_id, and by its _key.
WriteByUnit(o) ==
    /\ operator[o].pc = "byUnit"
    /\ documents' = [documents EXCEPT !.byUnit[operator[o].unit] = operator[o].worker]
    /\ operator' = [operator EXCEPT ![o].pc = "byKey"]
    /\ UNCHANGED <<record, narrative, cache, process, reader>>

\* The file store gets it once, and nobody reads it there.
WriteByKey(o) ==
    /\ operator[o].pc = "byKey"
    /\ documents' = IF rung = "files" THEN documents
                    ELSE [documents EXCEPT !.byKey[operator[o].unit] = operator[o].worker]
    /\ operator' = [operator EXCEPT ![o] = Idle]
    /\ UNCHANGED <<record, narrative, cache, process, reader>>

\* A read or a write raises.  A failed read is an error to the client; a failed write is
\* logged, the second one skipped, and the assignment announced and answered all the same.
AssignFails(o) ==
    /\ operator[o] # Idle
    /\ operator' = [operator EXCEPT ![o] = Idle]
    /\ UNCHANGED <<record, narrative, cache, process, documents, reader>>

\* Mutant of Reloaded: only the document with the key is looked for.
ReloadedByKey(u) == documents.byKey[u]

\* What the two documents of a unit come to, when both are read: the one inserted last
\* wins.
Reloaded(u) ==
    IF documents.byKey[u] # NoOne THEN documents.byKey[u] ELSE documents.byUnit[u]

\* sync_assignments_from_mongo(): nothing to read in the file store; all the documents of
\* MongoDB; or those that came before the cursor raised, which is logged.
Sync ==
    \/ /\ rung' = "files"
       /\ custody' = [u \in Units |-> NoOne] /\ whole' = FALSE
    \/ /\ rung' = "mongodb"
       /\ custody' = [u \in Units |-> Reloaded(u)] /\ whole' = TRUE
    \/ /\ rung' = "mongodb"
       /\ custody' \in {held \in [Units -> Workers \cup {NoOne}] :
                          \A u \in Units :
                             held[u] \in {NoOne, documents.byUnit[u], Reloaded(u)}}
       /\ whole' = FALSE

\* The process ends, with everything it was doing, and another boots on what is stored.
Restart ==
    /\ request' = [u \in Units |-> IF request[u] \in {"saving", "saved"} THEN "failed"
                                                                        ELSE request[u]]
    /\ narrative' = [u \in Units |-> IF narrative[u] = "pending" THEN "failed"
                                                                ELSE narrative[u]]
    /\ states' = <<>>
    /\ views' = [u \in Units |-> NoView]
    /\ recency' = <<>>
    /\ Sync
    /\ turn' = 0
    /\ reader' = [r \in Readers |-> Idle]
    /\ operator' = [o \in Operators |-> Idle]
    /\ UNCHANGED <<saved, documents>>

Next ==
    \/ \E u \in Units :
         \/ Inspect(u) \/ Save(u) \/ SaveFails(u) \/ Respond(u)
         \/ Narrate(u) \/ NarrateFails(u)
         \/ \E r \in Readers : Resolve(r, u)
         \/ \E o \in Operators, w \in Workers : Assign(o, u, w)
    \/ \E r \in Readers : ResolveStored(r)
    \/ \E o \in Operators :
         AssignStored(o) \/ WriteByUnit(o) \/ WriteByKey(o) \/ AssignFails(o)
    \/ Restart

Spec == Init /\ [][Next]_vars

-----------------------------------------------------------------------------
(* What the records promise.                                               *)

Statuses    == {"none", "saving", "saved", "returned", "failed"}
Narratives  == {"none", "pending", "answered", "failed"}
Holders     == Workers \cup {NoOne}
ViewType    == [cached : {TRUE}, narrated : BOOLEAN, worker : Holders]
Reading     == [pc : {"reading"}, unit : Units]
Assigning   == [pc : {"looking", "byUnit", "byKey"}, unit : Units, worker : Workers]

Sorts ==
    /\ request \in [Units -> Statuses]
    /\ narrative \in [Units -> Narratives]
    /\ rung \in Rungs
    /\ saved \in [Rungs -> SUBSET Units]
    /\ states \in Seq(Units)
    /\ views \in [Units -> ViewType \cup {NoView}]
    /\ custody \in [Units -> Holders] /\ whole \in BOOLEAN
    /\ turn \in 0 .. Len(ShopFloor) - 1
    /\ documents \in [byUnit : [Units -> Holders], byKey : [Units -> Holders]]
    /\ reader \in [Readers -> {Idle} \cup Reading]
    /\ operator \in [Operators -> {Idle} \cup Assigning]

\* The caches never outgrow their limits, and the order of the views is that of what is
\* held.
TypeOK ==
    /\ Sorts
    /\ Len(states) <= StateCap
    /\ recency \in Seq(Units) /\ Len(recency) <= ViewCap
    /\ {u \in Units : views[u].cached} = {recency[i] : i \in DOMAIN recency}
    /\ Cardinality({recency[i] : i \in DOMAIN recency}) = Len(recency)

\* A verdict that create_inspection() returned is on record, in the storage it was given
\* to, whatever that process or a later one does; a view that anybody can read is of a
\* record that the next process would find there; and a unit that is assigned, with its
\* verdict announced, is on record, or its inspection is still to be answered or has
\* failed: assign_defect() knows those from state.states (defects.py:69), and what it
\* writes of them may outlast the process that failed to save them.
ShownIsOnRecord ==
    \A u \in Units :
        /\ request[u] = "returned" => \E s \in Rungs : u \in saved[s]
        /\ views[u].cached => u \in OnRecord
        /\ custody[u] # NoOne => u \in OnRecord \/ request[u] \in {"saving", "failed"}

\* A cached view always names the worker who has the unit now, whatever was
\* assigned while the record was being saved, or read, or was cached already.
ViewsShowCustody ==
    \A u \in Units : views[u].cached => views[u].worker = custody[u]

\* No unit loses its worker but by a restart; and a unit that has a document in MongoDB
\* only by one that does not open MongoDB, or does not get to the end of the documents.
CustodyIsKept ==
    [][\A u \in Units : custody[u] # NoOne /\ custody'[u] = NoOne
         => Restart /\ (whole' => documents.byUnit[u] = NoOne)]_vars
=============================================================================
