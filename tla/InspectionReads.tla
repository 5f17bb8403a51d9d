--------------------------- MODULE InspectionReads ---------------------------
(***************************************************************************)
(* What a request reads of the inspections while others are being saved:   *)
(* the page of _visible_views(), behind the list and the metrics           *)
(* (src/apps/api/main.py), and the context that the assistant's answer is  *)
(* grounded on (_gather_context(), src/apps/api/routers/assistant.py).     *)
(*                                                                         *)
(* Both take the newest records from list(), then the records one by one,  *)
(* and narrow them to the stations of the caller's role; the assistant     *)
(* begins with the states that persist() keeps in the process.  A record   *)
(* that was listed can be fetched: no tier loses one during a request.     *)
(***************************************************************************)
EXTENDS Storage

CONSTANTS
    OwnStation,     \* the inspections made at DEFAULT_STATION_ID
    Limit,          \* limit of the list, or _METRICS_WINDOW
    ScanCap,        \* _SCAN_CAP
    Window,         \* _CONTEXT_WINDOW
    Backfill,       \* _CONTEXT_WINDOW * 3
    CacheMax,       \* _STATE_CACHE_MAX
    Asked           \* bound: the units a caller of the assistant looks at

ASSUME ReadsAssumption ==
    /\ OwnStation \subseteq Inspections
    /\ {Limit, ScanCap, Window, Backfill, CacheMax} \subseteq Nat \ {0}
    /\ Window <= Backfill
    /\ Asked \subseteq Inspections

VARIABLES
    states,     \* the ids of state.states, oldest first
    read        \* the request in hand

readVars == <<vars, states, read>>

NoRead == [phase |-> "none"]

ReadsInit == Init /\ states = <<>> /\ read = NoRead

-----------------------------------------------------------------------------
(* Lists of ids, as definitions without recursion, for the proofs.         *)

\* The numbers of a finite set, smallest first.
Ascending(ids) ==
    CHOOSE seq \in [1 .. Cardinality(ids) -> ids] :
        \A i, j \in DOMAIN seq : i < j => seq[i] < seq[j]

\* created_at, descending.
NewestFirst(ids) == Reverse(Ascending(ids))

\* What seq has of ids, in the order of seq.
Among(seq, ids) ==
    LET at == Ascending({i \in DOMAIN seq : seq[i] \in ids})
    IN  [n \in DOMAIN at |-> seq[at[n]]]

FirstOf(seq, n) == SubSeq(seq, 1, IF Len(seq) < n THEN Len(seq) ELSE n)

-----------------------------------------------------------------------------
(* Saving.                                                                 *)

\* persist(): into the process first, whatever becomes of the saving.
Kept(k) ==
    LET moved == Append(Among(states, Inspections \ {k}), k)
    IN  IF Len(moved) > CacheMax THEN Tail(moved) ELSE moved

Save ==
    /\ \E c \in Callers :
         \/ \E k \in Inspections : Ask(c, k) /\ states' = Kept(k)
         \/ \E k \in Documents : Ask(c, k) /\ UNCHANGED states
         \/ Proceed(c) /\ UNCHANGED states
    /\ UNCHANGED read

ReadsReboot == Reboot /\ states' = <<>> /\ read' = NoRead

-----------------------------------------------------------------------------
(* Reading.                                                                *)

\* StationScope.permits(): inspection:read sees every station.
Permitted(scope) == IF scope = "all" THEN Inspections ELSE OwnStation

\* Mutant of Fetch: a page takes as many as it shows, and narrows them then.
FetchPage(r) == IF r.kind = "chat" THEN Backfill ELSE Limit

\* How many are taken from list().
Fetch(r) ==
    IF r.kind = "chat" THEN Backfill ELSE IF r.scope = "all" THEN Limit ELSE ScanCap

\* A request begins: a page, or a chat about a unit, which may not exist.  The
\* assistant copies state.states; MongoDB counts first; a thread starts to read the
\* files.
Begin(kind, scope, about) ==
    /\ mode # "none"
    /\ read.phase # "listing"
    /\ read' = [phase |-> "listing", kind |-> kind, scope |-> scope, about |-> about,
                before |-> Stored, copied |-> IF kind = "chat" THEN ToSet(states) ELSE {}]

\* list(): memory in the order of the first save, the others by created_at.  The
\* thread may or may not meet the files that are made while it reads.
Listings(r) ==
    CASE mode = "ephemeral" -> {Reverse(order)}
      [] mode = "mongo"     -> {NewestFirst(Stored)}
      [] mode = "file"      -> {NewestFirst(r.before \cup late) :
                                  late \in SUBSET (Stored \ r.before)}

\* How many there are in all, as list() says: MongoDB counted at the beginning.
Counted(r, listed) == IF mode = "mongo" THEN Cardinality(r.before) ELSE Len(listed)

\* _visible_views().
Page(r, listed) ==
    LET scanned == FirstOf(listed, Fetch(r))
        visible == Among(scanned, Permitted(r.scope))
        stored  == Counted(r, listed)
    IN  [shown     |-> FirstOf(visible, Limit),
         total     |-> IF r.scope = "all" THEN stored ELSE Len(visible),
         truncated |-> r.scope # "all" /\ stored > Len(scanned)]

\* Mutant of Context: the unit the caller looks at is put in whoever asks.
ContextUnscoped(r, listed) ==
    LET about  == {r.about} \cap (r.copied \cup Stored)
        known  == r.copied \cup ToSet(FirstOf(listed, Fetch(r))) \cup about
        recent == FirstOf(NewestFirst(known \cap Permitted(r.scope)), Window)
    IN  IF about \subseteq ToSet(recent) THEN recent
        ELSE <<r.about>> \o FirstOf(recent, Window - 1)

\* _gather_context(): the newest of what it knows and may show; the unit the caller
\* looks at takes the place of the oldest when it is not among them.
Context(r, listed) ==
    LET about  == {r.about} \cap (r.copied \cup Stored)
        known  == r.copied \cup ToSet(FirstOf(listed, Fetch(r))) \cup about
        recent == FirstOf(NewestFirst(known \cap Permitted(r.scope)), Window)
    IN  IF about \cap Permitted(r.scope) \subseteq ToSet(recent) THEN recent
        ELSE <<r.about>> \o FirstOf(recent, Window - 1)

\* The listing is in, and the answer follows from it.
List ==
    /\ read.phase = "listing"
    /\ read' = NoRead

Read ==
    /\ \/ \E scope \in {"all", "own"} :
            \/ Begin("page", scope, 0)
            \/ \E about \in Asked : Begin("chat", scope, about)
       \/ List
    /\ UNCHANGED <<vars, states>>

\* Memory is read without suspending: nothing is written between the two steps.
ReadsNext ==
    \/ read.phase = "listing" /\ mode = "ephemeral" /\ List /\ UNCHANGED <<vars, states>>
    \/ ~(read.phase = "listing" /\ mode = "ephemeral") /\ (Save \/ ReadsReboot \/ Read)

ReadsSpec == ReadsInit /\ [][ReadsNext]_readVars

-----------------------------------------------------------------------------
(* Properties.  Both are about any answer that may be given next.          *)

\* j was made, or in memory first saved, after k.
Newer(j, k) ==
    IF mode = "ephemeral"
    THEN \E m, n \in DOMAIN order : order[m] = j /\ order[n] = k /\ m > n
    ELSE j > k

Answering(kind) == read.phase = "listing" /\ read.kind = kind

\* A page of one station's records adds up while records are being saved: all it
\* shows is of that station and was saved, newest first; one that it lacks is older
\* than all it shows; and it lacks one only when it is full, when there are more than
\* are scanned and it says that its total is a lower bound, or when something was saved
\* while it was read.  Its total is then no more than there are, otherwise exactly that.
PageAddsUp ==
    Answering("page") => \A listed \in Listings(read) :
        LET page   == Page(read, listed)
            before == read.before \cap Permitted(read.scope)
            now    == Stored \cap Permitted(read.scope)
            sure   == /\ read.before = Stored
                      /\ ~page.truncated \/ Cardinality(Stored) <= ScanCap
        IN  /\ ToSet(page.shown) \subseteq now
            /\ \A i, j \in DOMAIN page.shown : i < j => Newer(page.shown[i], page.shown[j])
            /\ \A k \in before \ ToSet(page.shown) :
                 /\ \A j \in ToSet(page.shown) : Newer(j, k)
                 /\ sure => Len(page.shown) = Limit
            /\ page.total <= Cardinality(now)
            /\ sure => page.total = Cardinality(now)

\* The assistant is grounded on records the caller may see, no more than the window
\* holds; on the unit the caller looks at, if it may be seen and the process or the
\* store had it; and for a caller who sees every station, on the newest there were,
\* an inspection whose saving failed among them.
GroundedInScope ==
    Answering("chat") => \A listed \in Listings(read) :
        LET context == Context(read, listed)
            shown   == ToSet(context)
            mine    == Permitted(read.scope)
            had     == read.before \cup read.copied
        IN  /\ shown \subseteq mine \cap (Stored \cup read.copied)
            /\ Len(context) <= Window
            /\ {read.about} \cap mine \cap had \subseteq shown
            /\ read.scope = "all" /\ mode # "ephemeral" =>
                 \A k \in had \ shown : Cardinality(shown) = Window
                                        /\ \A j \in shown \ {read.about} : j > k
=============================================================================
