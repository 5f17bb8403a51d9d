------------------------------- MODULE Storage -------------------------------
(***************************************************************************)
(* The storage of the API process (src/src/forge/infrastructure/           *)
(* persistence): the ladder MongoDB, files, memory that open_storage()     *)
(* climbs down at every boot, and the writes of each tier.                 *)
(*                                                                         *)
(* A write to a file is a temporary file and os.replace(), in a thread,    *)
(* while the coroutine holds the lock of its store; a write to MongoDB is  *)
(* one replace_one() whose answer may not arrive; a write to memory does   *)
(* not suspend.  The value of a write is its number.  Inspections and      *)
(* documents are two stores with a lock each; only the inspections in      *)
(* memory are evicted.  Deleting a document is left out, nothing calls it; *)
(* and so is the audit log, which nothing writes.                          *)
(***************************************************************************)
EXTENDS Naturals, Sequences, FiniteSets, SequencesExt

CONSTANTS
    Inspections,    \* correlation ids; a larger one was created later
    Documents,      \* the keys of documents
    NameOf,         \* _safe_name() of every key, a number
    Callers,        \* the coroutines that write
    MaxRecords,     \* max_records
    MaxWrites,      \* bound: how many writes are begun
    MaxBoots        \* bound: how often the process is booted anew

Keys == Inspections \cup Documents

ASSUME StorageAssumption ==
    /\ Inspections \subseteq Nat \ {0} /\ IsFiniteSet(Inspections)
    /\ Documents \subseteq Nat \ {0} /\ IsFiniteSet(Documents)
    /\ Inspections \cap Documents = {}
    /\ NameOf \in [Keys -> Nat]
    /\ \A k, j \in Keys : k # j /\ NameOf[k] = NameOf[j] => {k, j} \subseteq Documents
    /\ MaxRecords \in Nat \ {0}
    /\ MaxWrites \in Nat /\ MaxBoots \in Nat

Names == {NameOf[k] : k \in Keys}
Values == 1..MaxWrites

VARIABLES
    mode,       \* Storage.mode
    db,         \* db[k]: the value of the document MongoDB has for k, or 0
    disk,       \* disk[n]: the file of that name: the _key and the value in it
    ram,        \* ram[k]: what the process has in memory for k, or 0
    order,      \* the inspections in memory, oldest first
    calls,      \* calls[c]: where the write of c is
    lock,       \* lock[s]: the caller inside store s, or nobody
    written,    \* how many writes were begun
    boots       \* how many boots there were

store == <<db, disk, ram, order>>
vars == <<mode, store, calls, lock, written, boots>>

Tiers == {"mongo", "file", "ephemeral"}
Stores == {"inspections", "documents"}
Idle == [phase |-> "idle", key |-> 0, value |-> 0]
Nobody == [free |-> TRUE]
By(c) == [free |-> FALSE, caller |-> c]
NoFile == [key |-> 0, value |-> 0]

Shelf(k) == IF k \in Inspections THEN "inspections" ELSE "documents"

-----------------------------------------------------------------------------
(* The boot.                                                               *)

\* What a boot finds: is there a MONGO_URL, what comes of it, are files allowed?  The
\* server may not answer the ping, and it may answer but refuse an index.
Surroundings == [url : BOOLEAN, server : {"silent", "refuses", "ready"}, files : BOOLEAN]

\* Mongo, file, memory.  Only a MongoUnavailableError leads on to the next rung: what
\* ensure_indexes() raises ends the boot.
Opened(s) ==
    CASE s.url /\ s.server = "ready"   -> "mongo"
      [] s.url /\ s.server = "refuses" -> "none"
      [] OTHER                         -> IF s.files THEN "file" ELSE "ephemeral"

Open == \E s \in Surroundings : mode' = Opened(s)

Init ==
    /\ \E s \in Surroundings : mode = Opened(s)
    /\ db = [k \in Keys |-> 0]
    /\ disk = [n \in Names |-> NoFile]
    /\ ram = [k \in Keys |-> 0]
    /\ order = <<>>
    /\ calls = [c \in Callers |-> Idle]
    /\ lock = [s \in Stores |-> Nobody]
    /\ written = 0
    /\ boots = 0

-----------------------------------------------------------------------------
(* What a key reads as.                                                    *)

\* Mutant of InFile: the key inside the document is not looked at.
InFileUnverified(k) == disk[NameOf[k]].value

\* A file counts for the key that is written in it only.
InFile(k) == IF disk[NameOf[k]].key = k THEN disk[NameOf[k]].value ELSE 0

Reads(k) ==
    CASE mode = "mongo"     -> db[k]
      [] mode = "file"      -> InFile(k)
      [] mode = "ephemeral" -> ram[k]
      [] mode = "none"      -> 0

Stored == {k \in Inspections : Reads(k) # 0}

-----------------------------------------------------------------------------
(* Writing.                                                                *)

Become(c, phase) == calls' = [calls EXCEPT ![c].phase = phase]
Done(c) == calls' = [calls EXCEPT ![c] = Idle]
Release(c) == lock' = [lock EXCEPT ![Shelf(calls[c].key)] = Nobody]

\* save() or put() is called.
Ask(c, k) ==
    /\ mode # "none"
    /\ calls[c] = Idle
    /\ written < MaxWrites
    /\ written' = written + 1
    /\ calls' = [calls EXCEPT ![c] = [phase |-> "asked", key |-> k, value |-> written']]
    /\ UNCHANGED <<mode, store, lock, boots>>

\* Mutant of Acquire: the file itself is opened for writing, which empties it.
AcquireInPlace(c) ==
    /\ mode = "file"
    /\ calls[c].phase = "asked"
    /\ lock[Shelf(calls[c].key)] = Nobody
    /\ lock' = [lock EXCEPT ![Shelf(calls[c].key)] = By(c)]
    /\ disk' = [disk EXCEPT ![NameOf[calls[c].key]] = NoFile]
    /\ Become(c, "writing")
    /\ UNCHANGED <<mode, db, ram, order, written, boots>>

\* Inside the lock a thread begins to write the temporary file.
Acquire(c) ==
    /\ mode = "file"
    /\ calls[c].phase = "asked"
    /\ lock[Shelf(calls[c].key)] = Nobody
    /\ lock' = [lock EXCEPT ![Shelf(calls[c].key)] = By(c)]
    /\ Become(c, "writing")
    /\ UNCHANGED <<mode, store, written, boots>>

\* os.replace(): from one moment to the next the file is the new one.
Replace(c) ==
    /\ calls[c].phase = "writing"
    /\ disk' = [disk EXCEPT ![NameOf[calls[c].key]] =
                  [key |-> calls[c].key, value |-> calls[c].value]]
    /\ Become(c, "placed")
    /\ UNCHANGED <<mode, db, ram, order, lock, written, boots>>

\* Writing the temporary file fails: it is removed, and save() raises.
WriteFails(c) ==
    /\ calls[c].phase = "writing"
    /\ Release(c)
    /\ Done(c)
    /\ UNCHANGED <<mode, store, written, boots>>

\* replace_one(upsert) of the document with this key.
ReplaceOne(c) ==
    /\ mode = "mongo"
    /\ calls[c].phase = "asked"
    /\ db' = [db EXCEPT ![calls[c].key] = calls[c].value]
    /\ Become(c, "placed")
    /\ UNCHANGED <<mode, disk, ram, order, lock, written, boots>>

\* The server or the connection fails, before or after the document was replaced.
MongoFails(c) ==
    /\ mode = "mongo"
    /\ calls[c].phase \in {"asked", "placed"}
    /\ Done(c)
    /\ UNCHANGED <<mode, store, lock, written, boots>>

\* A new inspection goes to the end; beyond the limit the oldest is evicted.
Remember(c) ==
    LET k     == calls[c].key
        grown == IF k \in Documents \cup ToSet(order) THEN order ELSE Append(order, k)
        full  == Len(grown) > MaxRecords
    IN  /\ mode = "ephemeral"
        /\ calls[c].phase = "asked"
        /\ order' = IF full THEN Tail(grown) ELSE grown
        /\ ram' = [j \in Keys |-> IF full /\ j = Head(grown) THEN 0
                                  ELSE IF j = k THEN calls[c].value ELSE ram[j]]
        /\ Become(c, "placed")
        /\ UNCHANGED <<mode, db, disk, lock, written, boots>>

\* The caller goes on, its write acknowledged.
Return(c) ==
    /\ calls[c].phase = "placed"
    /\ IF mode = "file" THEN Release(c) ELSE UNCHANGED lock
    /\ Done(c)
    /\ UNCHANGED <<mode, store, written, boots>>

\* The process ends, at any moment, and boots.  A temporary file that is left over
\* has a name that no read looks for.
Reboot ==
    /\ boots < MaxBoots
    /\ boots' = boots + 1
    /\ Open
    /\ calls' = [c \in Callers |-> Idle]
    /\ lock' = [s \in Stores |-> Nobody]
    /\ ram' = [k \in Keys |-> 0]
    /\ order' = <<>>
    /\ UNCHANGED <<db, disk, written>>

Proceed(c) ==
    \/ Acquire(c) \/ Replace(c) \/ WriteFails(c)
    \/ ReplaceOne(c) \/ MongoFails(c)
    \/ Remember(c)
    \/ Return(c)

Next ==
    \/ \E c \in Callers : (\E k \in Keys : Ask(c, k)) \/ Proceed(c)
    \/ Reboot

Spec == Init /\ [][Next]_vars

-----------------------------------------------------------------------------
(* The promise it keeps.                                                   *)

Taken(call) ==
    [call EXCEPT !.phase = CASE call.phase = "idle"                -> "idle"
                             [] call.phase \in {"asked", "writing"} -> "asked"
                             [] call.phase = "placed"              -> "applied"]

TakenCalls == [c \in Callers |-> Taken(calls[c])]

KeptBy ==
    [t \in Tiers |-> [k \in Keys |-> CASE t = "mongo"     -> db[k]
                                      [] t = "file"      -> InFile(k)
                                      [] t = "ephemeral" -> ram[k]]]

Promise == INSTANCE DurableStore WITH kept <- KeptBy, calls <- TakenCalls

\* Whatever is written, fails or is cut off, on any tier and over any number of
\* boots, each write takes effect at once or not at all, the ones that returned are
\* there on every later boot to the same tier, and no key ever reads as another's.
KeepsPromise == Promise!Spec
=============================================================================
