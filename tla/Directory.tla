------------------------------ MODULE Directory ------------------------------
(***************************************************************************)
(* The user directory: the dictionary that logins and tokens are checked   *)
(* against, the registration that commits to the store before it issues a  *)
(* token, and the synchronisation that empties the dictionary and fills it *)
(* from MongoDB (src/src/forge/infrastructure/auth.py and                  *)
(* src/apps/api/routers/auth.py).                                          *)
(*                                                                         *)
(* The handlers run on one event loop, and a step is what happens between  *)
(* two calls of the store, or inside the store.  The dependencies that     *)
(* check a token run in worker threads; user_store(), which may seed the   *)
(* empty dictionary there, is one step all the same.  That another reader  *)
(* may find it half seeded is left out: no property speaks of demo         *)
(* accounts that are unknown for a moment.  The directory is the set of    *)
(* its names: passwords and roles decide who may do what, not who is       *)
(* known.  Names are canonical; the migration of bare names is left out.   *)
(***************************************************************************)
EXTENDS FiniteSets

CONSTANTS
    Names,          \* the canonical user names
    Demo,           \* those of _DEMO_USERS
    Registrations,  \* the registrations that may be running at the same time
    Syncs,          \* the synchronisations that may be running at the same time
    Mongo           \* is the storage MongoDB?  Otherwise it is the file store.

ASSUME DirectoryAssumption ==
    /\ Demo \subseteq Names
    /\ Mongo \in BOOLEAN

VARIABLES
    known,          \* _DYNAMIC_USERS
    stored,         \* the users in the store
    registration,   \* registration[r]: where register() is
    sync,           \* sync[s]: where sync_users_with_mongo() is
    issued,         \* history: the registered names that were given a token
    whole           \* history: no synchronisation has failed half-way since boot

vars == <<known, stored, registration, sync, issued, whole>>

Idle == [pc |-> "idle"]

\* user_store(): an empty dictionary is seeded with the demo users.
Store == IF known = {} THEN Demo ELSE known

-----------------------------------------------------------------------------
Init ==
    /\ known = {}
    /\ stored = {}
    /\ registration = [r \in Registrations |-> Idle]
    /\ sync = [s \in Syncs |-> Idle]
    /\ issued = {}
    /\ whole = TRUE

\* A login, a refresh or a request with a token looks somebody up.
Lookup ==
    /\ known' = Store
    /\ UNCHANGED <<stored, registration, sync, issued, whole>>

\* register_user(): a known name is refused.
Register(r, n) ==
    /\ registration[r] = Idle
    /\ known' = Store
    /\ registration' = IF n \in Store THEN registration
                       ELSE [registration EXCEPT ![r] = [pc |-> "finding", name |-> n]]
    /\ UNCHANGED <<stored, sync, issued, whole>>

\* find(): a stored name is refused.
Find(r) ==
    /\ registration[r].pc = "finding"
    /\ registration' = [registration EXCEPT ![r] =
         IF registration[r].name \in stored THEN Idle
         ELSE [pc |-> "putting", name |-> registration[r].name]]
    /\ UNCHANGED <<known, stored, sync, issued, whole>>

\* put(): the store has the user; the handler does not know yet.
Put(r) ==
    /\ registration[r].pc = "putting"
    /\ stored' = stored \cup {registration[r].name}
    /\ registration' = [registration EXCEPT ![r].pc = "committed"]
    /\ UNCHANGED <<known, sync, issued, whole>>

\* cache_user(), and the token.
Answer(r) ==
    /\ registration[r].pc = "committed"
    /\ known' = Store \cup {registration[r].name}
    /\ issued' = issued \cup {registration[r].name}
    /\ registration' = [registration EXCEPT ![r] = Idle]
    /\ UNCHANGED <<stored, sync, whole>>

\* Mutant of Refuse: the failure is logged, and the registration goes on.
RefuseNothing(r) ==
    /\ registration[r] # Idle
    /\ registration' = [registration EXCEPT ![r].pc = "committed"]
    /\ UNCHANGED <<known, stored, sync, issued, whole>>

\* The store raises, whether or not it has the user now: 503, and no token.
Refuse(r) ==
    /\ registration[r] # Idle
    /\ registration' = [registration EXCEPT ![r] = Idle]
    /\ UNCHANGED <<known, stored, sync, issued, whole>>

-----------------------------------------------------------------------------
(* sync_users_with_mongo(), at boot and whenever somebody logs in.          *)

\* The demo users that the store lacks are inserted.
SyncSeed(s) ==
    /\ Mongo /\ sync[s] = Idle
    /\ stored' = stored \cup Demo
    /\ sync' = [sync EXCEPT ![s] = [pc |-> "seeded"]]
    /\ UNCHANGED <<known, registration, issued, whole>>

\* The dictionary is cleared, and the store is asked for all users.
SyncClear(s) ==
    /\ sync[s].pc = "seeded"
    /\ known' = {}
    /\ sync' = [sync EXCEPT ![s] = [pc |-> "reading"]]
    /\ UNCHANGED <<stored, registration, issued, whole>>

\* The store answers.
SyncRead(s) ==
    /\ sync[s].pc = "reading"
    /\ sync' = [sync EXCEPT ![s] = [pc |-> "loading", names |-> stored]]
    /\ UNCHANGED <<known, stored, registration, issued, whole>>

\* Mutant of SyncLoad: what was read replaces the dictionary as a whole.
SyncReplaces(s) ==
    /\ sync[s].pc = "loading"
    /\ known' = sync[s].names
    /\ sync' = [sync EXCEPT ![s] = Idle]
    /\ UNCHANGED <<stored, registration, issued, whole>>

\* What was read is entered into the dictionary, next to what is there by now.
SyncLoad(s) ==
    /\ sync[s].pc = "loading"
    /\ known' = known \cup sync[s].names
    /\ sync' = [sync EXCEPT ![s] = Idle]
    /\ UNCHANGED <<stored, registration, issued, whole>>

\* MongoDB fails: logged, and the dictionary stays as it is.
SyncFails(s) ==
    /\ sync[s] # Idle
    /\ sync' = [sync EXCEPT ![s] = Idle]
    /\ whole' = (whole /\ sync[s].pc = "seeded")
    /\ UNCHANGED <<known, stored, registration, issued>>

\* The process ends and boots again; no request is served before the users are
\* synchronised, or that has failed.
Restart ==
    /\ registration' = [r \in Registrations |-> Idle]
    /\ sync' = [s \in Syncs |-> Idle]
    /\ \/ /\ Mongo
          /\ stored' = stored \cup Demo
          /\ known' = stored \cup Demo
          /\ whole' = TRUE
       \/ /\ known' = {}
          /\ whole' = FALSE
          /\ UNCHANGED stored
    /\ UNCHANGED issued

Next ==
    \/ Lookup \/ Restart
    \/ \E r \in Registrations :
         \/ \E n \in Names : Register(r, n)
         \/ Find(r) \/ Put(r) \/ Answer(r) \/ Refuse(r)
    \/ \E s \in Syncs :
         SyncSeed(s) \/ SyncClear(s) \/ SyncRead(s) \/ SyncLoad(s) \/ SyncFails(s)

Spec == Init /\ [][Next]_vars

-----------------------------------------------------------------------------
(* What the directory promises.                                            *)

Registering == [pc : {"finding", "putting", "committed"}, name : Names]
Syncing     == [pc : {"seeded", "reading"}] \cup [pc : {"loading"}, names : SUBSET Names]

\* Nobody is known who is neither declared nor in the store, and a synchronisation
\* never carries anybody else's name: the directory in memory makes up no user.
TypeOK ==
    /\ registration \in [Registrations -> {Idle} \cup Registering]
    /\ sync \in [Syncs -> {Idle} \cup Syncing]
    /\ whole \in BOOLEAN
    /\ stored \subseteq Names
    /\ known \subseteq Demo \cup stored
    /\ \A s \in Syncs : sync[s].pc = "loading" => sync[s].names \subseteq stored

\* register() commits before it issues a token: who was given one is in the store,
\* whatever failed, and whoever else registered the same name.
TokenMeansStored == issued \subseteq stored

\* Who was given a token by register() stays known, over restarts too: however the
\* registration and any number of synchronisations overlap, none forgets the user
\* once it is through.  (It takes MongoDB, and that it did not fail half-way.)
RegisteredStaysKnown ==
    Mongo /\ whole /\ (\A s \in Syncs : sync[s].pc \in {"idle", "seeded"})
        => issued \subseteq Store
=============================================================================
