---------------------------- MODULE SessionProofs ----------------------------
(***************************************************************************)
(* Proofs about Directory, the users and registrations behind the API, and *)
(* about Session, the web client that calls it: for any names and demo     *)
(* accounts, any number of registrations and synchronisations under way,   *)
(* and any number of functions of the page that wait.                      *)
(***************************************************************************)
EXTENDS Session, TLAPS

(* Part 1: the directory alone, as Spec.                                   *)

(***************************************************************************)
(* The inductive invariant.  While a synchronisation has emptied the       *)
(* dictionary, a registered user need not be in it; then the user is about *)
(* to be read, or has been read and is about to be entered.                *)
(***************************************************************************)
Committed ==
    \A r \in Registrations :
        registration[r].pc = "committed" => registration[r].name \in stored

DemoSeeded ==
    \A s \in Syncs :
        /\ sync[s] # Idle => Demo \subseteq stored
        /\ sync[s].pc = "loading" => Demo \subseteq sync[s].names

\* The user is known, or a synchronisation will enter the name.
KnownOrComing(u) ==
    \/ u \in Store
    \/ \E s \in Syncs : sync[s].pc = "reading"
    \/ \E s \in Syncs : sync[s].pc = "loading" /\ u \in sync[s].names

NobodyForgotten == Mongo /\ whole => \A u \in issued : KnownOrComing(u)

IInv == TypeOK /\ Committed /\ TokenMeansStored /\ DemoSeeded /\ NobodyForgotten

\* The process starts with nobody.
LEMMA InitInv == Init => IInv
BY DEF Init, IInv, TypeOK, Committed, TokenMeansStored, DemoSeeded, NobodyForgotten,
       Idle

\* user_store() names nobody who is not declared or stored, and forgets nobody.
LEMMA StoreKeeps ==
    ASSUME TypeOK
    PROVE  /\ Store \subseteq Demo \cup stored
           /\ Store \subseteq Names
           /\ known' = Store => Store' = Store
BY DirectoryAssumption DEF TypeOK, Store

\* A lookup, and a registration up to its find().
LEMMA LookupKeepsInv ==
    ASSUME IInv,
           Lookup \/ \E r \in Registrations, n \in Names : Register(r, n)
    PROVE  IInv'
<1>1. /\ known' = Store
      /\ UNCHANGED <<stored, sync, issued, whole>>
  BY DEF Lookup, Register
<1>2. registration' \in [Registrations -> {Idle} \cup Registering]
  BY DEF IInv, TypeOK, Lookup, Register, Registering
<1>3. Committed'
  BY DEF IInv, TypeOK, Committed, Lookup, Register
<1>4. Store' = Store /\ Store \subseteq Demo \cup stored
  BY <1>1, StoreKeeps DEF IInv
<1>5. TypeOK'
  BY <1>1, <1>2, <1>4 DEF IInv, TypeOK
<1>6. NobodyForgotten'
  BY <1>1, <1>4 DEF IInv, NobodyForgotten, KnownOrComing
<1>. QED
  BY <1>1, <1>3, <1>5, <1>6 DEF IInv, TokenMeansStored, DemoSeeded

\* What the store does for a registration, and what its failures do.
LEMMA StoringKeepsInv ==
    ASSUME IInv, NEW r \in Registrations, Find(r) \/ Put(r) \/ Refuse(r)
    PROVE  IInv'
<1>1. registration[r] \in Registering
  BY DEF IInv, TypeOK, Find, Put, Refuse, Idle
<1>2. /\ UNCHANGED <<known, sync, issued, whole>>
      /\ stored' \in {stored, stored \cup {registration[r].name}}
  BY DEF Find, Put, Refuse
<1>3. registration' \in [Registrations -> {Idle} \cup Registering]
  <2>1. [registration[r] EXCEPT !.pc = "committed"] \in Registering
    BY <1>1 DEF Registering
  <2>2. [pc |-> "putting", name |-> registration[r].name] \in Registering
    BY <1>1 DEF Registering
  <2>. QED
    BY <2>1, <2>2 DEF IInv, TypeOK, Find, Put, Refuse
<1>4. Committed'
  <2>1. CASE Put(r)
    <3>1. [registration[r] EXCEPT !.pc = "committed"].name = registration[r].name
      BY <1>1 DEF Registering
    <3>. QED
      BY <2>1, <3>1 DEF IInv, TypeOK, Committed, Put
  <2>2. CASE Find(r) \/ Refuse(r)
    BY <2>2 DEF IInv, TypeOK, Committed, Find, Refuse, Idle
  <2>. QED
    BY <2>1, <2>2
<1>5. TypeOK'
  BY <1>1, <1>2, <1>3 DEF IInv, TypeOK, Registering
<1>6. TokenMeansStored' /\ DemoSeeded'
  BY <1>2 DEF IInv, TokenMeansStored, DemoSeeded
<1>7. NobodyForgotten'
  BY <1>2 DEF IInv, NobodyForgotten, KnownOrComing, Store
<1>. QED
  BY <1>4, <1>5, <1>6, <1>7 DEF IInv

\* The registration is through: the user is stored, and known.
LEMMA AnswerKeepsInv ==
    ASSUME IInv, NEW r \in Registrations, Answer(r)
    PROVE  IInv'
<1>. DEFINE n == registration[r].name
<1>1. /\ n \in stored
      /\ known' = Store \cup {n}
      /\ issued' = issued \cup {n}
      /\ registration' = [registration EXCEPT ![r] = Idle]
      /\ UNCHANGED <<stored, sync, whole>>
  BY DEF IInv, Committed, Answer
<1>. HIDE DEF n
<1>2. Store' = Store \cup {n}
  BY <1>1 DEF Store
<1>3. TypeOK'
  BY <1>1, StoreKeeps DEF IInv, TypeOK
<1>4. Committed' /\ TokenMeansStored' /\ DemoSeeded'
  BY <1>1 DEF IInv, TypeOK, Committed, TokenMeansStored, DemoSeeded, Idle
<1>5. NobodyForgotten'
  BY <1>1, <1>2 DEF IInv, NobodyForgotten, KnownOrComing
<1>. QED
  BY <1>3, <1>4, <1>5 DEF IInv

\* A synchronisation up to the store's answer.
LEMMA SyncReadsKeepsInv ==
    ASSUME IInv, NEW s \in Syncs, SyncSeed(s) \/ SyncClear(s) \/ SyncRead(s)
    PROVE  IInv'
<1>1. CASE SyncSeed(s)
  <2>1. /\ sync[s] = Idle
        /\ stored' = stored \cup Demo
        /\ sync' = [sync EXCEPT ![s] = [pc |-> "seeded"]]
        /\ UNCHANGED <<known, registration, issued, whole>>
    BY <1>1 DEF SyncSeed
  <2>2. sync' \in [Syncs -> {Idle} \cup Syncing]
    BY <2>1 DEF IInv, TypeOK, Syncing
  <2>3. TypeOK'
    BY <2>1, <2>2, DirectoryAssumption DEF IInv, TypeOK
  <2>4. Committed' /\ TokenMeansStored' /\ DemoSeeded'
    BY <2>1 DEF IInv, TypeOK, Committed, TokenMeansStored, DemoSeeded
  <2>5. NobodyForgotten'
    BY <2>1 DEF IInv, TypeOK, NobodyForgotten, KnownOrComing, Store, Idle
  <2>. QED
    BY <2>3, <2>4, <2>5 DEF IInv
<1>2. CASE SyncClear(s)
  <2>1. /\ sync[s].pc = "seeded" /\ sync[s] # Idle
        /\ known' = {}
        /\ sync' = [sync EXCEPT ![s] = [pc |-> "reading"]]
        /\ UNCHANGED <<stored, registration, issued, whole>>
    BY <1>2 DEF SyncClear, Idle
  <2>2. sync' \in [Syncs -> {Idle} \cup Syncing] /\ sync'[s].pc = "reading"
    BY <2>1 DEF IInv, TypeOK, Syncing
  <2>3. TypeOK'
    BY <2>1, <2>2 DEF IInv, TypeOK
  <2>4. Committed' /\ TokenMeansStored' /\ DemoSeeded'
    BY <2>1 DEF IInv, TypeOK, Committed, TokenMeansStored, DemoSeeded
  <2>5. NobodyForgotten'
    BY <2>2 DEF NobodyForgotten, KnownOrComing
  <2>. QED
    BY <2>3, <2>4, <2>5 DEF IInv
<1>3. CASE SyncRead(s)
  <2>1. /\ sync[s].pc = "reading" /\ sync[s] # Idle
        /\ sync' = [sync EXCEPT ![s] = [pc |-> "loading", names |-> stored]]
        /\ UNCHANGED <<known, stored, registration, issued, whole>>
    BY <1>3 DEF SyncRead, Idle
  <2>2. /\ sync' \in [Syncs -> {Idle} \cup Syncing]
        /\ sync'[s].pc = "loading" /\ sync'[s].names = stored
    BY <2>1 DEF IInv, TypeOK, Syncing
  <2>3. TypeOK'
    BY <2>1, <2>2 DEF IInv, TypeOK
  <2>4. Committed' /\ TokenMeansStored'
    BY <2>1 DEF IInv, Committed, TokenMeansStored
  <2>5. DemoSeeded'
    BY <2>1, <2>2 DEF IInv, TypeOK, DemoSeeded
  <2>6. NobodyForgotten'
    BY <2>1, <2>2 DEF IInv, TokenMeansStored, NobodyForgotten, KnownOrComing
  <2>. QED
    BY <2>3, <2>4, <2>5, <2>6 DEF IInv
<1>. QED
  BY <1>1, <1>2, <1>3

\* The end of a synchronisation.
LEMMA SyncLoadKeepsInv ==
    ASSUME IInv, NEW s \in Syncs, SyncLoad(s)
    PROVE  IInv'
<1>1. /\ sync[s].pc = "loading" /\ sync[s] # Idle
      /\ known' = known \cup sync[s].names
      /\ sync' = [sync EXCEPT ![s] = Idle]
      /\ UNCHANGED <<stored, registration, issued, whole>>
  BY DEF SyncLoad, Idle
<1>2. Demo \subseteq sync[s].names /\ sync[s].names \subseteq stored
  BY <1>1 DEF IInv, TypeOK, DemoSeeded
<1>3. Store \cup sync[s].names \subseteq Store'
  BY <1>1, <1>2 DEF Store
<1>4. TypeOK'
  BY <1>1, <1>2 DEF IInv, TypeOK, Idle
<1>5. Committed' /\ TokenMeansStored' /\ DemoSeeded'
  BY <1>1 DEF IInv, TypeOK, Committed, TokenMeansStored, DemoSeeded, Idle
<1>6. NobodyForgotten'
  BY <1>1, <1>3 DEF IInv, TypeOK, NobodyForgotten, KnownOrComing
<1>. QED
  BY <1>4, <1>5, <1>6 DEF IInv

\* A failed synchronisation costs wholeness, unless it had not cleared yet.
LEMMA SyncFailsKeepsInv ==
    ASSUME IInv, NEW s \in Syncs, SyncFails(s)
    PROVE  IInv'
<1>1. /\ sync' = [sync EXCEPT ![s] = Idle]
      /\ whole' = (whole /\ sync[s].pc = "seeded")
      /\ UNCHANGED <<known, stored, registration, issued>>
  BY DEF SyncFails
<1>2. TypeOK'
  BY <1>1 DEF IInv, TypeOK, Idle
<1>3. Committed' /\ TokenMeansStored' /\ DemoSeeded'
  BY <1>1 DEF IInv, TypeOK, Committed, TokenMeansStored, DemoSeeded, Idle
<1>4. NobodyForgotten'
  BY <1>1 DEF IInv, TypeOK, NobodyForgotten, KnownOrComing, Store
<1>. QED
  BY <1>2, <1>3, <1>4 DEF IInv

\* A boot on MongoDB knows all who are stored, or it is not whole.
LEMMA RestartKeepsInv ==
    ASSUME IInv, Restart
    PROVE  IInv'
<1>1. /\ registration' = [r \in Registrations |-> Idle]
      /\ sync' = [t \in Syncs |-> Idle]
      /\ issued' = issued
      /\ \/ stored' = stored \cup Demo /\ known' = stored \cup Demo /\ whole' = TRUE
         \/ stored' = stored /\ known' = {} /\ whole' = FALSE
  BY DEF Restart
<1>2. TypeOK'
  BY <1>1, DirectoryAssumption DEF IInv, TypeOK, Idle
<1>3. Committed' /\ TokenMeansStored' /\ DemoSeeded'
  BY <1>1 DEF IInv, Committed, TokenMeansStored, DemoSeeded, Idle
<1>4. NobodyForgotten'
  BY <1>1 DEF IInv, TokenMeansStored, NobodyForgotten, KnownOrComing, Store
<1>. QED
  BY <1>2, <1>3, <1>4 DEF IInv

\* Every step keeps the invariant.
LEMMA NextKeepsInv == IInv /\ [Next]_vars => IInv'
<1>. SUFFICES ASSUME IInv, [Next]_vars PROVE IInv'
  OBVIOUS
<1>1. CASE UNCHANGED vars
  BY <1>1 DEF vars, IInv, TypeOK, Committed, TokenMeansStored, DemoSeeded,
              NobodyForgotten, KnownOrComing, Store
<1>2. CASE Lookup \/ \E r \in Registrations, n \in Names : Register(r, n)
  BY <1>2, LookupKeepsInv
<1>3. ASSUME NEW r \in Registrations, Find(r) \/ Put(r) \/ Refuse(r)
      PROVE  IInv'
  BY <1>3, StoringKeepsInv
<1>4. ASSUME NEW r \in Registrations, Answer(r)
      PROVE  IInv'
  BY <1>4, AnswerKeepsInv
<1>5. ASSUME NEW s \in Syncs, SyncSeed(s) \/ SyncClear(s) \/ SyncRead(s)
      PROVE  IInv'
  BY <1>5, SyncReadsKeepsInv
<1>6. ASSUME NEW s \in Syncs, SyncLoad(s)
      PROVE  IInv'
  BY <1>6, SyncLoadKeepsInv
<1>7. ASSUME NEW s \in Syncs, SyncFails(s)
      PROVE  IInv'
  BY <1>7, SyncFailsKeepsInv
<1>8. CASE Restart
  BY <1>8, RestartKeepsInv
<1>. QED
  BY <1>1, <1>2, <1>3, <1>4, <1>5, <1>6, <1>7, <1>8 DEF Next

\* The invariant always holds.
LEMMA Invariant == Spec => []IInv
BY InitInv, NextKeepsInv, PTL DEF Spec

(***************************************************************************)
(* What the directory promises, always.                                    *)
(***************************************************************************)

\* Nobody is known who is neither declared nor stored.
THEOREM TypeCorrect == Spec => []TypeOK
<1>1. IInv => TypeOK
  BY DEF IInv
<1>. QED
  BY <1>1, Invariant, PTL

\* register() issues no token before the user is in the store.
THEOREM TokenAlwaysMeansStored == Spec => []TokenMeansStored
<1>1. IInv => TokenMeansStored
  BY DEF IInv
<1>. QED
  BY <1>1, Invariant, PTL

\* No overlap of registrations and synchronisations forgets a registered user.
THEOREM RegisteredAlwaysStaysKnown == Spec => []RegisteredStaysKnown
<1>1. IInv => RegisteredStaysKnown
  BY DEF IInv, NobodyForgotten, KnownOrComing, RegisteredStaysKnown
<1>. QED
  BY <1>1, Invariant, PTL

------------------------------------------------------------------------------
(* Part 2: the session on top of it, as SessionSpec.                       *)

(***************************************************************************)
(* The inductive invariant.  Of the answers that are half-read, the one    *)
(* that is not behind is the one the cookie came with.  Once somebody has  *)
(* signed out, what was not under way then holds no cookie to refresh      *)
(* with, and no answer, but that person's; that is what keeps it harmless. *)
(***************************************************************************)
Waiting ==
    [pc : {"idle", "unauthorised", "signout", "left"}]
      \cup [pc : {"call", "again"}, token : Tokens \cup {None}]
      \cup [pc : {"signin"}, name : Names]
      \cup [pc : {"refresh", "boot"}, cookie : Names \cup {None}]
      \cup [pc : {"granted", "body"}, name : Names,
            asker : {"refresh", "boot", "signin"}]
      \cup [pc : {"refused"}, asker : {"refresh", "boot"}]

SessionTypeOK ==
    /\ token \in Tokens \cup {None}
    /\ cookie \in Names \cup {None}
    /\ user \in Names \cup {None}
    /\ task \in [Tasks -> Waiting]
    /\ left \in BOOLEAN /\ late \in BOOLEAN
    /\ kept \in Names \cup {None}
    /\ under \subseteq Tasks
    /\ behind \subseteq Tasks /\ astray \in BOOLEAN

LatestBroughtCookie ==
    \A q \in Tasks \ behind : HalfRead(q) => cookie \in {None, task[q].name}

Harmless(t) ==
    /\ t.pc # "signin"
    /\ t.pc \in {"refresh", "boot"} => t.cookie \in {None, kept}
    /\ t.pc \in {"granted", "body"} => t.name = kept

OnlyOldAnswersBringOthers ==
    left /\ ~late => \A q \in Tasks \ under : Harmless(task[q])

SInv ==
    /\ SessionTypeOK
    /\ OneIdentity
    /\ NobodyElseComesBack
    /\ LatestBroughtCookie
    /\ OnlyOldAnswersBringOthers

\* Whatever the page and its requests do, the directory does what Directory says.
LEMMA StepIsDirectoryStep == SessionNext => [Next]_vars
<1>. SUFFICES ASSUME SessionNext PROVE [Next]_vars
  OBVIOUS
<1>1. CASE Next
  BY <1>1
<1>2. CASE Expire
  BY <1>2 DEF Expire
<1>3. ASSUME NEW q \in Tasks,
             \/ \E n \in Names : SignIn(q, n)
             \/ Call(q) \/ SignOut(q) \/ Reload(q) \/ Lost(q) \/ Refresh(q)
             \/ CookieArrives(q) \/ Granted(q) \/ Refused(q) \/ Left(q)
      PROVE  UNCHANGED vars
  BY <1>3 DEF SignIn, Call, SignOut, Reload, Lost, Refresh, CookieArrives, Granted,
              Refused, Left
<1>4. ASSUME NEW q \in Tasks, Serve(q)
      PROVE  [Next]_vars
  <2>1. \/ Lookup \/ UNCHANGED vars
        \/ \E r \in Registrations : Answer(r)
    BY <1>4 DEF Serve, ServeCall, ServeRefresh, ServeSignIn, ServeSignOut, LooksUp
  <2>. QED
    BY <2>1 DEF Next
<1>. QED
  BY <1>1, <1>2, <1>3, <1>4 DEF SessionNext

\* The session implements the directory it uses.
THEOREM ImplementsDirectory == SessionSpec => Spec
<1>1. SessionInit => Init
  BY DEF SessionInit
<1>2. [SessionNext]_sessionVars => [Next]_vars
  BY StepIsDirectoryStep DEF sessionVars
<1>. QED
  BY <1>1, <1>2, PTL DEF SessionSpec, Spec

\* The page starts with nobody, and with nothing under way.
LEMMA InitSInv == SessionInit => SInv
<1>. SUFFICES ASSUME SessionInit PROVE SInv
  OBVIOUS
<1>1. SessionTypeOK
  BY DEF SessionInit, SessionTypeOK, Waiting, NotWaiting
<1>2. OneIdentity /\ NobodyElseComesBack /\ OnlyOldAnswersBringOthers
  BY DEF SessionInit, OneIdentity, NobodyElseComesBack, OnlyOldAnswersBringOthers
<1>3. LatestBroughtCookie
  BY DEF SessionInit, LatestBroughtCookie
<1>. QED
  BY <1>1, <1>2, <1>3 DEF SInv

\* A step of one task from a state that is not half-read to another that is not leaves
\* the answers that are half-read, and with them whose the cookie is.
LEMMA OthersStayHalfRead ==
    ASSUME SInv, NEW q \in Tasks, ~HalfRead(q),
           NEW t \in Waiting, t.pc # "body", task' = [task EXCEPT ![q] = t],
           UNCHANGED <<cookie, astray>>, behind' \in {behind, behind \ {q}}
    PROVE  /\ LatestBroughtCookie'
           /\ UNCHANGED <<token, user>> => OneIdentity'
<1>1. /\ task'[q] = t /\ ~HalfRead(q)'
      /\ \A p \in Tasks \ {q} : task'[p] = task[p]
  BY DEF SInv, SessionTypeOK, HalfRead
<1>2. LatestBroughtCookie'
  BY <1>1 DEF SInv, LatestBroughtCookie, HalfRead
<1>3. ASSUME UNCHANGED <<token, user>>, user # None
      PROVE  /\ token # None /\ token.sub = user
             /\ ~astray /\ cookie \notin {None, user} =>
                  \E p \in Tasks \ behind' : HalfRead(p)' /\ task'[p].name = cookie
  <2>1. token # None /\ token.sub = user
    BY <1>3 DEF SInv, OneIdentity
  <2>2. ASSUME ~astray, cookie \notin {None, user}
        PROVE  \E p \in Tasks \ behind' : HalfRead(p)' /\ task'[p].name = cookie
    <3>1. PICK p \in Tasks \ behind : HalfRead(p) /\ task[p].name = cookie
      BY <1>3, <2>2 DEF SInv, OneIdentity
    <3>2. p \in Tasks \ {q} /\ p \notin behind'
      BY <3>1
    <3>. QED
      BY <1>1, <3>1, <3>2 DEF HalfRead
  <2>. QED
    BY <2>1, <2>2
<1>. QED
  BY <1>2, <1>3 DEF OneIdentity

\* Asking changes nothing but the task that asks.
LEMMA AskingKeepsSInv ==
    ASSUME SInv, NEW q \in Tasks,
           Call(q) \/ SignOut(q) \/ Refresh(q) \/ \E n \in Names : SignIn(q, n)
    PROVE  SInv'
<1>1. PICK asked \in Waiting :
         /\ task' = [task EXCEPT ![q] = asked]
         /\ asked.pc # "body"
         /\ (Call(q) \/ SignOut(q) \/ Refresh(q)) /\ left /\ ~late => Harmless(asked)
  <2>1. CASE Call(q)
    <3>1. [pc |-> "call", token |-> token] \in Waiting
      BY DEF SInv, SessionTypeOK, Waiting
    <3>. QED
      BY <2>1, <3>1 DEF Call, Waits, Harmless
  <2>2. CASE SignOut(q)
    <3>1. [pc |-> "signout"] \in Waiting
      BY DEF Waiting
    <3>. QED
      BY <2>2, <3>1 DEF SignOut, Waits, Harmless
  <2>3. CASE Refresh(q)
    <3>1. [pc |-> "refresh", cookie |-> cookie] \in Waiting
      BY DEF SInv, SessionTypeOK, Waiting
    <3>2. left /\ ~late => Harmless([pc |-> "refresh", cookie |-> cookie])
      BY DEF SInv, NobodyElseComesBack, Harmless
    <3>. QED
      BY <2>3, <3>1, <3>2 DEF Refresh, Waits
  <2>4. ASSUME NEW n \in Names, SignIn(q, n)
        PROVE  \E asked \in Waiting :
                  /\ task' = [task EXCEPT ![q] = asked]
                  /\ asked.pc # "body"
                  /\ ~(Call(q) \/ SignOut(q) \/ Refresh(q))
    <3>1. [pc |-> "signin", name |-> n] \in Waiting
      BY DEF Waiting
    <3>2. task'[q].pc = "signin"
      BY <2>4 DEF SInv, SessionTypeOK, SignIn, Waits
    <3>3. ~(Call(q) \/ SignOut(q) \/ Refresh(q))
      BY <3>2 DEF SInv, SessionTypeOK, Call, SignOut, Refresh, Waits
    <3>. QED
      BY <2>4, <3>1, <3>3 DEF SignIn, Waits
  <2>. QED
    BY <2>1, <2>2, <2>3, <2>4
<1>2. /\ UNCHANGED <<token, cookie, user, behind, astray>>
      /\ \/ UNCHANGED <<left, kept, under, late>>
         \/ left' = FALSE /\ kept' = None /\ under' = {} /\ late' = FALSE
  BY DEF Call, SignOut, Refresh, SignIn, session, identity, signOut, crossing
<1>3. ~HalfRead(q)
  <2>1. task[q] = NotWaiting \/ task[q].pc = "unauthorised"
    BY DEF Call, SignOut, Refresh, SignIn
  <2>2. NotWaiting.pc = "idle"
    BY DEF NotWaiting
  <2>. QED
    BY <2>1, <2>2 DEF HalfRead
<1>4. SessionTypeOK'
  BY <1>1, <1>2 DEF SInv, SessionTypeOK
<1>5. LatestBroughtCookie' /\ OneIdentity'
  BY <1>1, <1>2, <1>3, OthersStayHalfRead
<1>6. NobodyElseComesBack'
  BY <1>2 DEF SInv, NobodyElseComesBack
<1>7. OnlyOldAnswersBringOthers'
  <2>1. CASE \E n \in Names : SignIn(q, n)
    BY <2>1 DEF SignIn, OnlyOldAnswersBringOthers
  <2>2. CASE Call(q) \/ SignOut(q) \/ Refresh(q)
    <3>1. UNCHANGED <<left, kept, under, late>>
      BY <2>2 DEF Call, SignOut, Refresh, session, signOut
    <3>. QED
      BY <1>1, <2>2, <3>1 DEF SInv, SessionTypeOK, OnlyOldAnswersBringOthers, Harmless
  <2>. QED
    BY <2>1, <2>2
<1>. QED
  BY <1>4, <1>5, <1>6, <1>7 DEF SInv

\* A page that is loaded anew asks with the cookie there is.
LEMMA ReloadKeepsSInv ==
    ASSUME SInv, NEW q \in Tasks, Reload(q)
    PROVE  SInv'
<1>1. SessionTypeOK'
  BY DEF SInv, SessionTypeOK, Reload, Waiting, NotWaiting
<1>2. OneIdentity' /\ NobodyElseComesBack'
  BY DEF SInv, OneIdentity, NobodyElseComesBack, Reload
<1>3. \A p \in Tasks : \/ task'[p] = NotWaiting
                       \/ task'[p] = [pc |-> "boot", cookie |-> cookie]
  BY DEF Reload
<1>4. LatestBroughtCookie'
  BY <1>3 DEF LatestBroughtCookie, HalfRead, NotWaiting
<1>5. OnlyOldAnswersBringOthers'
  <2>1. left' = left /\ late' = late /\ kept' = kept
    BY DEF Reload
  <2>2. left /\ ~late => cookie \in {None, kept}
    BY DEF SInv, NobodyElseComesBack
  <2>. QED
    BY <1>3, <2>1, <2>2 DEF OnlyOldAnswersBringOthers, Harmless, NotWaiting
<1>. QED
  BY <1>1, <1>2, <1>4, <1>5 DEF SInv

\* The headers of an answer: its cookie is the latest, and every other answer that is
\* half-read is behind.
LEMMA CookieArrivesKeepsSInv ==
    ASSUME SInv, NEW q \in Tasks, CookieArrives(q)
    PROVE  SInv'
<1>. DEFINE n == task[q].name
            half == [task[q] EXCEPT !.pc = "body"]
<1>1. n \in Names /\ half \in Waiting /\ half.name = n /\ half.pc = "body"
  BY DEF SInv, SessionTypeOK, CookieArrives, Waiting
<1>. HIDE DEF n, half
<1>2. /\ task[q].pc = "granted"
      /\ cookie' = n
      /\ task' = [task EXCEPT ![q] = half]
      /\ late' = (late \/ q \in under)
      /\ behind' = {p \in Tasks \ {q} : HalfRead(p)}
      /\ UNCHANGED <<token, user, left, kept, under, astray>>
  BY DEF CookieArrives, Waits, n, half
<1>3. /\ task'[q] = half
      /\ \A p \in Tasks \ {q} : task'[p] = task[p]
  BY <1>2 DEF SInv, SessionTypeOK
<1>4. SessionTypeOK'
  BY <1>1, <1>2 DEF SInv, SessionTypeOK
<1>5. q \in Tasks \ behind' /\ HalfRead(q)' /\ task'[q].name = cookie'
  BY <1>1, <1>2, <1>3 DEF HalfRead
<1>6. OneIdentity'
  BY <1>2, <1>5 DEF SInv, OneIdentity
<1>7. LatestBroughtCookie'
  BY <1>2, <1>3, <1>5 DEF LatestBroughtCookie, HalfRead
<1>8. left' /\ ~late' => n = kept
  <2>1. left' /\ ~late' => Harmless(task[q])
    BY <1>2 DEF SInv, OnlyOldAnswersBringOthers
  <2>. QED
    BY <1>2, <2>1 DEF Harmless, n
<1>9. NobodyElseComesBack'
  BY <1>2, <1>8 DEF SInv, NobodyElseComesBack
<1>10. OnlyOldAnswersBringOthers'
  BY <1>1, <1>2, <1>3, <1>8 DEF SInv, OnlyOldAnswersBringOthers, Harmless
<1>. QED
  BY <1>4, <1>6, <1>7, <1>9, <1>10 DEF SInv

\* The body of an answer is for one person: the cookie's, unless it was behind; and of
\* somebody else than signed out only if it was asked for before.
LEMMA GrantedKeepsSInv ==
    ASSUME SInv, NEW q \in Tasks, Granted(q)
    PROVE  SInv'
<1>. DEFINE n == task[q].name
<1>1. HalfRead(q) /\ n \in Names
  BY DEF SInv, SessionTypeOK, Granted, HalfRead, Waiting
<1>2. /\ token' = TokenOf(n) /\ TokenOf(n) \in Tokens /\ TokenOf(n).sub = n
      /\ user' = n
  BY <1>1 DEF Granted, Applied, TokenOf, Tokens
<1>3. /\ late' = (late \/ q \in under) /\ under' = under \ {q}
      /\ behind' = behind \ {q} /\ astray' = (q \in behind)
      /\ UNCHANGED <<cookie, left, kept>>
  BY DEF Granted
<1>4. PICK next \in Waiting :
         task' = [task EXCEPT ![q] = next] /\ next.pc \in {"again", "idle"}
  <2>1. [pc |-> "again", token |-> token'] \in Waiting /\ NotWaiting \in Waiting
    BY <1>2 DEF Waiting, NotWaiting
  <2>2. NotWaiting.pc = "idle"
    BY DEF NotWaiting
  <2>. QED
    BY <2>1, <2>2 DEF Granted, Waits
<1>5. /\ task'[q].pc \in {"again", "idle"}
      /\ \A p \in Tasks \ {q} : task'[p] = task[p]
  BY <1>4 DEF SInv, SessionTypeOK
<1>6. SessionTypeOK'
  BY <1>1, <1>2, <1>3, <1>4 DEF SInv, SessionTypeOK
<1>7. ~astray' => cookie' \in {None, user'}
  BY <1>1, <1>2, <1>3 DEF SInv, LatestBroughtCookie
<1>8. OneIdentity'
  BY <1>1, <1>2, <1>7, SessionAssumption DEF OneIdentity
<1>9. LatestBroughtCookie'
  BY <1>3, <1>5 DEF SInv, LatestBroughtCookie, HalfRead
<1>10. left' /\ ~late' => n = kept
  BY <1>1, <1>3 DEF SInv, OnlyOldAnswersBringOthers, Harmless, HalfRead
<1>11. NobodyElseComesBack'
  BY <1>2, <1>3, <1>10 DEF SInv, NobodyElseComesBack
<1>12. OnlyOldAnswersBringOthers'
  BY <1>3, <1>5 DEF SInv, OnlyOldAnswersBringOthers, Harmless
<1>. QED
  BY <1>6, <1>8, <1>9, <1>11, <1>12 DEF SInv

\* A refusal takes away, and grants nothing.
LEMMA RefusedKeepsSInv ==
    ASSUME SInv, NEW q \in Tasks, Refused(q)
    PROVE  SInv'
<1>1. /\ \/ token' = None /\ user' = None
         \/ UNCHANGED <<token, user>>
      /\ task' = [task EXCEPT ![q] = NotWaiting]
      /\ under' = under \ {q}
      /\ UNCHANGED <<cookie, left, kept, late, behind, astray>>
  BY DEF Refused, Returns, Waits, crossing
<1>2. NotWaiting \in Waiting /\ NotWaiting.pc = "idle" /\ ~HalfRead(q)
  BY DEF Refused, Waiting, NotWaiting, HalfRead
<1>3. SessionTypeOK'
  BY <1>1, <1>2 DEF SInv, SessionTypeOK
<1>4. LatestBroughtCookie' /\ (UNCHANGED <<token, user>> => OneIdentity')
  BY <1>1, <1>2, OthersStayHalfRead
<1>5. OneIdentity'
  BY <1>1, <1>4 DEF OneIdentity
<1>6. NobodyElseComesBack'
  BY <1>1 DEF SInv, NobodyElseComesBack
<1>7. OnlyOldAnswersBringOthers'
  BY <1>1, <1>2 DEF SInv, SessionTypeOK, OnlyOldAnswersBringOthers, Harmless
<1>. QED
  BY <1>3, <1>4, <1>5, <1>6, <1>7 DEF SInv

\* An answer that is lost half-read leaves its cookie behind.
LEMMA LostKeepsSInv ==
    ASSUME SInv, NEW q \in Tasks, Lost(q)
    PROVE  SInv'
<1>1. /\ task' = [task EXCEPT ![q] = NotWaiting]
      /\ under' = under \ {q}
      /\ behind' = behind \ {q}
      /\ astray' = (astray \/ (HalfRead(q) /\ q \notin behind))
      /\ UNCHANGED <<token, cookie, user, left, kept, late>>
  BY DEF Lost, Returns, Waits, identity
<1>2. NotWaiting \in Waiting /\ NotWaiting.pc = "idle"
  BY DEF Waiting, NotWaiting
<1>3. /\ task'[q].pc = "idle"
      /\ \A p \in Tasks \ {q} : task'[p] = task[p]
  BY <1>1, <1>2 DEF SInv, SessionTypeOK
<1>4. SessionTypeOK'
  BY <1>1, <1>2 DEF SInv, SessionTypeOK
<1>5. LatestBroughtCookie'
  BY <1>1, <1>3 DEF SInv, LatestBroughtCookie, HalfRead
<1>6. OneIdentity'
  <2>1. ASSUME user # None, ~astray', cookie \notin {None, user}
        PROVE  \E p \in Tasks \ behind' : HalfRead(p)' /\ task'[p].name = cookie
    <3>1. ~astray
      BY <1>1, <2>1
    <3>2. PICK p \in Tasks \ behind : HalfRead(p) /\ task[p].name = cookie
      BY <2>1, <3>1 DEF SInv, OneIdentity
    <3>3. p \in Tasks \ {q}
      BY <1>1, <2>1, <3>2
    <3>. QED
      BY <1>1, <1>3, <3>2, <3>3 DEF HalfRead
  <2>2. user # None => token # None /\ token.sub = user
    BY DEF SInv, OneIdentity
  <2>. QED
    BY <1>1, <2>1, <2>2 DEF OneIdentity
<1>7. NobodyElseComesBack'
  BY <1>1 DEF SInv, NobodyElseComesBack
<1>8. OnlyOldAnswersBringOthers'
  BY <1>1, <1>3 DEF SInv, OnlyOldAnswersBringOthers, Harmless
<1>. QED
  BY <1>4, <1>5, <1>6, <1>7, <1>8 DEF SInv

\* A sign-out leaves the cookie, and what is not under way is at rest.
LEMMA LeftKeepsSInv ==
    ASSUME SInv, NEW q \in Tasks, Left(q)
    PROVE  SInv'
<1>1. /\ token' = None /\ user' = None /\ cookie' = cookie /\ kept' = cookie
      /\ task' = [task EXCEPT ![q] = NotWaiting]
      /\ under' = {p \in Tasks \ {q} : task[p] # NotWaiting}
      /\ left' = TRUE /\ late' = FALSE
      /\ UNCHANGED <<behind, astray>>
  BY DEF Left, Returns, Waits, Forgotten, crossing
<1>2. NotWaiting \in Waiting /\ NotWaiting.pc = "idle" /\ ~HalfRead(q)
  BY DEF Left, Waiting, NotWaiting, HalfRead
<1>3. SessionTypeOK'
  BY <1>1, <1>2 DEF SInv, SessionTypeOK
<1>4. OneIdentity' /\ NobodyElseComesBack'
  BY <1>1 DEF OneIdentity, NobodyElseComesBack
<1>5. LatestBroughtCookie'
  BY <1>1, <1>2, OthersStayHalfRead
<1>6. \A p \in Tasks \ under' : task'[p] = NotWaiting
  BY <1>1 DEF SInv, SessionTypeOK
<1>7. OnlyOldAnswersBringOthers'
  BY <1>2, <1>6 DEF OnlyOldAnswersBringOthers, Harmless
<1>. QED
  BY <1>3, <1>4, <1>5, <1>7 DEF SInv

\* Time passes over the token or the cookie.
LEMMA ExpireKeepsSInv ==
    ASSUME SInv, Expire
    PROVE  SInv'
<1>1. UNCHANGED <<user, task, left, kept, under, late, behind, astray>>
  BY DEF Expire, signOut, crossing
<1>2. CASE token # None /\ token' = [token EXCEPT !.expired = TRUE] /\ UNCHANGED cookie
  <2>1. token' \in Tokens /\ token'.sub = token.sub
    BY <1>2 DEF SInv, SessionTypeOK, Tokens
  <2>2. token' # None
    BY <2>1, SessionAssumption
  <2>3. SessionTypeOK' /\ OneIdentity' /\ NobodyElseComesBack'
    BY <1>1, <1>2, <2>1, <2>2
    DEF SInv, SessionTypeOK, OneIdentity, NobodyElseComesBack, HalfRead
  <2>4. LatestBroughtCookie' /\ OnlyOldAnswersBringOthers'
    BY <1>1, <1>2
    DEF SInv, LatestBroughtCookie, OnlyOldAnswersBringOthers, Harmless, HalfRead
  <2>. QED
    BY <2>3, <2>4 DEF SInv
<1>3. CASE cookie' = None /\ UNCHANGED token
  BY <1>1, <1>3
  DEF SInv, SessionTypeOK, OneIdentity, NobodyElseComesBack, LatestBroughtCookie,
      OnlyOldAnswersBringOthers, Harmless, HalfRead
<1>. QED
  BY <1>2, <1>3 DEF Expire

\* The server grants a refresh to whom the cookie names, if it knows the name.
LEMMA ServeKeepsSInv ==
    ASSUME SInv, Store \subseteq Names, NEW q \in Tasks, Serve(q)
    PROVE  SInv'
<1>1. /\ UNCHANGED <<token, cookie, user, left, kept, late, behind, astray>>
      /\ under' = IF task'[q] = NotWaiting THEN under \ {q} ELSE under
  BY DEF Serve, identity, crossing
<1>2. PICK answer \in Waiting :
         /\ task' = [task EXCEPT ![q] = answer]
         /\ answer.pc # "body"
         /\ Harmless(task[q]) => Harmless(answer)
  <2>1. CASE ServeCall(q)
    <3>1. /\ [pc |-> "unauthorised"] \in Waiting /\ NotWaiting \in Waiting
          /\ [pc |-> "call", token |-> token] \in Waiting
      BY DEF Waiting, NotWaiting, SInv, SessionTypeOK
    <3>2. /\ Harmless([pc |-> "unauthorised"]) /\ Harmless(NotWaiting)
          /\ Harmless([pc |-> "call", token |-> token])
          /\ NotWaiting.pc = "idle"
      BY DEF NotWaiting, Harmless
    <3>3. \/ task' = [task EXCEPT ![q] = NotWaiting]
          \/ task' = [task EXCEPT ![q] = [pc |-> "call", token |-> token]]
          \/ task' = [task EXCEPT ![q] = [pc |-> "unauthorised"]]
      BY <2>1 DEF ServeCall, Returns, Waits
    <3>. QED
      BY <3>1, <3>2, <3>3
  <2>2. CASE ServeRefresh(q)
    <3>. DEFINE n == task[q].cookie
                grant == [pc |-> "granted", name |-> n, asker |-> task[q].pc]
                refusal == [pc |-> "refused", asker |-> task[q].pc]
    <3>1. task[q].pc \in {"refresh", "boot"}
      BY <2>2 DEF ServeRefresh
    <3>2. CASE n \in Store
      <4>1. grant \in Waiting /\ grant.pc # "body"
        BY <3>1, <3>2 DEF Waiting
      <4>2. Harmless(task[q]) => Harmless(grant)
        BY <3>1, <3>2, SessionAssumption DEF Harmless
      <4>. QED
        BY <2>2, <3>2, <4>1, <4>2 DEF ServeRefresh, Waits
    <3>3. CASE n \notin Store
      <4>1. refusal \in Waiting /\ refusal.pc # "body" /\ Harmless(refusal)
        BY <3>1 DEF Waiting, Harmless
      <4>. QED
        BY <2>2, <3>3, <4>1 DEF ServeRefresh, Waits
    <3>. QED
      BY <3>2, <3>3
  <2>3. CASE ServeSignIn(q)
    <3>. DEFINE granted == [pc |-> "granted", name |-> task[q].name, asker |-> "signin"]
    <3>1. task[q].pc = "signin" /\ task[q].name \in Names
      BY <2>3 DEF ServeSignIn, SInv, SessionTypeOK, Waiting
    <3>2. /\ granted \in Waiting /\ NotWaiting \in Waiting
          /\ granted.pc # "body" /\ NotWaiting.pc # "body"
      BY <3>1 DEF Waiting, NotWaiting
    <3>3. ~Harmless(task[q])
      BY <3>1 DEF Harmless
    <3>. QED
      BY <2>3, <3>2, <3>3 DEF ServeSignIn, Returns, Waits
  <2>4. CASE ServeSignOut(q)
    <3>1. [pc |-> "left"] \in Waiting /\ Harmless([pc |-> "left"])
      BY DEF Waiting, Harmless
    <3>. QED
      BY <2>4, <3>1 DEF ServeSignOut, Waits
  <2>. QED
    BY <2>1, <2>2, <2>3, <2>4 DEF Serve
<1>3. ~HalfRead(q)
  BY DEF Serve, ServeCall, ServeRefresh, ServeSignIn, ServeSignOut, HalfRead
<1>4. SessionTypeOK'
  BY <1>1, <1>2 DEF SInv, SessionTypeOK
<1>5. LatestBroughtCookie' /\ OneIdentity'
  BY <1>1, <1>2, <1>3, OthersStayHalfRead
<1>6. NobodyElseComesBack'
  BY <1>1 DEF SInv, NobodyElseComesBack
<1>7. OnlyOldAnswersBringOthers'
  <2>1. Harmless(NotWaiting)
    BY DEF Harmless, NotWaiting
  <2>2. /\ task'[q] = answer
        /\ \A p \in Tasks \ {q} : task'[p] = task[p]
    BY <1>2 DEF SInv, SessionTypeOK
  <2>. QED
    BY <1>1, <1>2, <2>1, <2>2 DEF SInv, OnlyOldAnswersBringOthers, Harmless
<1>. QED
  BY <1>4, <1>5, <1>6, <1>7 DEF SInv

\* Every step of the page, the server and the directory keeps the invariant.
LEMMA StepKeepsSInv ==
    ASSUME SInv, Store \subseteq Names, [SessionNext]_sessionVars
    PROVE  SInv'
<1>1. CASE UNCHANGED <<session, task>>
  BY <1>1 DEF session, identity, signOut, crossing, SInv, SessionTypeOK, OneIdentity,
              NobodyElseComesBack, LatestBroughtCookie, OnlyOldAnswersBringOthers,
              Harmless, HalfRead
<1>2. CASE Expire
  BY <1>2, ExpireKeepsSInv
<1>3. ASSUME NEW q \in Tasks,
             Call(q) \/ SignOut(q) \/ Refresh(q) \/ \E n \in Names : SignIn(q, n)
      PROVE  SInv'
  BY <1>3, AskingKeepsSInv
<1>4. ASSUME NEW q \in Tasks, Reload(q)
      PROVE  SInv'
  BY <1>4, ReloadKeepsSInv
<1>5. ASSUME NEW q \in Tasks, CookieArrives(q)
      PROVE  SInv'
  BY <1>5, CookieArrivesKeepsSInv
<1>6. ASSUME NEW q \in Tasks, Granted(q)
      PROVE  SInv'
  BY <1>6, GrantedKeepsSInv
<1>7. ASSUME NEW q \in Tasks, Refused(q)
      PROVE  SInv'
  BY <1>7, RefusedKeepsSInv
<1>8. ASSUME NEW q \in Tasks, Lost(q)
      PROVE  SInv'
  BY <1>8, LostKeepsSInv
<1>9. ASSUME NEW q \in Tasks, Left(q)
      PROVE  SInv'
  BY <1>9, LeftKeepsSInv
<1>10. ASSUME NEW q \in Tasks, Serve(q)
       PROVE  SInv'
  BY <1>10, ServeKeepsSInv
<1>. QED
  BY <1>1, <1>2, <1>3, <1>4, <1>5, <1>6, <1>7, <1>8, <1>9, <1>10
  DEF SessionNext, sessionVars

\* The invariant always holds: the server knows names only, as the directory's own
\* invariant says.
LEMMA SessionInvariant == SessionSpec => []SInv
<1>1. IInv => Store \subseteq Names
  BY StoreKeeps DEF IInv
<1>2. SInv /\ IInv /\ [SessionNext]_sessionVars => SInv'
  BY <1>1, StepKeepsSInv
<1>. QED
  BY <1>2, InitSInv, ImplementsDirectory, Invariant, PTL DEF SessionSpec

(***************************************************************************)
(* What the session promises, always.                                      *)
(***************************************************************************)

\* Token and person shown are never two people's, and the cookie is another's only while
\* its answer is half-read, or after two answers crossed.
THEOREM AlwaysOneIdentity == SessionSpec => []OneIdentity
<1>1. SInv => OneIdentity
  BY DEF SInv
<1>. QED
  BY <1>1, SessionInvariant, PTL

\* After a sign-out nobody comes back whose cookie the browser did not hold then, but for
\* answers to what was under way.
THEOREM NobodyElseEverComesBack == SessionSpec => []NobodyElseComesBack
<1>1. SInv => NobodyElseComesBack
  BY DEF SInv
<1>. QED
  BY <1>1, SessionInvariant, PTL
=============================================================================
