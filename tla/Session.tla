------------------------------- MODULE Session -------------------------------
(***************************************************************************)
(* The session of the browser (AuthProvider, src/apps/web/src/auth.tsx)    *)
(* against the user directory (the handlers of                             *)
(* src/apps/api/routers/auth.py and current_user() of                      *)
(* src/apps/api/security.py): signing in, the refresh that a request whose *)
(* token has expired makes before it is tried again, and signing out.      *)
(*                                                                         *)
(* The page is one thread, but any number of its functions may be waiting  *)
(* for an answer.  The server decides at one moment; the headers of its    *)
(* answer arrive at another, and with them the cookie, which the browser   *)
(* stores; and the body at a third, when the page takes the token from it. *)
(* Between any two of them others come first, or the network fails.  A     *)
(* token is whose it is and whether it has expired.  One tab has the       *)
(* cookie to itself.  activeToken, which only the live feed reads, is left *)
(* out.                                                                    *)
(***************************************************************************)
EXTENDS Directory

CONSTANTS
    Tasks,          \* the functions of the page that may be waiting
    None            \* no token, no cookie, nobody

Tokens == [sub : Names, expired : BOOLEAN]

ASSUME SessionAssumption == None \notin Names \cup Tokens \cup Tasks

VARIABLES
    token,      \* token.current, or None
    cookie,     \* whose refresh token the browser holds, or None
    user,       \* whom the page shows as signed in, or None
    task,       \* task[q]: what q waits for
    busy,       \* the sign-in that the form on the login page waits for, or None
    left,       \* history: somebody signed out, and nobody has signed in since
    kept,       \* history: whose cookie the browser held then
    under,      \* history: what was under way then
    late,       \* history: one of those brought a cookie or a token afterwards
    behind,     \* history: the answers whose cookie another has replaced, with the body
                \* still to come
    astray      \* history: the last cookie to come and the last body were not of one
                \* answer

identity == <<token, cookie, user>>
signOut  == <<left, kept, under, late>>
crossing == <<behind, astray>>
session == <<identity, signOut, crossing>>
sessionVars == <<vars, session, task, busy>>

NotWaiting == [pc |-> "idle"]
TokenOf(n) == [sub |-> n, expired |-> FALSE]

\* The refresh that the page starts with has not come to its end.
Booting(t) ==
    \/ t.pc = "boot"
    \/ t.pc \in {"granted", "body", "refused"} /\ t.asker = "boot"

SessionInit ==
    /\ Init
    /\ token = None /\ cookie = None /\ user = None
    /\ task = [q \in Tasks |-> NotWaiting]
    /\ busy = None
    /\ left = FALSE /\ kept = None /\ under = {} /\ late = FALSE
    /\ behind = {} /\ astray = FALSE

-----------------------------------------------------------------------------
(* The page.                                                               *)

Waits(q, what) == task' = [task EXCEPT ![q] = what]
Returns(q) == Waits(q, NotWaiting)

\* authFetch(), on a page that shows somebody: the request, with the token there is.
Call(q) ==
    /\ user # None
    /\ task[q] = NotWaiting
    /\ Waits(q, [pc |-> "call", token |-> token])
    /\ UNCHANGED <<vars, session>>

\* The login page is there once the boot is over and while nobody is signed in.  It
\* disables its form for one sign-in at a time, and forgets it when it goes.
LoginPage == user = None /\ busy = None /\ \A p \in Tasks : ~Booting(task[p])

\* login() or register()
SignIn(q, n) ==
    /\ LoginPage
    /\ task[q] = NotWaiting
    /\ Waits(q, [pc |-> "signin", name |-> n])
    /\ busy' = q
    /\ left' = FALSE /\ kept' = None /\ under' = {} /\ late' = FALSE
    /\ UNCHANGED <<vars, identity, crossing>>

\* logout(), from the header of a page that shows somebody.
SignOut(q) ==
    /\ user # None
    /\ task[q] = NotWaiting
    /\ Waits(q, [pc |-> "signout"])
    /\ UNCHANGED <<vars, session>>

\* The page is loaded anew: nothing is left but the cookie, and it is tried.
Reload(q) ==
    /\ token' = None /\ user' = None
    /\ task' = [p \in Tasks |-> IF p = q THEN [pc |-> "boot", cookie |-> cookie]
                                         ELSE NotWaiting]
    /\ under' = {}
    /\ behind' = {} /\ astray' = FALSE
    /\ UNCHANGED <<vars, cookie, left, kept, late>>

\* 401: the request is held, and a refresh sent with the cookie there is.
Refresh(q) ==
    /\ task[q].pc = "unauthorised"
    /\ Waits(q, [pc |-> "refresh", cookie |-> cookie])
    /\ UNCHANGED <<vars, session>>

HalfRead(q) == task[q].pc = "body"

\* fetch() resolves with the headers of an answer that grants a token: the browser has
\* stored its cookie, and the body is awaited.
CookieArrives(q) ==
    /\ task[q].pc = "granted"
    /\ cookie' = task[q].name
    /\ Waits(q, [task[q] EXCEPT !.pc = "body"])
    /\ late' = (late \/ q \in under)
    /\ behind' = {p \in Tasks \ {q} : HalfRead(p)}
    /\ UNCHANGED <<vars, token, user, left, kept, under, astray>>

\* Mutant of Applied: the page goes on showing whom it shows.
AppliedToken(n) ==
    /\ token' = TokenOf(n)
    /\ user' = IF user = None THEN n ELSE user

\* apply()
Applied(n) == token' = TokenOf(n) /\ user' = n

\* The body is there, and is applied; a request that was held is sent again, with its
\* token.
Granted(q) ==
    /\ HalfRead(q)
    /\ Applied(task[q].name)
    /\ Waits(q, IF task[q].asker = "refresh" THEN [pc |-> "again", token |-> token']
                                             ELSE NotWaiting)
    /\ late' = (late \/ q \in under)
    /\ under' = under \ {q}
    /\ behind' = behind \ {q} /\ astray' = (q \in behind)
    /\ UNCHANGED <<vars, cookie, left, kept>>

\* The refresh was refused: signed out, unless the page was only looking.
Refused(q) ==
    /\ task[q].pc = "refused"
    /\ Returns(q)
    /\ IF task[q].asker = "refresh" THEN token' = None /\ user' = None
                                    ELSE UNCHANGED <<token, user>>
    /\ under' = under \ {q}
    /\ UNCHANGED <<vars, cookie, left, kept, late, crossing>>

\* Mutant of Forgotten: the page forgets whom it shows, and not the token.
ForgottenUser == user' = None /\ UNCHANGED <<token, cookie>>

\* What a sign-out takes away.  Not the cookie: the page cannot touch it, and the
\* server's answer says nothing of it.
Forgotten == token' = None /\ user' = None /\ UNCHANGED cookie

\* The sign-out is answered, or the network fails, which it ignores.
Left(q) ==
    /\ task[q].pc \in {"signout", "left"}
    /\ Returns(q)
    /\ Forgotten
    /\ left' = TRUE /\ kept' = cookie
    /\ under' = {p \in Tasks \ {q} : task[p] # NotWaiting}
    /\ late' = FALSE
    /\ UNCHANGED <<vars, crossing>>

\* The network fails any other request, before or after the server acted, and before or
\* after the headers of its answer arrived.
Lost(q) ==
    /\ task[q].pc \notin {"idle", "signout", "left"}
    /\ Returns(q)
    /\ under' = under \ {q}
    /\ behind' = behind \ {q}
    /\ astray' = (astray \/ (HalfRead(q) /\ q \notin behind))
    /\ UNCHANGED <<vars, identity, left, kept, late>>

\* JWT_ACCESS_TTL_MINUTES, or the cookie's seven days, have passed.
Expire ==
    /\ \/ /\ token # None
          /\ token' = [token EXCEPT !.expired = TRUE]
          /\ UNCHANGED cookie
       \/ cookie' = None /\ UNCHANGED token
    /\ UNCHANGED <<vars, user, task, signOut, crossing>>

-----------------------------------------------------------------------------
(* The server.                                                             *)

\* current_user(): the token must be valid, and its subject known.
Recognised(t) == t # None /\ ~t.expired /\ t.sub \in Store

\* user_store() is asked only when the token itself is good.
LooksUp(t) == IF t # None /\ ~t.expired THEN Lookup ELSE UNCHANGED vars

\* A request is answered, and its caller may make another, whoever is signed in by then;
\* a 401 to the second try is the caller's business.
ServeCall(q) ==
    \/ /\ task[q].pc = "call"
       /\ LooksUp(task[q].token)
       /\ IF Recognised(task[q].token)
          THEN Returns(q) \/ Waits(q, [pc |-> "call", token |-> token])
          ELSE Waits(q, [pc |-> "unauthorised"])
    \/ /\ task[q].pc = "again"
       /\ LooksUp(task[q].token)
       /\ Returns(q)

\* POST /api/v1/auth/refresh
ServeRefresh(q) ==
    LET n == task[q].cookie
    IN  /\ task[q].pc \in {"refresh", "boot"}
        /\ IF n # None THEN Lookup ELSE UNCHANGED vars
        /\ Waits(q, IF n \in Store
                    THEN [pc |-> "granted", name |-> n, asker |-> task[q].pc]
                    ELSE [pc |-> "refused", asker |-> task[q].pc])

\* POST /api/v1/auth/login with a right or a wrong password, or the end of a
\* registration under this name.
ServeSignIn(q) ==
    LET granted == [pc |-> "granted", name |-> task[q].name, asker |-> "signin"]
    IN  /\ task[q].pc = "signin"
        /\ \/ Lookup /\ task[q].name \in Store /\ Waits(q, granted)
           \/ Lookup /\ Returns(q)
           \/ \E r \in Registrations :
                /\ Answer(r) /\ registration[r].name = task[q].name
                /\ Waits(q, granted)

\* POST /api/v1/auth/logout: the cookie is deleted on the response that FastAPI injects,
\* but the handler returns one of its own, and the answer has no Set-Cookie.
ServeSignOut(q) ==
    /\ task[q].pc = "signout"
    /\ Waits(q, [pc |-> "left"])
    /\ UNCHANGED vars

Serve(q) ==
    /\ ServeCall(q) \/ ServeRefresh(q) \/ ServeSignIn(q) \/ ServeSignOut(q)
    /\ UNCHANGED <<identity, left, kept, late, crossing>>
    /\ under' = IF task'[q] = NotWaiting THEN under \ {q} ELSE under

\* The form of the login page is enabled again when its sign-in comes to an end, and when
\* the page is not there any more.
FormFollows ==
    busy' = IF busy # None /\ user' = None /\ task'[busy] # NotWaiting THEN busy ELSE None

SessionNext ==
    \/ \E q \in Tasks, n \in Names : SignIn(q, n)
    \/ /\ \/ Next /\ UNCHANGED <<session, task>>
          \/ Expire
          \/ \E q \in Tasks :
               \/ Call(q) \/ SignOut(q) \/ Reload(q) \/ Lost(q) \/ Refresh(q)
               \/ CookieArrives(q) \/ Granted(q) \/ Refused(q) \/ Left(q)
               \/ Serve(q)
       /\ FormFollows

SessionSpec == SessionInit /\ [][SessionNext]_sessionVars

-----------------------------------------------------------------------------
(* What the session promises.                                              *)

\* Whoever the page shows is who its requests are made for, and whom its next refresh
\* would be for.  Page and cookie are two people's only until the body of the answer that
\* brought the cookie has come, or after that answer was cut off there or overtook the
\* body of another one.
OneIdentity ==
    user # None =>
        /\ token # None /\ token.sub = user
        /\ ~astray /\ cookie \notin {None, user} =>
             \E q \in Tasks \ behind : HalfRead(q) /\ task[q].name = cookie

\* After a sign-out nobody else comes back than whose cookie the browser holds: whatever
\* is requested then, however often the page is loaded anew, until somebody signs in.
\* Only an answer to what was under way at the sign-out brings another.  The one who
\* signed out does come back: the deletion of the cookie (auth.py:116) is never sent.
NobodyElseComesBack ==
    left /\ ~late =>
        /\ {user, cookie} \subseteq {None, kept}
        /\ token # None => token.sub = kept
=============================================================================
