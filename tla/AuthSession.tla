---------------------------- MODULE AuthSession ----------------------------
(***************************************************************************)
(* The login session of the desktop application (auth-service.ts): tokens  *)
(* and user are cached in memory and kept in the secure store, a timer and *)
(* any API call refresh the tokens, the user logs in and out, the process  *)
(* dies and restores the session from the store.                           *)
(*                                                                         *)
(* The service runs on one JavaScript thread.  Other handlers run only     *)
(* while it waits for the network; the store answers in the same turn, so  *)
(* a row of store calls is interrupted by nothing but a crash.  `thread`   *)
(* names such a row after its first write; while it is set no other        *)
(* handler runs.                                                           *)
(*                                                                         *)
(* A login is known by its number s.  A token record says of which login   *)
(* the access token (acc) and the refresh token (ref) are, a user record   *)
(* is the number of the login it came with.  0 is "null".                  *)
(***************************************************************************)
EXTENDS Integers, FiniteSets

CONSTANTS
    MaxLogins,   \* bound: logins attempted in a behaviour
    MaxTime,     \* bound: the clock stops there
    Buffer,      \* TOKEN_REFRESH_BUFFER_MS in ticks
    Lifetimes,   \* the lifetimes (expires_in, in ticks) the server grants
    Runs         \* refresh requests that can be in flight at once

ASSUME ConstantsAssumption ==
    /\ MaxLogins \in Nat \ {0}
    /\ MaxTime \in Nat
    /\ Buffer \in Nat
    /\ Lifetimes \subseteq Nat \ {0} /\ \E l \in Lifetimes : \A k \in Lifetimes : k <= l
    /\ IsFiniteSet(Runs) /\ Runs \subseteq Nat \ {0} /\ Runs # {}

VARIABLES
    now,             \* Date.now()
    storedTokens,    \* the secret oauth_tokens
    storedUser,      \* the secret oauth_user
    cachedTokens,
    cachedUser,
    pendingAuth,     \* the attempt whose callback is awaited
    refreshTimer,    \* the time it is due, 0: none
    refreshPromise,  \* the run whose promise is shared, 0: null
    run,             \* run[r]: where the r-th _doRefreshTokens is, and for which login
    exchanging,      \* attempts whose code is being exchanged
    logout,          \* where logout() is
    phase,           \* the life of the process
    asked,           \* the login whose user restoreSession() fetches
    thread,          \* the row of store calls the thread is in
    \* what the properties look back on
    attempts,        \* logins attempted
    session,         \* the last login, 0 when the user or the server ended it
    out,             \* a logout finished and no login since
    refused,         \* the store refused a write
    troubled,        \* a refresh failed, or granted less than Buffer
    crossed          \* a session changed under a request of another one

memory == <<cachedTokens, cachedUser, pendingAuth, refreshTimer, refreshPromise, run>>
store == <<storedTokens, storedUser>>
history == <<attempts, session, out, refused, troubled, crossed>>
vars == <<now, memory, store, exchanging, logout, phase, asked, thread, history>>

Logins == 1..MaxLogins
None == 0
NoTokens == [acc |-> None, ref |-> None, exp |-> 0]
Horizon == MaxTime + CHOOSE l \in Lifetimes : \A k \in Lifetimes : k <= l
Tokens == [acc : Logins, ref : Logins, exp : 0..Horizon] \cup {NoTokens}
IdleRun == [pc |-> "idle", s |-> None]
NoThread == [job |-> "none", tok |-> NoTokens, r |-> None]

TypeOK ==
    /\ now \in 0..MaxTime
    /\ storedTokens \in Tokens /\ cachedTokens \in Tokens
    /\ storedUser \in Logins \cup {None} /\ cachedUser \in Logins \cup {None}
    /\ pendingAuth \in Logins \cup {None}
    /\ refreshTimer \in 0..Horizon
    /\ refreshPromise \in Runs \cup {None}
    /\ run \in [Runs -> [pc : {"idle", "fetch", "me"}, s : Logins \cup {None}]]
    /\ exchanging \subseteq Logins
    /\ logout \in {"idle", "revoking"}
    /\ phase \in {"down", "restoreRefresh", "restoreUser", "up"}
    /\ asked \in Logins \cup {None}
    /\ thread \in [job : {"none", "login", "clear"}, tok : Tokens, r : Runs \cup {None}]
    /\ attempts \in 0..MaxLogins /\ session \in Logins \cup {None}
    /\ out \in BOOLEAN /\ refused \in BOOLEAN /\ troubled \in BOOLEAN /\ crossed \in BOOLEAN

Init ==
    /\ now = 0
    /\ storedTokens = NoTokens /\ storedUser = None
    /\ cachedTokens = NoTokens /\ cachedUser = None /\ pendingAuth = None
    /\ refreshTimer = 0 /\ refreshPromise = None /\ run = [r \in Runs |-> IdleRun]
    /\ exchanging = {} /\ logout = "idle" /\ phase = "down" /\ asked = None
    /\ thread = NoThread
    /\ attempts = 0 /\ session = None /\ out = FALSE
    /\ refused = FALSE /\ troubled = FALSE /\ crossed = FALSE

-----------------------------------------------------------------------------
(* Conditions *)

\* restoreSession() goes on in the turn in which its refresh settles.
Resuming == phase = "restoreRefresh" /\ refreshPromise = None
\* A handler may start: the process runs and its thread is free.
Free == phase # "down" /\ thread = NoThread /\ ~Resuming
\* The windows are served once the session was restored.
Serving == Free /\ phase = "up"
Refreshing == {r \in Runs : run[r].pc # "idle"}
DueNow(tokens) == tokens.exp - now - Buffer <= 0

(* Parts of the handlers *)

\* setSecret and deleteSecret answer {success: false} when the store refuses;
\* the service reads neither answer.
Write(v, new) ==
    \/ v' = new /\ UNCHANGED refused
    \/ refused' = TRUE /\ UNCHANGED v

RefreshTokens_NotShared(tokens, timer) ==
    LET idle == Runs \ Refreshing
        r == CHOOSE i \in idle : TRUE
    IN  IF tokens = NoTokens \/ idle = {}
        THEN [run |-> run, promise |-> refreshPromise, timer |-> timer]
        ELSE [run |-> [run EXCEPT ![r] = [pc |-> "fetch", s |-> tokens.ref]],
              promise |-> r, timer |-> timer]

\* refreshTokens(): join the refresh in flight, else start one with the cached tokens.
RefreshTokens(tokens, timer) ==
    LET idle == Runs \ Refreshing
        r == CHOOSE i \in idle : TRUE
    IN  IF refreshPromise # None \/ tokens = NoTokens \/ idle = {}
        THEN [run |-> run, promise |-> refreshPromise, timer |-> timer]
        ELSE [run |-> [run EXCEPT ![r] = [pc |-> "fetch", s |-> tokens.ref]],
              promise |-> r, timer |-> timer]

\* scheduleTokenRefresh(): the old timer goes; a new one, or a refresh at once.
Schedule(tokens) ==
    IF tokens = NoTokens THEN RefreshTokens(NoTokens, 0)
    ELSE IF DueNow(tokens) THEN RefreshTokens(tokens, 0)
    ELSE RefreshTokens(NoTokens, tokens.exp - Buffer)

Becomes(x) == run' = x.run /\ refreshPromise' = x.promise /\ refreshTimer' = x.timer

\* The finally of refreshTokens(): the promise of run r is shared no more.
Settle(r) == run' = [run EXCEPT ![r] = IdleRun] /\ refreshPromise' = None

\* clearAuth() up to its first deletion; ClearFinish is the rest.
ClearAuth(r) ==
    /\ refreshTimer' = 0
    /\ cachedUser' = None /\ cachedTokens' = NoTokens /\ pendingAuth' = None
    /\ Write(storedTokens, NoTokens)
    /\ thread' = [job |-> "clear", tok |-> NoTokens, r |-> r]
    /\ session' = None

\* The tokens of login s are stored: the first write of a login.
StoreLogin(s, lifetime) ==
    LET tokens == [acc |-> s, ref |-> s, exp |-> now + lifetime]
    IN  /\ Write(storedTokens, tokens)
        /\ thread' = [job |-> "login", tok |-> tokens, r |-> None]
        /\ out' = FALSE

-----------------------------------------------------------------------------
(* Login *)

\* initiateLogin(): an attempt is pending; an older one is forgotten.
InitiateLogin ==
    /\ Serving /\ attempts < MaxLogins
    /\ attempts' = attempts + 1 /\ pendingAuth' = attempts + 1
    /\ UNCHANGED <<now, cachedTokens, cachedUser, refreshTimer, refreshPromise, run, store,
                   exchanging, logout, phase, asked, thread, session, out, refused, troubled, crossed>>

\* handleCallback(): an error, a foreign state or no code ends the pending attempt.
CallbackRefused ==
    /\ Serving /\ pendingAuth # None
    /\ pendingAuth' = None
    /\ UNCHANGED <<now, cachedTokens, cachedUser, refreshTimer, refreshPromise, run, store,
                   exchanging, logout, phase, asked, thread, history>>

\* handleCallback(): the code is exchanged; the attempt stays pending meanwhile.
CallbackAccepted ==
    /\ Serving /\ pendingAuth # None
    /\ exchanging' = exchanging \cup {pendingAuth}
    /\ UNCHANGED <<now, memory, store, logout, phase, asked, thread, history>>

ExchangeFails(s) ==
    /\ Serving /\ s \in exchanging
    /\ exchanging' = exchanging \ {s}
    /\ UNCHANGED <<now, memory, store, logout, phase, asked, thread, history>>

\* The exchange answers: whichever attempt is pending by now is forgotten.
ExchangeDone(s) ==
    /\ Serving /\ s \in exchanging
    /\ exchanging' = exchanging \ {s}
    /\ pendingAuth' = None
    /\ \E l \in Lifetimes : StoreLogin(s, l)
    /\ UNCHANGED <<now, cachedTokens, cachedUser, refreshTimer, refreshPromise, run, storedUser,
                   logout, phase, asked, attempts, session, troubled, crossed>>

\* loginWithTokens(): the login form of the window had them already.
InlineLogin ==
    /\ Serving /\ attempts < MaxLogins
    /\ attempts' = attempts + 1
    /\ \E l \in Lifetimes : StoreLogin(attempts + 1, l)
    /\ UNCHANGED <<now, memory, storedUser, exchanging, logout, phase, asked, session, troubled,
                   crossed>>

LoginFinish_KeepsUser ==
    /\ thread.job = "login"
    /\ cachedTokens' = thread.tok
    /\ IF cachedUser = None THEN cachedUser' = thread.tok.acc ELSE UNCHANGED cachedUser
    /\ Write(storedUser, cachedUser')
    /\ Becomes(Schedule(thread.tok))
    /\ thread' = NoThread
    /\ session' = thread.tok.acc
    /\ crossed' = (crossed \/ Refreshing # {})
    /\ UNCHANGED <<now, storedTokens, pendingAuth, exchanging, logout, phase, asked, attempts, out,
                   troubled>>

\* The rest of a login: the user is stored, both are cached, a refresh is scheduled.
LoginFinish ==
    /\ thread.job = "login"
    /\ Write(storedUser, thread.tok.acc)
    /\ cachedTokens' = thread.tok /\ cachedUser' = thread.tok.acc
    /\ Becomes(Schedule(thread.tok))
    /\ thread' = NoThread
    /\ session' = thread.tok.acc
    /\ crossed' = (crossed \/ Refreshing # {})
    /\ UNCHANGED <<now, storedTokens, pendingAuth, exchanging, logout, phase, asked, attempts, out,
                   troubled>>

-----------------------------------------------------------------------------
(* Logout *)

\* logout() asks the server to revoke the tokens and waits.
LogoutStart ==
    /\ Serving /\ logout = "idle" /\ cachedTokens # NoTokens
    /\ logout' = "revoking"
    /\ UNCHANGED <<now, memory, store, exchanging, phase, asked, thread, history>>

\* It clears everything whether the server answered or not, at once without tokens.
LogoutClear ==
    /\ Serving /\ (logout = "revoking" \/ cachedTokens = NoTokens)
    /\ logout' = "idle"
    /\ ClearAuth(None)
    /\ crossed' = (crossed \/ Refreshing # {})
    /\ UNCHANGED <<now, storedUser, refreshPromise, run, exchanging, phase, asked, attempts, out,
                   troubled>>

\* The rest of clearAuth(); the rejected refresh or the logout then returns.
ClearFinish ==
    /\ thread.job = "clear"
    /\ Write(storedUser, None)
    /\ thread' = NoThread
    /\ IF thread.r # None THEN Settle(thread.r) /\ UNCHANGED out
       ELSE out' = TRUE /\ UNCHANGED <<run, refreshPromise>>
    /\ UNCHANGED <<now, cachedTokens, cachedUser, pendingAuth, refreshTimer, storedTokens,
                   exchanging, logout, phase, asked, attempts, session, troubled, crossed>>

-----------------------------------------------------------------------------
(* Refresh *)

\* An API call that met 401, an expired token, or a window asks for a refresh.
RequestRefresh ==
    /\ Serving /\ cachedTokens # NoTokens
    /\ Becomes(RefreshTokens(cachedTokens, refreshTimer))
    /\ UNCHANGED <<now, cachedTokens, cachedUser, pendingAuth, store, exchanging, logout, phase,
                   asked, thread, history>>

TimerFires ==
    /\ Free /\ refreshTimer # 0 /\ now >= refreshTimer
    /\ Becomes(RefreshTokens(cachedTokens, 0))
    /\ UNCHANGED <<now, cachedTokens, cachedUser, pendingAuth, store, exchanging, logout, phase,
                   asked, thread, history>>

RefreshFails_EndsSession(r) ==
    /\ Free /\ run[r].pc = "fetch"
    /\ Settle(r)
    /\ cachedTokens' = NoTokens /\ cachedUser' = None /\ refreshTimer' = 0
    /\ storedTokens' = NoTokens /\ storedUser' = None
    /\ troubled' = TRUE
    /\ UNCHANGED <<now, pendingAuth, exchanging, logout, phase, asked, thread, attempts, session,
                   out, refused, crossed>>

\* No network, a 5xx, or no refresh token to keep: the session stays as it is.
RefreshFails(r) ==
    /\ Free /\ run[r].pc = "fetch"
    /\ Settle(r)
    /\ troubled' = TRUE
    /\ UNCHANGED <<now, cachedTokens, cachedUser, pendingAuth, refreshTimer, store, exchanging,
                   logout, phase, asked, thread, attempts, session, out, refused, crossed>>

\* A 4xx, or success = false: whoever is logged in by now is logged out.
RefreshRejected(r) ==
    /\ Free /\ run[r].pc = "fetch"
    /\ ClearAuth(r)
    /\ UNCHANGED <<now, storedUser, refreshPromise, run, exchanging, logout, phase, asked, attempts,
                   out, troubled, crossed>>

\* New tokens; the server may keep the refresh token, then the cached one is reused.
RefreshGranted(r) ==
    /\ Free /\ run[r].pc = "fetch"
    /\ \E l \in Lifetimes, ref \in {run[r].s, cachedTokens.ref} \ {None} :
          LET tokens == [acc |-> run[r].s, ref |-> ref, exp |-> now + l]
          IN  Write(storedTokens, tokens) /\ cachedTokens' = tokens
    /\ run' = [run EXCEPT ![r].pc = "me"]
    /\ UNCHANGED <<now, cachedUser, pendingAuth, refreshTimer, refreshPromise, storedUser,
                   exchanging, logout, phase, asked, thread, attempts, session, out, troubled,
                   crossed>>

MeAnswered_PlansOnChange(r) ==
    /\ Free /\ run[r].pc = "me"
    /\ \/ UNCHANGED <<cachedUser, storedUser, refused, refreshTimer>>
       \/ /\ cachedUser # None /\ cachedUser' = run[r].s /\ Write(storedUser, run[r].s)
          /\ refreshTimer' = Schedule(cachedTokens).timer
    /\ Settle(r)
    /\ troubled' = (troubled \/ DueNow(cachedTokens))
    /\ UNCHANGED <<now, cachedTokens, pendingAuth, storedTokens, exchanging, logout, phase, asked,
                   thread, attempts, session, out, crossed>>

\* syncUserInfoOnRefresh() and the end of the refresh.  Its own promise is still
\* shared when it schedules the next one, so a refresh due at once only joins it.
MeAnswered(r) ==
    /\ Free /\ run[r].pc = "me"
    /\ \/ UNCHANGED <<cachedUser, storedUser, refused>>
       \/ cachedUser # None /\ cachedUser' = run[r].s /\ Write(storedUser, run[r].s)
    /\ refreshTimer' = Schedule(cachedTokens).timer
    /\ Settle(r)
    /\ troubled' = (troubled \/ DueNow(cachedTokens))
    /\ UNCHANGED <<now, cachedTokens, pendingAuth, storedTokens, exchanging, logout, phase, asked,
                   thread, attempts, session, out, crossed>>

-----------------------------------------------------------------------------
(* The process *)

\* restoreSession() after the tokens: the stored user, else it is asked of the server.
LoadUser(tokens) ==
    /\ cachedTokens' = tokens
    /\ cachedUser' = storedUser
    /\ IF storedUser = None /\ tokens # NoTokens
       THEN phase' = "restoreUser" /\ asked' = tokens.acc
            /\ UNCHANGED <<refreshTimer, refreshPromise, run>>
       ELSE phase' = "up" /\ asked' = None /\ Becomes(Schedule(tokens))

\* The process starts: expired tokens are refreshed before the user is loaded.
Restart ==
    /\ phase = "down"
    /\ IF storedTokens = NoTokens
       THEN phase' = "up" /\ UNCHANGED <<memory, asked>>
       ELSE IF storedTokens.exp < now
       THEN /\ cachedTokens' = storedTokens /\ phase' = "restoreRefresh"
            /\ Becomes(RefreshTokens(storedTokens, 0))
            /\ UNCHANGED <<cachedUser, pendingAuth, asked>>
       ELSE LoadUser(storedTokens) /\ UNCHANGED pendingAuth
    /\ UNCHANGED <<now, store, exchanging, logout, thread, history>>

\* The refresh settled.  Only a rejection, which cleared the tokens, ends the restore.
RestoreResume ==
    /\ Resuming /\ thread = NoThread
    /\ IF cachedTokens = NoTokens
       THEN phase' = "up" /\ UNCHANGED <<memory, asked>>
       ELSE LoadUser(cachedTokens) /\ UNCHANGED pendingAuth
    /\ UNCHANGED <<now, store, exchanging, logout, thread, history>>

RestoreUserAnswered ==
    /\ Free /\ phase = "restoreUser"
    /\ \/ UNCHANGED <<cachedUser, storedUser, refused>>
       \/ cachedUser' = asked /\ Write(storedUser, asked)
    /\ Becomes(Schedule(cachedTokens))
    /\ phase' = "up" /\ asked' = None
    /\ UNCHANGED <<now, cachedTokens, pendingAuth, storedTokens, exchanging, logout, thread,
                   attempts, session, out, troubled, crossed>>

Tick ==
    /\ now < MaxTime /\ thread = NoThread
    /\ now' = now + 1
    /\ UNCHANGED <<memory, store, exchanging, logout, phase, asked, thread, history>>

\* The process ends, orderly or not, also between two writes of one row.
Crash ==
    /\ phase # "down"
    /\ phase' = "down" /\ asked' = None /\ thread' = NoThread
    /\ cachedTokens' = NoTokens /\ cachedUser' = None /\ pendingAuth' = None
    /\ refreshTimer' = 0 /\ refreshPromise' = None /\ run' = [r \in Runs |-> IdleRun]
    /\ exchanging' = {} /\ logout' = "idle"
    /\ crossed' = (crossed \/ thread # NoThread)
    /\ UNCHANGED <<now, store, attempts, session, out, refused, troubled>>

-----------------------------------------------------------------------------
RefreshAnswered(r) == RefreshFails(r) \/ RefreshRejected(r) \/ RefreshGranted(r)

Next ==
    \/ InitiateLogin \/ CallbackRefused \/ CallbackAccepted \/ InlineLogin
    \/ \E s \in Logins : ExchangeFails(s) \/ ExchangeDone(s)
    \/ LogoutStart \/ LogoutClear
    \/ RequestRefresh \/ TimerFires \/ (\E r \in Runs : RefreshAnswered(r) \/ MeAnswered(r))
    \/ Restart \/ RestoreUserAnswered \/ RestoreResume \/ LoginFinish \/ ClearFinish
    \/ Tick \/ Crash

Spec == Init /\ [][Next]_vars

-----------------------------------------------------------------------------
(* Properties *)

AtRest == phase = "up" /\ thread = NoThread

\* No two refreshes are in flight, and the one that is, is the one every other
\* caller joins: a refresh token is not presented twice at a time.
OneRefresh == Refreshing = {refreshPromise} \ {None}

\* A login that neither the user nor the server ended is still there after any
\* number of failed refreshes and restarts: tokens and user are cached.  After a
\* logout, and until the next login, there are no tokens to restore and no refresh
\* planned, provided no refresh was in flight when it finished.
SessionIsWanted ==
    AtRest /\ ~refused =>
        /\ session # None => cachedTokens # NoTokens /\ cachedUser # None
        /\ out /\ ~crossed =>
             storedTokens = NoTokens /\ cachedTokens = NoTokens /\ refreshTimer = 0

\* What the next start would restore is what the running process works with, and
\* tokens and user are of one login, provided no login or logout finished while a
\* refresh was in flight and no crash split a row of writes.
Consistent ==
    /\ TypeOK
    /\ AtRest /\ ~refused =>
         /\ cachedTokens = storedTokens
         /\ cachedTokens # NoTokens => cachedUser = storedUser
         /\ ~crossed /\ cachedUser # None /\ cachedTokens # NoTokens =>
              cachedTokens.acc = cachedUser /\ cachedTokens.ref = cachedUser

\* While a login lasts its next refresh is planned or in flight, as long as none
\* failed and none was due again before it ended.
RefreshPlanned ==
    AtRest /\ session # None /\ ~troubled /\ ~refused => refreshTimer # 0 \/ Refreshing # {}
=============================================================================
