------------------------- MODULE AuthSession_proofs -------------------------
(***************************************************************************)
(* The login session, for any number of logins, any lifetimes the server   *)
(* grants and any buffer: one refresh at a time, a session that only its   *)
(* user or the server ends, memory and store that agree, and a refresh     *)
(* that is planned while the session lasts.                                *)
(***************************************************************************)
EXTENDS AuthSession, TLAPS

\* Where the thread is in a row of store calls, and what it has done so far.
LoginThread ==
    thread.job = "login" =>
        /\ phase = "up" /\ ~out
        /\ thread.tok # NoTokens /\ thread.tok.acc = thread.tok.ref /\ thread.r = None
        /\ ~refused => storedTokens = thread.tok
ClearThread ==
    thread.job = "clear" =>
        /\ phase # "down"
        /\ cachedTokens = NoTokens /\ cachedUser = None /\ refreshTimer = 0 /\ session = None
        /\ ~refused => storedTokens = NoTokens
        /\ thread.r # None => run[thread.r].pc = "fetch"
        /\ thread.r = None /\ ~crossed => Refreshing = {}
Threads ==
    /\ thread.job = "none" => thread = NoThread
    /\ LoginThread /\ ClearThread

\* A process that is down has no memory.
DownIsEmpty ==
    phase = "down" =>
        /\ cachedTokens = NoTokens /\ cachedUser = None /\ refreshTimer = 0
        /\ refreshPromise = None /\ Refreshing = {} /\ thread = NoThread

\* A request in flight is about a login.
RunsHaveLogins == \A r \in Refreshing : run[r].s # None

\* A session that nobody ended can be restored, and is in memory.
SessionIsKept ==
    ~refused /\ session # None =>
        /\ storedTokens # NoTokens /\ storedUser # None
        /\ phase # "down" => cachedTokens # NoTokens
        /\ phase = "up" => cachedUser # None
        /\ phase # "restoreUser"

\* After a logout that met no refresh there is nothing left.
NothingLeft ==
    out /\ ~refused /\ ~crossed =>
        /\ storedTokens = NoTokens /\ cachedTokens = NoTokens
        /\ refreshTimer = 0 /\ Refreshing = {}

\* Tokens t and user u are of one login.
OneLogin(t, u) == t # NoTokens => t.acc = t.ref /\ (u # None => u = t.acc)

\* Memory is what the store has, but for a login that has stored its tokens only.
\* An answer to a request may bring tokens back, so the user agrees during one too.
MemoryIsStored ==
    phase # "down" /\ thread.job # "login" /\ ~refused =>
        /\ cachedTokens = storedTokens
        /\ phase # "restoreRefresh" /\ thread.job = "none"
              /\ (cachedTokens # NoTokens \/ Refreshing # {}) => cachedUser = storedUser
StoredIsOne ==
    thread.job # "login" /\ ~refused /\ ~crossed => OneLogin(storedTokens, storedUser)
UserComesLast == phase = "restoreRefresh" => cachedUser = None

\* What a request in flight was sent with is still the login in memory.
RunIsCurrent ==
    ~crossed /\ thread.job # "clear" =>
        \A r \in Refreshing : cachedTokens # NoTokens /\ run[r].s = cachedTokens.ref
AskedIsCurrent ==
    phase = "restoreUser" /\ ~refused /\ ~crossed /\ cachedTokens # NoTokens =>
        asked = cachedTokens.acc

NextIsPlanned ==
    phase = "up" /\ session # None /\ ~troubled /\ ~refused => refreshTimer # 0 \/ Refreshing # {}

Inv ==
    /\ TypeOK /\ Threads /\ DownIsEmpty /\ RunsHaveLogins /\ OneRefresh
    /\ SessionIsKept /\ NothingLeft /\ MemoryIsStored /\ StoredIsOne /\ UserComesLast
    /\ RunIsCurrent /\ AskedIsCurrent /\ NextIsPlanned

-----------------------------------------------------------------------------
(* Tokens and times *)

LEMMA HorizonBounds ==
    ASSUME NEW n \in 0..MaxTime, NEW l \in Lifetimes
    PROVE  Horizon \in Nat /\ n + l \in 0..Horizon
<1> DEFINE m == CHOOSE k \in Lifetimes : \A j \in Lifetimes : j <= k
<1>1. m \in Lifetimes /\ l <= m
  BY ConstantsAssumption
<1>2. m \in Nat /\ l \in Nat /\ MaxTime \in Nat /\ Horizon = MaxTime + m
  BY <1>1, ConstantsAssumption DEF Horizon
<1> HIDE DEF m
<1> QED
  BY <1>1, <1>2

LEMMA HorizonNat == Horizon \in Nat
<1>1. \E l \in Lifetimes : TRUE
  BY ConstantsAssumption
<1>2. 0 \in 0..MaxTime
  BY ConstantsAssumption
<1> QED
  BY <1>1, <1>2, HorizonBounds

LEMMA TokenFields ==
    /\ NoTokens \in Tokens
    /\ \A t \in Tokens : t # NoTokens => t.acc \in Logins /\ t.ref \in Logins /\ t.exp \in 0..Horizon
    /\ \A a, b \in Logins, e \in 0..Horizon :
          LET t == [acc |-> a, ref |-> b, exp |-> e]
          IN  t \in Tokens /\ t # NoTokens /\ t.acc = a /\ t.ref = b
    /\ NoTokens.ref = None
    /\ None \notin Logins
    /\ None \notin Runs
BY ConstantsAssumption DEF Tokens, NoTokens, None, Logins

-----------------------------------------------------------------------------
(* Requests in flight *)

Starts(tokens) ==
    /\ tokens # NoTokens /\ refreshPromise = None
    /\ \E r \in Runs : /\ refreshPromise' = r
                       /\ run' = [run EXCEPT ![r] = [pc |-> "fetch", s |-> tokens.ref]]
RunKept == run' = run /\ refreshPromise' = refreshPromise

LEMMA RefreshTokensStep ==
    ASSUME TypeOK, OneRefresh, NEW tokens, NEW timer, Becomes(RefreshTokens(tokens, timer))
    PROVE  /\ refreshTimer' = timer
           /\ \/ Starts(tokens)
              \/ RunKept /\ (tokens = NoTokens \/ refreshPromise # None)
<1> DEFINE idle == Runs \ Refreshing
           r == CHOOSE i \in idle : TRUE
<1>1. CASE refreshPromise = None /\ tokens # NoTokens
  <2>1. idle # {} /\ Refreshing = {}
    BY <1>1, ConstantsAssumption DEF OneRefresh
  <2>2. r \in Runs
    BY <2>1
  <2> QED
    BY <1>1, <2>1, <2>2 DEF Becomes, RefreshTokens, Starts
<1>2. CASE ~(refreshPromise = None /\ tokens # NoTokens)
  BY <1>2 DEF Becomes, RefreshTokens, RunKept
<1> QED
  BY <1>1, <1>2

LEMMA ScheduleStep ==
    ASSUME TypeOK, OneRefresh, NEW tokens \in Tokens, Becomes(Schedule(tokens))
    PROVE  /\ refreshTimer' \in 0..Horizon
           /\ Starts(tokens) \/ RunKept
           /\ tokens # NoTokens => Starts(tokens) \/ refreshPromise # None \/ refreshTimer' # 0
           /\ tokens = NoTokens => refreshTimer' = 0
<1>1. CASE tokens = NoTokens
  BY <1>1, RefreshTokensStep, HorizonNat DEF Schedule, Starts
<1>2. CASE tokens # NoTokens /\ DueNow(tokens)
  BY <1>2, RefreshTokensStep, HorizonNat DEF Schedule
<1>3. CASE tokens # NoTokens /\ ~DueNow(tokens)
  <2> DEFINE due == tokens.exp - Buffer
  <2>1. refreshTimer' = due /\ RunKept
    BY <1>3, RefreshTokensStep DEF Schedule, Starts
  <2>2. tokens.exp \in 0..Horizon /\ now \in Nat /\ Buffer \in Nat
    BY <1>3, TokenFields, ConstantsAssumption DEF TypeOK
  <2>3. due \in 0..Horizon /\ due # 0
    BY <1>3, <2>2, HorizonNat DEF DueNow
  <2> HIDE DEF due
  <2> QED
    BY <1>3, <2>1, <2>3
<1> QED
  BY <1>1, <1>2, <1>3

\* What the requests in flight are after they were, or may have been, started.
LEMMA StartsEffect ==
    ASSUME TypeOK, OneRefresh, NEW tokens \in Tokens, Starts(tokens)
    PROVE  /\ run' \in [Runs -> [pc : {"idle", "fetch", "me"}, s : Logins \cup {None}]]
           /\ refreshPromise' \in Runs /\ refreshPromise = None /\ Refreshing = {}
           /\ Refreshing' = {refreshPromise'}
           /\ run'[refreshPromise'].s = tokens.ref /\ tokens.ref \in Logins
<1>1. PICK r \in Runs : /\ refreshPromise' = r
                        /\ run' = [run EXCEPT ![r] = [pc |-> "fetch", s |-> tokens.ref]]
  BY DEF Starts
<1>2. tokens.ref \in Logins
  BY TokenFields DEF Starts
<1>3. [pc |-> "fetch", s |-> tokens.ref] \in [pc : {"idle", "fetch", "me"}, s : Logins \cup {None}]
  BY <1>2
<1>4. Refreshing = {} /\ refreshPromise = None
  BY DEF OneRefresh, Starts
<1>5. run' \in [Runs -> [pc : {"idle", "fetch", "me"}, s : Logins \cup {None}]]
  BY <1>1, <1>3 DEF TypeOK
<1>6. \A q \in Runs : run'[q].pc # "idle" <=> q = r
  BY <1>1, <1>4 DEF TypeOK, Refreshing
<1> QED
  BY <1>1, <1>2, <1>4, <1>5, <1>6 DEF Refreshing, TypeOK

LEMMA KeptEffect == RunKept => Refreshing' = Refreshing
BY DEF RunKept, Refreshing

LEMMA SettleEffect ==
    ASSUME TypeOK, OneRefresh, NEW r \in Refreshing, Settle(r)
    PROVE  /\ run' \in [Runs -> [pc : {"idle", "fetch", "me"}, s : Logins \cup {None}]]
           /\ refreshPromise' = None /\ Refreshing' = {}
           /\ r \in Runs /\ Refreshing = {r} /\ refreshPromise = r
<1>1. r \in Runs /\ Refreshing = {r} /\ refreshPromise = r
  BY DEF OneRefresh, Refreshing
<1>2. IdleRun \in [pc : {"idle", "fetch", "me"}, s : Logins \cup {None}] /\ IdleRun.pc = "idle"
  BY DEF IdleRun
<1>3. run' \in [Runs -> [pc : {"idle", "fetch", "me"}, s : Logins \cup {None}]]
  BY <1>1, <1>2 DEF Settle, TypeOK
<1>4. \A q \in Runs : run'[q].pc = "idle"
  BY <1>1, <1>2 DEF Settle, TypeOK, Refreshing
<1> QED
  BY <1>1, <1>3, <1>4 DEF Settle, Refreshing

-----------------------------------------------------------------------------
(* What a refresh that is asked for, or planned, leaves of the invariant *)

RunsTypeOK ==
    /\ run \in [Runs -> [pc : {"idle", "fetch", "me"}, s : Logins \cup {None}]]
    /\ refreshPromise \in Runs \cup {None}

\* The requests in flight afterwards: one new one with these tokens, or those there were.
Asked(tokens) ==
    \/ /\ tokens # NoTokens /\ Refreshing = {} /\ Refreshing' # {}
       /\ \A r \in Refreshing' : run'[r].s = tokens.ref
    \/ RunKept /\ Refreshing' = Refreshing

LEMMA AskedEffect ==
    ASSUME TypeOK, OneRefresh, RunsHaveLogins, NEW tokens \in Tokens, Starts(tokens) \/ RunKept
    PROVE  /\ RunsTypeOK' /\ OneRefresh' /\ RunsHaveLogins' /\ Asked(tokens)
           /\ Starts(tokens) \/ refreshPromise # None => Refreshing' # {}
<1>1. CASE Starts(tokens)
  <2>1. tokens # NoTokens
    BY <1>1 DEF Starts
  <2> QED
    BY <1>1, <2>1, StartsEffect, TokenFields DEF RunsTypeOK, OneRefresh, RunsHaveLogins, Asked
<1>2. CASE RunKept /\ ~Starts(tokens)
  <2>1. Refreshing' = Refreshing
    BY <1>2, KeptEffect
  <2>2. refreshPromise # None => Refreshing # {}
    BY DEF OneRefresh
  <2> QED
    BY <1>2, <2>1, <2>2 DEF RunKept, RunsTypeOK, OneRefresh, RunsHaveLogins, Asked, TypeOK
<1> QED
  BY <1>1, <1>2

LEMMA ScheduleEffect ==
    ASSUME TypeOK, OneRefresh, RunsHaveLogins, NEW tokens \in Tokens, Becomes(Schedule(tokens))
    PROVE  /\ refreshTimer' \in 0..Horizon
           /\ RunsTypeOK' /\ OneRefresh' /\ RunsHaveLogins' /\ Asked(tokens)
           /\ tokens # NoTokens => refreshTimer' # 0 \/ Refreshing' # {}
           /\ tokens = NoTokens => refreshTimer' = 0 /\ RunKept
<1>1. tokens = NoTokens => ~Starts(tokens)
  BY DEF Starts
<1> QED
  BY <1>1, ScheduleStep, AskedEffect

LEMMA RefreshEffect ==
    ASSUME TypeOK, OneRefresh, RunsHaveLogins, NEW tokens \in Tokens, NEW timer,
           Becomes(RefreshTokens(tokens, timer))
    PROVE  /\ refreshTimer' = timer
           /\ RunsTypeOK' /\ OneRefresh' /\ RunsHaveLogins' /\ Asked(tokens)
           /\ tokens # NoTokens => Refreshing' # {}
<1> QED
  BY RefreshTokensStep, AskedEffect

LEMMA ScheduleTimer ==
    ASSUME TypeOK, NEW tokens \in Tokens
    PROVE  /\ Schedule(tokens).timer \in 0..Horizon
           /\ tokens # NoTokens /\ ~DueNow(tokens) => Schedule(tokens).timer # 0
<1> DEFINE due == tokens.exp - Buffer
<1>1. CASE tokens = NoTokens \/ DueNow(tokens)
  <2>1. Schedule(tokens).timer = 0
    BY <1>1 DEF Schedule, RefreshTokens
  <2> QED
    BY <1>1, <2>1, HorizonNat
<1>2. CASE tokens # NoTokens /\ ~DueNow(tokens)
  <2>1. Schedule(tokens).timer = due
    BY <1>2 DEF Schedule, RefreshTokens
  <2>2. tokens.exp \in 0..Horizon /\ now \in Nat /\ Buffer \in Nat
    BY <1>2, TokenFields, ConstantsAssumption DEF TypeOK
  <2>3. due \in 0..Horizon /\ due # 0
    BY <1>2, <2>2, HorizonNat DEF DueNow
  <2> HIDE DEF due
  <2> QED
    BY <1>2, <2>1, <2>3
<1> QED
  BY <1>1, <1>2

LEMMA SettleInv ==
    ASSUME TypeOK, OneRefresh, RunsHaveLogins, NEW r \in Runs, run[r].pc # "idle", Settle(r)
    PROVE  /\ RunsTypeOK' /\ OneRefresh' /\ RunsHaveLogins'
           /\ Refreshing' = {} /\ Refreshing = {r}
<1>1. r \in Refreshing
  BY DEF Refreshing
<1> QED
  BY <1>1, SettleEffect DEF RunsTypeOK, OneRefresh, RunsHaveLogins

\* A handler starts with a thread that is free.
LEMMA FreeThread ==
    /\ NoThread.job = "none" /\ NoThread.r = None
    /\ NoThread \in [job : {"none", "login", "clear"}, tok : Tokens, r : Runs \cup {None}]
    /\ Serving => Free /\ phase = "up"
    /\ Free => phase # "down" /\ thread = NoThread
    /\ TypeOK => RunsTypeOK
<1>1. Serving => Free /\ phase = "up"
  BY DEF Serving
<1>2. Free => phase # "down" /\ thread = NoThread
  BY DEF Free
<1>3. NoThread \in [job : {"none", "login", "clear"}, tok : Tokens, r : Runs \cup {None}]
  BY TokenFields DEF NoThread
<1>4. NoThread.job = "none" /\ NoThread.r = None
  BY DEF NoThread
<1>5. TypeOK => RunsTypeOK
  BY DEF TypeOK, RunsTypeOK
<1> QED
  BY <1>1, <1>2, <1>3, <1>4, <1>5

-----------------------------------------------------------------------------
(* Login *)

LEMMA NextLogin ==
    ASSUME TypeOK, attempts < MaxLogins
    PROVE  attempts + 1 \in Logins /\ attempts + 1 \in 0..MaxLogins
BY ConstantsAssumption DEF TypeOK, Logins

LEMMA InitiateLoginStep ==
    ASSUME Inv, InitiateLogin
    PROVE  Inv'
<1>1. TypeOK'
  BY NextLogin DEF Inv, InitiateLogin, TypeOK, vars, memory, store, history
<1>2. /\ Threads' /\ DownIsEmpty' /\ RunsHaveLogins' /\ OneRefresh' /\ SessionIsKept'
      /\ NothingLeft' /\ MemoryIsStored' /\ StoredIsOne' /\ UserComesLast' /\ RunIsCurrent'
      /\ AskedIsCurrent' /\ NextIsPlanned'
  <2>1. Threads' /\ DownIsEmpty' /\ RunsHaveLogins'
    BY DEF Inv, InitiateLogin, vars, memory, store, history, Threads, LoginThread, ClearThread,
         Refreshing, DownIsEmpty, RunsHaveLogins
  <2>2. OneRefresh' /\ SessionIsKept' /\ NothingLeft'
    BY DEF Inv, InitiateLogin, vars, memory, store, history, OneRefresh, Refreshing,
         SessionIsKept, NothingLeft
  <2>3. MemoryIsStored' /\ StoredIsOne' /\ UserComesLast'
    BY DEF Inv, InitiateLogin, vars, memory, store, history, MemoryIsStored, Refreshing,
         StoredIsOne, OneLogin, UserComesLast
  <2>4. RunIsCurrent' /\ AskedIsCurrent' /\ NextIsPlanned'
    BY DEF Inv, InitiateLogin, vars, memory, store, history, RunIsCurrent, Refreshing,
         AskedIsCurrent, NextIsPlanned
  <2> QED
    BY <2>1, <2>2, <2>3, <2>4
<1> QED
  BY <1>1, <1>2 DEF Inv

LEMMA CallbackRefusedStep ==
    ASSUME Inv, CallbackRefused
    PROVE  Inv'
<1>1. TypeOK'
  BY DEF Inv, CallbackRefused, TypeOK, vars, memory, store, history, None
<1>2. /\ Threads' /\ DownIsEmpty' /\ RunsHaveLogins' /\ OneRefresh' /\ SessionIsKept'
      /\ NothingLeft' /\ MemoryIsStored' /\ StoredIsOne' /\ UserComesLast' /\ RunIsCurrent'
      /\ AskedIsCurrent' /\ NextIsPlanned'
  <2>1. Threads' /\ DownIsEmpty' /\ RunsHaveLogins'
    BY DEF Inv, CallbackRefused, vars, memory, store, history, Threads, LoginThread,
         ClearThread, Refreshing, DownIsEmpty, RunsHaveLogins
  <2>2. OneRefresh' /\ SessionIsKept' /\ NothingLeft'
    BY DEF Inv, CallbackRefused, vars, memory, store, history, OneRefresh, Refreshing,
         SessionIsKept, NothingLeft
  <2>3. MemoryIsStored' /\ StoredIsOne' /\ UserComesLast'
    BY DEF Inv, CallbackRefused, vars, memory, store, history, MemoryIsStored, Refreshing,
         StoredIsOne, OneLogin, UserComesLast
  <2>4. RunIsCurrent' /\ AskedIsCurrent' /\ NextIsPlanned'
    BY DEF Inv, CallbackRefused, vars, memory, store, history, RunIsCurrent, Refreshing,
         AskedIsCurrent, NextIsPlanned
  <2> QED
    BY <2>1, <2>2, <2>3, <2>4
<1> QED
  BY <1>1, <1>2 DEF Inv

LEMMA CallbackAcceptedStep ==
    ASSUME Inv, CallbackAccepted
    PROVE  Inv'
<1>1. TypeOK'
  BY DEF Inv, CallbackAccepted, TypeOK, vars, memory, store, history, None
<1>2. /\ Threads' /\ DownIsEmpty' /\ RunsHaveLogins' /\ OneRefresh' /\ SessionIsKept'
      /\ NothingLeft' /\ MemoryIsStored' /\ StoredIsOne' /\ UserComesLast' /\ RunIsCurrent'
      /\ AskedIsCurrent' /\ NextIsPlanned'
  <2>1. Threads' /\ DownIsEmpty' /\ RunsHaveLogins'
    BY DEF Inv, CallbackAccepted, vars, memory, store, history, Threads, LoginThread,
         ClearThread, Refreshing, DownIsEmpty, RunsHaveLogins
  <2>2. OneRefresh' /\ SessionIsKept' /\ NothingLeft'
    BY DEF Inv, CallbackAccepted, vars, memory, store, history, OneRefresh, Refreshing,
         SessionIsKept, NothingLeft
  <2>3. MemoryIsStored' /\ StoredIsOne' /\ UserComesLast'
    BY DEF Inv, CallbackAccepted, vars, memory, store, history, MemoryIsStored, Refreshing,
         StoredIsOne, OneLogin, UserComesLast
  <2>4. RunIsCurrent' /\ AskedIsCurrent' /\ NextIsPlanned'
    BY DEF Inv, CallbackAccepted, vars, memory, store, history, RunIsCurrent, Refreshing,
         AskedIsCurrent, NextIsPlanned
  <2> QED
    BY <2>1, <2>2, <2>3, <2>4
<1> QED
  BY <1>1, <1>2 DEF Inv

LEMMA ExchangeFailsStep ==
    ASSUME Inv, NEW s \in Logins, ExchangeFails(s)
    PROVE  Inv'
<1>1. TypeOK'
  BY DEF Inv, ExchangeFails, TypeOK, vars, memory, store, history
<1>2. /\ Threads' /\ DownIsEmpty' /\ RunsHaveLogins' /\ OneRefresh' /\ SessionIsKept'
      /\ NothingLeft' /\ MemoryIsStored' /\ StoredIsOne' /\ UserComesLast' /\ RunIsCurrent'
      /\ AskedIsCurrent' /\ NextIsPlanned'
  <2>1. Threads' /\ DownIsEmpty' /\ RunsHaveLogins'
    BY DEF Inv, ExchangeFails, vars, memory, store, history, Threads, LoginThread, ClearThread,
         Refreshing, DownIsEmpty, RunsHaveLogins
  <2>2. OneRefresh' /\ SessionIsKept' /\ NothingLeft'
    BY DEF Inv, ExchangeFails, vars, memory, store, history, OneRefresh, Refreshing,
         SessionIsKept, NothingLeft
  <2>3. MemoryIsStored' /\ StoredIsOne' /\ UserComesLast'
    BY DEF Inv, ExchangeFails, vars, memory, store, history, MemoryIsStored, Refreshing,
         StoredIsOne, OneLogin, UserComesLast
  <2>4. RunIsCurrent' /\ AskedIsCurrent' /\ NextIsPlanned'
    BY DEF Inv, ExchangeFails, vars, memory, store, history, RunIsCurrent, Refreshing,
         AskedIsCurrent, NextIsPlanned
  <2> QED
    BY <2>1, <2>2, <2>3, <2>4
<1> QED
  BY <1>1, <1>2 DEF Inv

\* What the first write of a login leaves: the tokens of login s in the thread's hand.
LEMMA StoreLoginEffect ==
    ASSUME TypeOK, NEW s \in Logins, NEW l \in Lifetimes, StoreLogin(s, l)
    PROVE  /\ thread'.tok \in Tokens /\ thread'.tok # NoTokens /\ thread'.tok.acc = s
           /\ thread'.tok.ref = s /\ thread'.r = None /\ thread'.job = "login"
           /\ thread' \in [job : {"none", "login", "clear"}, tok : Tokens, r : Runs \cup {None}]
           /\ storedTokens' \in Tokens /\ refused' \in BOOLEAN /\ ~out' /\ out' \in BOOLEAN
           /\ ~refused' => storedTokens' = thread'.tok /\ ~refused
           /\ storedTokens = NoTokens \/ storedTokens' # NoTokens
<1> DEFINE t == [acc |-> s, ref |-> s, exp |-> now + l]
<1>1. now + l \in 0..Horizon
  BY HorizonBounds DEF TypeOK
<1>2. t \in Tokens /\ t # NoTokens /\ t.acc = s /\ t.ref = s
  BY <1>1, TokenFields
<1>3. thread' = [job |-> "login", tok |-> t, r |-> None] /\ Write(storedTokens, t) /\ out' = FALSE
  BY DEF StoreLogin
<1> HIDE DEF t
<1>4. /\ storedTokens' \in Tokens /\ refused' \in BOOLEAN
      /\ ~refused' => storedTokens' = t /\ ~refused
      /\ storedTokens = NoTokens \/ storedTokens' # NoTokens
  BY <1>2, <1>3 DEF Write, TypeOK
<1> QED
  BY <1>2, <1>3, <1>4

LEMMA ExchangeDoneStep ==
    ASSUME Inv, NEW s \in Logins, ExchangeDone(s)
    PROVE  Inv'
<1>1. phase = "up" /\ thread = NoThread /\ thread.job = "none"
  BY FreeThread DEF ExchangeDone
<1>2. /\ thread'.tok \in Tokens /\ thread'.tok # NoTokens /\ thread'.tok.acc = thread'.tok.ref
      /\ thread'.r = None /\ thread'.job = "login"
      /\ thread' \in [job : {"none", "login", "clear"}, tok : Tokens, r : Runs \cup {None}]
      /\ storedTokens' \in Tokens /\ refused' \in BOOLEAN /\ ~out' /\ out' \in BOOLEAN
      /\ ~refused' => storedTokens' = thread'.tok /\ ~refused
      /\ storedTokens = NoTokens \/ storedTokens' # NoTokens
  BY StoreLoginEffect DEF ExchangeDone, Inv
<1>3. TypeOK'
  BY <1>2 DEF Inv, ExchangeDone, TypeOK, None
<1>4. Threads'
  BY <1>1, <1>2 DEF ExchangeDone, Threads, LoginThread, ClearThread
<1>5. SessionIsKept'
  BY <1>1, <1>2 DEF Inv, ExchangeDone, SessionIsKept
<1>6. RunIsCurrent'
  BY <1>1, <1>2 DEF Inv, ExchangeDone, RunIsCurrent, Refreshing
<1>7. /\ DownIsEmpty' /\ RunsHaveLogins' /\ OneRefresh' /\ NothingLeft' /\ MemoryIsStored'
      /\ StoredIsOne' /\ UserComesLast' /\ AskedIsCurrent' /\ NextIsPlanned'
  <2>1. DownIsEmpty' /\ RunsHaveLogins' /\ OneRefresh'
    BY <1>1, <1>2 DEF Inv, ExchangeDone, vars, memory, store, history, DownIsEmpty, Refreshing,
         RunsHaveLogins, OneRefresh
  <2>2. NothingLeft' /\ MemoryIsStored' /\ StoredIsOne'
    BY <1>1, <1>2 DEF Inv, ExchangeDone, vars, memory, store, history, NothingLeft, Refreshing,
         MemoryIsStored, StoredIsOne, OneLogin
  <2>3. UserComesLast' /\ AskedIsCurrent' /\ NextIsPlanned'
    BY <1>1, <1>2 DEF Inv, ExchangeDone, vars, memory, store, history, UserComesLast,
         AskedIsCurrent, NextIsPlanned, Refreshing
  <2> QED
    BY <2>1, <2>2, <2>3
<1> QED
  BY <1>3, <1>4, <1>5, <1>6, <1>7 DEF Inv

LEMMA InlineLoginStep ==
    ASSUME Inv, InlineLogin
    PROVE  Inv'
<1>1. phase = "up" /\ thread = NoThread /\ thread.job = "none"
  BY FreeThread DEF InlineLogin
<1>2. /\ thread'.tok \in Tokens /\ thread'.tok # NoTokens /\ thread'.tok.acc = thread'.tok.ref
      /\ thread'.r = None /\ thread'.job = "login"
      /\ thread' \in [job : {"none", "login", "clear"}, tok : Tokens, r : Runs \cup {None}]
      /\ storedTokens' \in Tokens /\ refused' \in BOOLEAN /\ ~out' /\ out' \in BOOLEAN
      /\ ~refused' => storedTokens' = thread'.tok /\ ~refused
      /\ storedTokens = NoTokens \/ storedTokens' # NoTokens
  <2>1. PICK s \in Logins, l \in Lifetimes : StoreLogin(s, l)
    BY NextLogin DEF InlineLogin, Inv, StoreLogin, Write
  <2> QED
    BY <2>1, StoreLoginEffect DEF Inv
<1>3. TypeOK'
  BY <1>2, NextLogin DEF Inv, InlineLogin, TypeOK, memory
<1>4. Threads'
  BY <1>1, <1>2 DEF InlineLogin, Threads, LoginThread, ClearThread
<1>5. SessionIsKept'
  BY <1>1, <1>2 DEF Inv, InlineLogin, SessionIsKept, memory
<1>6. RunIsCurrent'
  BY <1>1, <1>2 DEF Inv, InlineLogin, RunIsCurrent, Refreshing, memory
<1>7. /\ DownIsEmpty' /\ RunsHaveLogins' /\ OneRefresh' /\ NothingLeft' /\ MemoryIsStored'
      /\ StoredIsOne' /\ UserComesLast' /\ AskedIsCurrent' /\ NextIsPlanned'
  <2>1. DownIsEmpty' /\ RunsHaveLogins' /\ OneRefresh'
    BY <1>1, <1>2 DEF Inv, InlineLogin, vars, memory, store, history, DownIsEmpty, Refreshing,
         RunsHaveLogins, OneRefresh
  <2>2. NothingLeft' /\ MemoryIsStored' /\ StoredIsOne'
    BY <1>1, <1>2 DEF Inv, InlineLogin, vars, memory, store, history, NothingLeft, Refreshing,
         MemoryIsStored, StoredIsOne, OneLogin
  <2>3. UserComesLast' /\ AskedIsCurrent' /\ NextIsPlanned'
    BY <1>1, <1>2 DEF Inv, InlineLogin, vars, memory, store, history, UserComesLast,
         AskedIsCurrent, NextIsPlanned, Refreshing
  <2> QED
    BY <2>1, <2>2, <2>3
<1> QED
  BY <1>3, <1>4, <1>5, <1>6, <1>7 DEF Inv

LEMMA WriteUser ==
    ASSUME TypeOK, NEW u \in Logins \cup {None}, Write(storedUser, u)
    PROVE  /\ storedUser' \in Logins \cup {None} /\ refused' \in BOOLEAN
           /\ ~refused' => ~refused /\ storedUser' = u
           /\ u # None /\ storedUser # None => storedUser' # None
BY DEF Write, TypeOK

LEMMA LoginFinishStep ==
    ASSUME Inv, LoginFinish
    PROVE  Inv'
<1>1. /\ thread.job = "login" /\ phase = "up" /\ ~out
      /\ thread.tok \in Tokens /\ thread.tok # NoTokens /\ thread.tok.acc = thread.tok.ref
      /\ thread.tok.acc \in Logins /\ None \notin Logins
      /\ ~refused => storedTokens = thread.tok
  BY TokenFields DEF LoginFinish, Inv, TypeOK, Threads, LoginThread
<1>2. /\ RunsTypeOK' /\ OneRefresh' /\ RunsHaveLogins' /\ Asked(thread.tok)
      /\ refreshTimer' \in 0..Horizon /\ (refreshTimer' # 0 \/ Refreshing' # {})
  BY <1>1, ScheduleEffect DEF LoginFinish, Inv
<1>3. /\ thread' = NoThread /\ thread'.job = "none" /\ phase' = "up" /\ ~out'
      /\ cachedTokens' = thread.tok /\ cachedUser' = thread.tok.acc /\ session' = thread.tok.acc
      /\ storedTokens' = storedTokens /\ crossed' = (crossed \/ Refreshing # {})
      /\ refused' \in BOOLEAN /\ storedUser' \in Logins \cup {None}
      /\ ~refused' => ~refused /\ storedUser' = thread.tok.acc
  <2>1. /\ refused' \in BOOLEAN /\ storedUser' \in Logins \cup {None}
        /\ (~refused' => ~refused /\ storedUser' = thread.tok.acc)
    BY <1>1, WriteUser DEF LoginFinish, Inv
  <2>2. crossed' = (crossed \/ Refreshing # {})
    BY DEF LoginFinish
  <2> QED
    BY <1>1, <2>1, <2>2, FreeThread DEF LoginFinish
<1>4. TypeOK'
  BY <1>1, <1>2, <1>3, FreeThread DEF Inv, LoginFinish, TypeOK, RunsTypeOK, None
<1>5. Threads'
  BY <1>3 DEF Threads, LoginThread, ClearThread
<1>6. DownIsEmpty'
  BY <1>3 DEF DownIsEmpty
<1>7. RunsHaveLogins'
  BY <1>2
<1>8. OneRefresh'
  BY <1>2
<1>9. SessionIsKept'
  BY <1>1, <1>3 DEF SessionIsKept
<1>10. NothingLeft'
  BY <1>3 DEF NothingLeft
<1>11. MemoryIsStored'
  BY <1>1, <1>3 DEF MemoryIsStored
<1>12. StoredIsOne'
  BY <1>1, <1>3 DEF StoredIsOne, OneLogin
<1>13. UserComesLast'
  BY <1>3 DEF UserComesLast
<1>14. RunIsCurrent'
  BY <1>1, <1>2, <1>3 DEF RunIsCurrent, Asked
<1>15. AskedIsCurrent'
  BY <1>3 DEF AskedIsCurrent
<1>16. NextIsPlanned'
  BY <1>2, <1>3 DEF NextIsPlanned
<1> QED
  BY <1>4, <1>5, <1>6, <1>7, <1>8, <1>9, <1>10, <1>11, <1>12, <1>13, <1>14, <1>15, <1>16 DEF
       Inv

-----------------------------------------------------------------------------
(* Logout *)

LEMMA LogoutStartStep ==
    ASSUME Inv, LogoutStart
    PROVE  Inv'
<1>1. TypeOK'
  BY DEF Inv, LogoutStart, TypeOK, memory, store, history
<1>2. /\ Threads' /\ DownIsEmpty' /\ RunsHaveLogins' /\ OneRefresh' /\ SessionIsKept'
      /\ NothingLeft' /\ MemoryIsStored' /\ StoredIsOne' /\ UserComesLast' /\ RunIsCurrent'
      /\ AskedIsCurrent' /\ NextIsPlanned'
  <2>1. Threads' /\ DownIsEmpty' /\ RunsHaveLogins'
    BY DEF Inv, LogoutStart, vars, memory, store, history, Threads, LoginThread, ClearThread,
         Refreshing, DownIsEmpty, RunsHaveLogins
  <2>2. OneRefresh' /\ SessionIsKept' /\ NothingLeft'
    BY DEF Inv, LogoutStart, vars, memory, store, history, OneRefresh, Refreshing,
         SessionIsKept, NothingLeft
  <2>3. MemoryIsStored' /\ StoredIsOne' /\ UserComesLast'
    BY DEF Inv, LogoutStart, vars, memory, store, history, MemoryIsStored, Refreshing,
         StoredIsOne, OneLogin, UserComesLast
  <2>4. RunIsCurrent' /\ AskedIsCurrent' /\ NextIsPlanned'
    BY DEF Inv, LogoutStart, vars, memory, store, history, RunIsCurrent, Refreshing,
         AskedIsCurrent, NextIsPlanned
  <2> QED
    BY <2>1, <2>2, <2>3, <2>4
<1> QED
  BY <1>1, <1>2 DEF Inv

LEMMA ClearAuthEffect ==
    ASSUME TypeOK, NEW r \in Runs \cup {None}, ClearAuth(r)
    PROVE  /\ thread'.job = "clear" /\ thread'.tok \in Tokens /\ thread'.r = r
           /\ thread' \in [job : {"none", "login", "clear"}, tok : Tokens, r : Runs \cup {None}]
           /\ cachedTokens' = NoTokens /\ cachedUser' = None /\ refreshTimer' = 0 /\ session' = None
           /\ pendingAuth' = None /\ storedTokens' \in Tokens /\ refused' \in BOOLEAN
           /\ ~refused' => ~refused /\ storedTokens' = NoTokens
           /\ storedTokens = NoTokens => storedTokens' = NoTokens
<1>1. NoTokens \in Tokens
  BY TokenFields
<1>2. thread' = [job |-> "clear", tok |-> NoTokens, r |-> r]
  BY DEF ClearAuth
<1>3. /\ storedTokens' \in Tokens /\ refused' \in BOOLEAN
      /\ ~refused' => ~refused /\ storedTokens' = NoTokens
      /\ storedTokens = NoTokens => storedTokens' = NoTokens
  BY <1>1 DEF ClearAuth, Write, TypeOK
<1>4. /\ cachedTokens' = NoTokens /\ cachedUser' = None /\ refreshTimer' = 0 /\ session' = None
      /\ pendingAuth' = None
  BY DEF ClearAuth
<1> QED
  BY <1>1, <1>2, <1>3, <1>4

LEMMA LogoutClearStep ==
    ASSUME Inv, LogoutClear
    PROVE  Inv'
<1>1. phase = "up" /\ thread = NoThread /\ thread.job = "none"
  BY FreeThread DEF LogoutClear
<1>2. /\ thread'.job = "clear" /\ thread'.tok \in Tokens /\ thread'.r = None
      /\ thread' \in [job : {"none", "login", "clear"}, tok : Tokens, r : Runs \cup {None}]
      /\ cachedTokens' = NoTokens /\ cachedUser' = None /\ refreshTimer' = 0 /\ session' = None
      /\ pendingAuth' = None /\ storedTokens' \in Tokens /\ refused' \in BOOLEAN
      /\ ~refused' => ~refused /\ storedTokens' = NoTokens
      /\ storedTokens = NoTokens => storedTokens' = NoTokens
  BY ClearAuthEffect DEF LogoutClear, Inv
<1>3. TypeOK'
  <2>1. crossed' \in BOOLEAN
    BY DEF LogoutClear, Inv, TypeOK
  <2>2. NoTokens \in Tokens /\ 0 \in 0..Horizon
    BY TokenFields, HorizonNat
  <2>3. /\ UNCHANGED <<now, storedUser, refreshPromise, run, exchanging, phase, asked, attempts, out, troubled>>
        /\ logout' = "idle"
    BY DEF LogoutClear
  <2> QED
    BY <1>2, <2>1, <2>2, <2>3 DEF Inv, TypeOK
<1>4. Threads'
  BY <1>1, <1>2 DEF Inv, LogoutClear, Threads, LoginThread, ClearThread, Refreshing
<1>5. /\ DownIsEmpty' /\ RunsHaveLogins' /\ OneRefresh' /\ SessionIsKept' /\ NothingLeft'
      /\ MemoryIsStored' /\ StoredIsOne' /\ UserComesLast' /\ RunIsCurrent' /\ AskedIsCurrent'
      /\ NextIsPlanned'
  <2>1. DownIsEmpty' /\ RunsHaveLogins' /\ OneRefresh'
    BY <1>1, <1>2 DEF Inv, LogoutClear, vars, memory, store, history, DownIsEmpty, Refreshing,
         RunsHaveLogins, OneRefresh
  <2>2. SessionIsKept' /\ NothingLeft' /\ MemoryIsStored'
    BY <1>1, <1>2 DEF Inv, LogoutClear, vars, memory, store, history, SessionIsKept,
         NothingLeft, Refreshing, MemoryIsStored
  <2>3. StoredIsOne' /\ UserComesLast' /\ RunIsCurrent'
    BY <1>1, <1>2 DEF Inv, LogoutClear, vars, memory, store, history, StoredIsOne, OneLogin,
         UserComesLast, RunIsCurrent, Refreshing
  <2>4. AskedIsCurrent' /\ NextIsPlanned'
    BY <1>1, <1>2 DEF Inv, LogoutClear, vars, memory, store, history, AskedIsCurrent,
         NextIsPlanned, Refreshing
  <2> QED
    BY <2>1, <2>2, <2>3, <2>4
<1> QED
  BY <1>3, <1>4, <1>5 DEF Inv

\* The end of clearAuth(), of a refresh that was rejected or of a logout.

LEMMA ClearFinishStep ==
    ASSUME Inv, ClearFinish
    PROVE  Inv'
<1>1. /\ thread.job = "clear" /\ phase # "down" /\ session = None
      /\ cachedTokens = NoTokens /\ cachedUser = None /\ refreshTimer = 0
      /\ ~refused => storedTokens = NoTokens
      /\ thread.r # None => thread.r \in Runs /\ run[thread.r].pc # "idle"
      /\ thread.r = None /\ ~crossed => Refreshing = {}
  BY DEF ClearFinish, Inv, TypeOK, Threads, ClearThread
<1>2. /\ RunsTypeOK' /\ OneRefresh' /\ RunsHaveLogins'
      /\ ~crossed => Refreshing' = {}
  <2>1. CASE thread.r # None
    BY <1>1, <2>1, SettleInv DEF ClearFinish, Inv
  <2>2. CASE thread.r = None
    <3>1. RunKept
      BY <2>2 DEF ClearFinish, RunKept
    <3> QED
      BY <1>1, <2>2, <3>1, KeptEffect DEF RunKept, Inv, TypeOK, RunsTypeOK, OneRefresh,
         RunsHaveLogins
  <2> QED
    BY <2>1, <2>2
<1>3. /\ thread' = NoThread /\ thread'.job = "none"
      /\ UNCHANGED <<now, cachedTokens, cachedUser, pendingAuth, refreshTimer, storedTokens, exchanging,
                     logout, phase, asked, attempts, session, troubled, crossed>>
      /\ out' \in BOOLEAN /\ refused' \in BOOLEAN /\ storedUser' \in Logins \cup {None}
      /\ ~refused' => ~refused /\ storedUser' = None
  <2>1. /\ refused' \in BOOLEAN /\ storedUser' \in Logins \cup {None}
        /\ (~refused' => ~refused /\ storedUser' = None)
    BY <1>1, WriteUser DEF ClearFinish, Inv
  <2>2. out' \in BOOLEAN
    BY DEF ClearFinish, Inv, TypeOK
  <2> QED
    BY <2>1, <2>2, FreeThread DEF ClearFinish
<1>4. TypeOK'
  BY <1>2, <1>3, FreeThread DEF Inv, TypeOK, RunsTypeOK
<1>5. Threads'
  BY <1>3 DEF Threads, LoginThread, ClearThread
<1>6. DownIsEmpty'
  BY <1>1, <1>3 DEF DownIsEmpty
<1>7. RunsHaveLogins'
  BY <1>2
<1>8. OneRefresh'
  BY <1>2
<1>9. SessionIsKept'
  BY <1>1, <1>3 DEF SessionIsKept
<1>10. NothingLeft'
  BY <1>1, <1>2, <1>3 DEF NothingLeft
<1>11. MemoryIsStored'
  BY <1>1, <1>3 DEF MemoryIsStored
<1>12. StoredIsOne'
  BY <1>1, <1>3 DEF StoredIsOne, OneLogin
<1>13. UserComesLast'
  BY <1>1, <1>3 DEF UserComesLast
<1>14. RunIsCurrent'
  BY <1>2, <1>3 DEF RunIsCurrent
<1>15. AskedIsCurrent'
  BY <1>1, <1>3 DEF AskedIsCurrent
<1>16. NextIsPlanned'
  BY <1>1, <1>3 DEF NextIsPlanned
<1> QED
  BY <1>4, <1>5, <1>6, <1>7, <1>8, <1>9, <1>10, <1>11, <1>12, <1>13, <1>14, <1>15, <1>16 DEF
       Inv

-----------------------------------------------------------------------------
(* Refresh *)

LEMMA RequestRefreshStep ==
    ASSUME Inv, RequestRefresh
    PROVE  Inv'
<1>1. phase = "up" /\ thread = NoThread /\ thread.job = "none"
  BY FreeThread DEF RequestRefresh
<1>2. /\ RunsTypeOK' /\ OneRefresh' /\ RunsHaveLogins' /\ Asked(cachedTokens)
      /\ refreshTimer' = refreshTimer
      /\ cachedTokens # NoTokens => Refreshing' # {}
  BY RefreshEffect DEF RequestRefresh, Inv, TypeOK
<1>3. TypeOK'
  BY <1>2, HorizonNat DEF Inv, RequestRefresh, TypeOK, RunsTypeOK, store, history
<1>4. Threads'
  BY <1>1 DEF Inv, RequestRefresh, Threads, LoginThread, ClearThread, store, history
<1>5. RunsHaveLogins'
  BY <1>2
<1>6. OneRefresh'
  BY <1>2
<1>7. NothingLeft'
  <2>1. UNCHANGED <<storedTokens, cachedTokens, out, refused, crossed>>
    BY DEF RequestRefresh, store, history
  <2> QED
    BY <1>2, <2>1 DEF Inv, NothingLeft, Asked
<1>8. MemoryIsStored'
  <2>1. UNCHANGED <<phase, thread, refused, cachedTokens, cachedUser, storedTokens, storedUser>>
    BY DEF RequestRefresh, store, history
  <2> QED
    BY <1>2, <2>1 DEF Inv, MemoryIsStored, Asked
<1>9. RunIsCurrent'
  <2>1. UNCHANGED <<cachedTokens, thread, crossed>>
    BY DEF RequestRefresh, history
  <2> QED
    BY <1>1, <1>2, <2>1 DEF Inv, RunIsCurrent, Asked, RunKept
<1>10. NextIsPlanned'
  <2>1. UNCHANGED <<phase, session, refused, troubled, cachedTokens>>
    BY DEF RequestRefresh, history
  <2> QED
    BY <1>1, <1>2, <2>1 DEF Inv, NextIsPlanned, SessionIsKept
<1>11. DownIsEmpty' /\ SessionIsKept' /\ StoredIsOne' /\ UserComesLast' /\ AskedIsCurrent'
  <2>1. DownIsEmpty' /\ SessionIsKept' /\ StoredIsOne'
    BY <1>1, <1>2 DEF Inv, RequestRefresh, vars, memory, store, history, DownIsEmpty,
         Refreshing, SessionIsKept, StoredIsOne, OneLogin
  <2>2. UserComesLast' /\ AskedIsCurrent'
    BY <1>1, <1>2 DEF Inv, RequestRefresh, vars, memory, store, history, UserComesLast,
         AskedIsCurrent
  <2> QED
    BY <2>1, <2>2
<1> QED
  BY <1>3, <1>4, <1>5, <1>6, <1>7, <1>8, <1>9, <1>10, <1>11 DEF Inv

LEMMA TimerFiresStep ==
    ASSUME Inv, TimerFires
    PROVE  Inv'
<1>1. phase # "down" /\ thread = NoThread /\ thread.job = "none"
  BY FreeThread DEF TimerFires
<1>2. /\ RunsTypeOK' /\ OneRefresh' /\ RunsHaveLogins' /\ Asked(cachedTokens) /\ refreshTimer' = 0
      /\ cachedTokens # NoTokens => Refreshing' # {}
  BY RefreshEffect DEF TimerFires, Inv, TypeOK
<1>3. TypeOK'
  BY <1>2, HorizonNat DEF Inv, TimerFires, TypeOK, RunsTypeOK, store, history
<1>4. Threads'
  BY <1>1 DEF Inv, TimerFires, Threads, LoginThread, ClearThread, store, history
<1>5. RunsHaveLogins'
  BY <1>2
<1>6. OneRefresh'
  BY <1>2
<1>7. NothingLeft'
  <2>1. UNCHANGED <<storedTokens, cachedTokens, out, refused, crossed>>
    BY DEF TimerFires, store, history
  <2> QED
    BY <1>2, <2>1 DEF Inv, NothingLeft, Asked
<1>8. MemoryIsStored'
  <2>1. UNCHANGED <<phase, thread, refused, cachedTokens, cachedUser, storedTokens, storedUser>>
    BY DEF TimerFires, store, history
  <2> QED
    BY <1>2, <2>1 DEF Inv, MemoryIsStored, Asked
<1>9. RunIsCurrent'
  <2>1. UNCHANGED <<cachedTokens, thread, crossed>>
    BY DEF TimerFires, history
  <2> QED
    BY <1>1, <1>2, <2>1 DEF Inv, RunIsCurrent, Asked, RunKept
<1>10. NextIsPlanned'
  <2>1. UNCHANGED <<phase, session, refused, troubled, cachedTokens>>
    BY DEF TimerFires, history
  <2> QED
    BY <1>1, <1>2, <2>1 DEF Inv, NextIsPlanned, SessionIsKept
<1>11. DownIsEmpty' /\ SessionIsKept' /\ StoredIsOne' /\ UserComesLast' /\ AskedIsCurrent'
  <2>1. DownIsEmpty' /\ SessionIsKept' /\ StoredIsOne'
    BY <1>1, <1>2 DEF Inv, TimerFires, vars, memory, store, history, DownIsEmpty, Refreshing,
         SessionIsKept, StoredIsOne, OneLogin
  <2>2. UserComesLast' /\ AskedIsCurrent'
    BY <1>1, <1>2 DEF Inv, TimerFires, vars, memory, store, history, UserComesLast,
         AskedIsCurrent
  <2> QED
    BY <2>1, <2>2
<1> QED
  BY <1>3, <1>4, <1>5, <1>6, <1>7, <1>8, <1>9, <1>10, <1>11 DEF Inv

LEMMA RefreshFailsStep ==
    ASSUME Inv, NEW r \in Runs, RefreshFails(r)
    PROVE  Inv'
<1>1. phase # "down" /\ thread = NoThread /\ thread.job = "none"
  BY FreeThread DEF RefreshFails
<1>2. /\ RunsTypeOK' /\ OneRefresh' /\ RunsHaveLogins'
      /\ Refreshing' = {} /\ Refreshing = {r}
  BY SettleInv DEF RefreshFails, Inv
<1>3. TypeOK'
  BY <1>2 DEF Inv, RefreshFails, TypeOK, RunsTypeOK, store
<1>4. Threads'
  BY <1>1 DEF Inv, RefreshFails, Threads, LoginThread, ClearThread
<1>5. DownIsEmpty'
  BY <1>1 DEF RefreshFails, DownIsEmpty
<1>6. RunsHaveLogins'
  BY <1>2
<1>7. OneRefresh'
  BY <1>2
<1>8. NothingLeft'
  BY <1>2 DEF Inv, RefreshFails, NothingLeft, store
<1>9. RunIsCurrent'
  BY <1>2 DEF RunIsCurrent
<1>10. NextIsPlanned'
  BY DEF RefreshFails, NextIsPlanned
<1>11. SessionIsKept' /\ MemoryIsStored' /\ StoredIsOne' /\ UserComesLast' /\ AskedIsCurrent'
  <2>1. SessionIsKept' /\ MemoryIsStored' /\ StoredIsOne'
    BY <1>1, <1>2 DEF Inv, RefreshFails, vars, memory, store, history, SessionIsKept,
         MemoryIsStored, Refreshing, StoredIsOne, OneLogin
  <2>2. UserComesLast' /\ AskedIsCurrent'
    BY <1>1, <1>2 DEF Inv, RefreshFails, vars, memory, store, history, UserComesLast,
         AskedIsCurrent
  <2> QED
    BY <2>1, <2>2
<1> QED
  BY <1>3, <1>4, <1>5, <1>6, <1>7, <1>8, <1>9, <1>10, <1>11 DEF Inv

LEMMA RefreshRejectedStep ==
    ASSUME Inv, NEW r \in Runs, RefreshRejected(r)
    PROVE  Inv'
<1>1. phase # "down" /\ thread = NoThread /\ thread.job = "none"
  BY FreeThread DEF RefreshRejected
<1>2. /\ thread'.job = "clear" /\ thread'.tok \in Tokens /\ thread'.r = r
      /\ thread' \in [job : {"none", "login", "clear"}, tok : Tokens, r : Runs \cup {None}]
      /\ cachedTokens' = NoTokens /\ cachedUser' = None /\ refreshTimer' = 0 /\ session' = None
      /\ pendingAuth' = None /\ storedTokens' \in Tokens /\ refused' \in BOOLEAN
      /\ ~refused' => ~refused /\ storedTokens' = NoTokens
      /\ storedTokens = NoTokens => storedTokens' = NoTokens
  BY ClearAuthEffect DEF RefreshRejected, Inv
<1>3. TypeOK'
  <2>1. NoTokens \in Tokens /\ 0 \in 0..Horizon
    BY TokenFields, HorizonNat
  <2> QED
    BY <1>2, <2>1 DEF Inv, RefreshRejected, TypeOK
<1>4. Threads'
  <2>1. r # None
    BY TokenFields
  <2> QED
    BY <1>1, <1>2, <2>1 DEF Inv, RefreshRejected, Threads, LoginThread, ClearThread
<1>5. /\ DownIsEmpty' /\ RunsHaveLogins' /\ OneRefresh' /\ SessionIsKept' /\ NothingLeft'
      /\ MemoryIsStored' /\ StoredIsOne' /\ UserComesLast' /\ RunIsCurrent' /\ AskedIsCurrent'
      /\ NextIsPlanned'
  <2>1. DownIsEmpty' /\ RunsHaveLogins' /\ OneRefresh'
    BY <1>1, <1>2 DEF Inv, RefreshRejected, vars, memory, store, history, DownIsEmpty,
         Refreshing, RunsHaveLogins, OneRefresh
  <2>2. SessionIsKept' /\ NothingLeft' /\ MemoryIsStored'
    BY <1>1, <1>2 DEF Inv, RefreshRejected, vars, memory, store, history, SessionIsKept,
         NothingLeft, Refreshing, MemoryIsStored
  <2>3. StoredIsOne' /\ UserComesLast' /\ RunIsCurrent'
    BY <1>1, <1>2 DEF Inv, RefreshRejected, vars, memory, store, history, StoredIsOne,
         OneLogin, UserComesLast, RunIsCurrent, Refreshing
  <2>4. AskedIsCurrent' /\ NextIsPlanned'
    BY <1>1, <1>2 DEF Inv, RefreshRejected, vars, memory, store, history, AskedIsCurrent,
         NextIsPlanned, Refreshing
  <2> QED
    BY <2>1, <2>2, <2>3, <2>4
<1> QED
  BY <1>3, <1>4, <1>5 DEF Inv

LEMMA RefreshGrantedStep ==
    ASSUME Inv, NEW r \in Runs, RefreshGranted(r)
    PROVE  Inv'
<1>1. phase # "down" /\ thread = NoThread /\ thread.job = "none"
  BY FreeThread DEF RefreshGranted
<1>2. /\ Refreshing = {r} /\ Refreshing' = {r} /\ run'[r].s = run[r].s /\ run[r].s \in Logins
      /\ RunsTypeOK'
  <2>1. r \in Refreshing /\ Refreshing = {r}
    BY DEF RefreshGranted, Refreshing, Inv, OneRefresh
  <2>2. run[r].s \in Logins
    BY <2>1 DEF Inv, RunsHaveLogins, TypeOK
  <2>3. run' = [run EXCEPT ![r].pc = "me"] /\ refreshPromise' = refreshPromise
    BY DEF RefreshGranted
  <2>4. RunsTypeOK' /\ run'[r].s = run[r].s /\ run'[r].pc = "me"
    BY <2>3 DEF Inv, TypeOK, RunsTypeOK
  <2>5. \A q \in Runs : q # r => run'[q] = run[q]
    BY <2>3 DEF Inv, TypeOK
  <2> QED
    BY <2>1, <2>2, <2>4, <2>5 DEF Refreshing
<1>3. /\ cachedTokens' \in Tokens /\ cachedTokens' # NoTokens /\ cachedTokens'.acc = run[r].s
      /\ cachedTokens'.ref \in {run[r].s, cachedTokens.ref}
      /\ storedTokens' \in Tokens /\ refused' \in BOOLEAN
      /\ ~refused' => ~refused /\ storedTokens' = cachedTokens'
      /\ storedTokens # NoTokens => storedTokens' # NoTokens
  <2>1. PICK l \in Lifetimes, ref \in {run[r].s, cachedTokens.ref} \ {None} :
           /\ Write(storedTokens, [acc |-> run[r].s, ref |-> ref, exp |-> now + l])
           /\ cachedTokens' = [acc |-> run[r].s, ref |-> ref, exp |-> now + l]
    BY DEF RefreshGranted
  <2> DEFINE t == [acc |-> run[r].s, ref |-> ref, exp |-> now + l]
  <2>2. now + l \in 0..Horizon
    BY HorizonBounds DEF Inv, TypeOK
  <2>3. ref \in Logins
    BY <1>2, TokenFields DEF Inv, TypeOK
  <2>4. t \in Tokens /\ t # NoTokens /\ t.acc = run[r].s /\ t.ref = ref
    BY <1>2, <2>2, <2>3, TokenFields
  <2>5. Write(storedTokens, t) /\ cachedTokens' = t
    BY <2>1
  <2> HIDE DEF t
  <2>6. /\ storedTokens' \in Tokens /\ refused' \in BOOLEAN
        /\ ~refused' => ~refused /\ storedTokens' = t
        /\ storedTokens # NoTokens => storedTokens' # NoTokens
    BY <2>4, <2>5 DEF Write, Inv, TypeOK
  <2> QED
    BY <2>4, <2>5, <2>6
<1>4. /\ UNCHANGED <<now, cachedUser, pendingAuth, refreshTimer, refreshPromise, storedUser, exchanging,
                  logout, phase, asked, thread, attempts, session, out, troubled, crossed>>
  BY DEF RefreshGranted
<1>5. ~crossed => cachedTokens # NoTokens /\ cachedTokens.ref = run[r].s
  BY <1>1, <1>2 DEF Inv, RunIsCurrent
<1>6. ~refused /\ ~crossed =>
      /\ OneLogin(cachedTokens, storedUser)
      /\ phase # "restoreRefresh" => cachedUser = storedUser
  BY <1>1, <1>5 DEF Inv, MemoryIsStored, StoredIsOne
<1>7. TypeOK'
  BY <1>2, <1>3, <1>4 DEF Inv, TypeOK, RunsTypeOK
<1>8. Threads'
  BY <1>1, <1>4 DEF Threads, LoginThread, ClearThread
<1>9. DownIsEmpty'
  BY <1>1, <1>4 DEF DownIsEmpty
<1>10. RunsHaveLogins'
  BY <1>2, TokenFields DEF RunsHaveLogins
<1>11. OneRefresh'
  BY <1>2, <1>4 DEF Inv, OneRefresh
<1>12. SessionIsKept'
  BY <1>1, <1>3, <1>4 DEF Inv, SessionIsKept
<1>13. NothingLeft'
  BY <1>2, <1>3, <1>4 DEF Inv, NothingLeft
<1>14. MemoryIsStored'
  BY <1>1, <1>2, <1>3, <1>4 DEF Inv, MemoryIsStored
<1>15. StoredIsOne'
  BY <1>3, <1>4, <1>5, <1>6 DEF StoredIsOne, OneLogin
<1>16. UserComesLast'
  BY <1>4 DEF Inv, UserComesLast
<1>17. RunIsCurrent'
  BY <1>2, <1>3, <1>4, <1>5 DEF RunIsCurrent
<1>18. AskedIsCurrent'
  BY <1>1, <1>3, <1>4, <1>5, <1>6 DEF Inv, AskedIsCurrent, OneLogin
<1>19. NextIsPlanned'
  BY <1>2, <1>4 DEF NextIsPlanned
<1> QED
  BY <1>7, <1>8, <1>9, <1>10, <1>11, <1>12, <1>13, <1>14, <1>15, <1>16, <1>17, <1>18, <1>19 DEF
       Inv

LEMMA MeAnsweredStep ==
    ASSUME Inv, NEW r \in Runs, MeAnswered(r)
    PROVE  Inv'
<1>1. phase # "down" /\ thread = NoThread /\ thread.job = "none"
  BY FreeThread DEF MeAnswered
<1>2. /\ RunsTypeOK' /\ OneRefresh' /\ RunsHaveLogins'
      /\ Refreshing' = {} /\ Refreshing = {r}
      /\ run[r].s \in Logins /\ run[r].s # None
  <2>1. run[r].pc # "idle" /\ Settle(r)
    BY DEF MeAnswered
  <2>2. r \in Refreshing
    BY <2>1 DEF Refreshing
  <2>3. run[r].s \in Logins /\ run[r].s # None
    BY <2>2 DEF Inv, RunsHaveLogins, TypeOK
  <2> QED
    BY <2>1, <2>3, SettleInv DEF Inv
<1>3. /\ refreshTimer' \in 0..Horizon /\ troubled' \in BOOLEAN
      /\ cachedTokens # NoTokens /\ ~troubled' => refreshTimer' # 0
  <2>1. cachedTokens \in Tokens /\ TypeOK
    BY DEF Inv, TypeOK
  <2>2. /\ refreshTimer' = Schedule(cachedTokens).timer
        /\ troubled' = (troubled \/ DueNow(cachedTokens))
    BY DEF MeAnswered
  <2>3. troubled' \in BOOLEAN /\ (~troubled' => ~DueNow(cachedTokens))
    BY <2>2 DEF Inv, TypeOK
  <2> QED
    BY <2>1, <2>2, <2>3, ScheduleTimer
<1>4. /\ cachedTokens = NoTokens => refreshTimer' = 0
  BY DEF MeAnswered, Schedule, RefreshTokens
<1>5. /\ UNCHANGED <<now, cachedTokens, pendingAuth, storedTokens, exchanging, logout, phase, asked,
                  thread, attempts, session, out, crossed>>
      /\ \/ UNCHANGED <<cachedUser, storedUser, refused>>
         \/ cachedUser # None /\ cachedUser' = run[r].s /\ Write(storedUser, run[r].s)
  BY DEF MeAnswered
<1>6. /\ cachedUser' \in Logins \cup {None} /\ storedUser' \in Logins \cup {None}
      /\ refused' \in BOOLEAN
      /\ ~refused' => ~refused
      /\ storedUser # None => storedUser' # None
      /\ cachedUser = None <=> cachedUser' = None
      /\ ~refused' => \/ cachedUser' = cachedUser /\ storedUser' = storedUser
                      \/ cachedUser # None /\ cachedUser' = run[r].s /\ storedUser' = run[r].s
  <2>1. CASE UNCHANGED <<cachedUser, storedUser, refused>>
    <3>1. /\ cachedUser \in Logins \cup {None} /\ storedUser \in Logins \cup {None}
          /\ refused \in BOOLEAN
      BY DEF Inv, TypeOK
    <3>2. cachedUser' = cachedUser /\ storedUser' = storedUser
      BY <2>1
    <3>3. refused' \in BOOLEAN /\ (~refused' => ~refused)
      BY <2>1, <3>1
    <3> QED
      BY <3>1, <3>2, <3>3
  <2>2. CASE cachedUser # None /\ cachedUser' = run[r].s /\ Write(storedUser, run[r].s)
    <3>1. TypeOK /\ run[r].s \in Logins \cup {None}
      BY <1>2 DEF Inv
    <3>2. /\ storedUser' \in Logins \cup {None} /\ refused' \in BOOLEAN
          /\ ~refused' => ~refused /\ storedUser' = run[r].s
          /\ storedUser # None => storedUser' # None
      BY <1>2, <2>2, <3>1 DEF Write, TypeOK
    <3> QED
      BY <1>2, <2>2, <3>2
  <2> QED
    BY <1>5, <2>1, <2>2
<1>7. ~crossed => cachedTokens # NoTokens /\ cachedTokens.ref = run[r].s
  BY <1>1, <1>2 DEF Inv, RunIsCurrent
<1>8. ~refused => cachedTokens = storedTokens
  BY <1>1 DEF Inv, MemoryIsStored
<1>9. TypeOK'
  BY <1>2, <1>3, <1>5, <1>6 DEF Inv, TypeOK, RunsTypeOK
<1>10. Threads'
  BY <1>1, <1>5 DEF Threads, LoginThread, ClearThread
<1>11. DownIsEmpty'
  BY <1>1, <1>5 DEF DownIsEmpty
<1>12. RunsHaveLogins'
  BY <1>2
<1>13. OneRefresh'
  BY <1>2
<1>14. SessionIsKept'
  BY <1>1, <1>5, <1>6 DEF Inv, SessionIsKept
<1>15. NothingLeft'
  BY <1>2, <1>5, <1>6 DEF Inv, NothingLeft
<1>16. MemoryIsStored'
  BY <1>1, <1>2, <1>5, <1>6 DEF Inv, MemoryIsStored, UserComesLast
<1>17. StoredIsOne'
  BY <1>1, <1>5, <1>6, <1>7, <1>8 DEF Inv, StoredIsOne, OneLogin
<1>18. UserComesLast'
  BY <1>5, <1>6 DEF Inv, UserComesLast
<1>19. RunIsCurrent'
  BY <1>2 DEF RunIsCurrent
<1>20. AskedIsCurrent'
  BY <1>5, <1>6 DEF Inv, AskedIsCurrent
<1>21. NextIsPlanned'
  BY <1>1, <1>3, <1>5, <1>6 DEF Inv, NextIsPlanned, SessionIsKept
<1> QED
  BY <1>9, <1>10, <1>11, <1>12, <1>13, <1>14, <1>15, <1>16, <1>17, <1>18, <1>19, <1>20, <1>21
       DEF Inv

-----------------------------------------------------------------------------
(* The process *)

\* Tokens that can be used are loaded: at a start, or once they were refreshed.

LEMMA LoadUserStep ==
    ASSUME Inv, thread = NoThread, Refreshing = {}, NEW tokens \in Tokens, tokens # NoTokens,
           ~refused => tokens = storedTokens, LoadUser(tokens),
           UNCHANGED <<now, store, pendingAuth, exchanging, logout, thread, history>>
    PROVE  Inv'
<1>1. /\ UNCHANGED <<now, storedTokens, storedUser, pendingAuth, exchanging, logout, thread, attempts,
                  session, out, refused, troubled, crossed>>
      /\ thread'.job = "none" /\ thread' = NoThread
  BY FreeThread DEF store, history
<1>2. /\ cachedTokens' = tokens /\ cachedUser' = storedUser /\ tokens.acc \in Logins
  BY TokenFields DEF LoadUser
<1>3. /\ RunsTypeOK' /\ OneRefresh' /\ RunsHaveLogins' /\ refreshTimer' \in 0..Horizon
      /\ \A r \in Refreshing' : run'[r].s = tokens.ref
      /\ phase' = "up" => refreshTimer' # 0 \/ Refreshing' # {}
  <2>1. CASE storedUser = None
    <3>1. phase' = "restoreUser" /\ UNCHANGED <<refreshTimer, refreshPromise, run>>
      BY <2>1 DEF LoadUser
    <3> QED
      BY <3>1 DEF Inv, TypeOK, RunsTypeOK, OneRefresh, RunsHaveLogins, Refreshing
  <2>2. CASE storedUser # None
    <3>1. Becomes(Schedule(tokens))
      BY <2>2 DEF LoadUser
    <3> QED
      BY <3>1, ScheduleEffect DEF Inv, Asked
  <2> QED
    BY <2>1, <2>2
<1>4. /\ phase' \in {"restoreUser", "up"} /\ asked' \in Logins \cup {None}
      /\ phase' = "restoreUser" <=> storedUser = None
      /\ phase' = "restoreUser" => asked' = tokens.acc
  BY <1>2 DEF LoadUser
<1>5. TypeOK'
  BY <1>1, <1>2, <1>3, <1>4 DEF Inv, TypeOK, RunsTypeOK
<1>6. Threads'
  BY <1>1 DEF Threads, LoginThread, ClearThread
<1>7. DownIsEmpty'
  BY <1>4 DEF DownIsEmpty
<1>8. RunsHaveLogins'
  BY <1>3
<1>9. OneRefresh'
  BY <1>3
<1>10. SessionIsKept'
  BY <1>1, <1>2, <1>4 DEF Inv, SessionIsKept
<1>11. NothingLeft'
  BY <1>1, <1>2, <1>3 DEF Inv, NothingLeft
<1>12. MemoryIsStored'
  BY <1>1, <1>2 DEF MemoryIsStored
<1>13. StoredIsOne'
  BY <1>1, <1>2 DEF Inv, StoredIsOne
<1>14. UserComesLast'
  BY <1>4 DEF UserComesLast
<1>15. RunIsCurrent'
  BY <1>2, <1>3 DEF RunIsCurrent
<1>16. AskedIsCurrent'
  BY <1>2, <1>4 DEF AskedIsCurrent
<1>17. NextIsPlanned'
  BY <1>3, <1>4 DEF NextIsPlanned
<1> QED
  BY <1>5, <1>6, <1>7, <1>8, <1>9, <1>10, <1>11, <1>12, <1>13, <1>14, <1>15, <1>16, <1>17 DEF
       Inv

\* Nothing was stored, or the refresh on the way up was rejected: up without a session.
LEMMA UpWithoutSession ==
    ASSUME Inv, thread = NoThread, Refreshing = {}, cachedTokens = NoTokens,
           ~refused => storedTokens = NoTokens,
           phase' = "up", UNCHANGED <<now, memory, store, exchanging, logout, asked, thread, history>>
    PROVE  Inv'
<1>1. /\ UNCHANGED <<now, cachedTokens, cachedUser, pendingAuth, refreshTimer, refreshPromise, run>>
      /\ UNCHANGED <<storedTokens, storedUser, exchanging, logout, asked, thread>>
      /\ UNCHANGED <<attempts, session, out, refused, troubled, crossed>>
      /\ thread.job = "none" /\ Refreshing' = {}
  BY FreeThread DEF memory, store, history, Refreshing
<1>2. TypeOK'
  BY <1>1 DEF Inv, TypeOK
<1>3. Threads'
  BY <1>1 DEF Inv, Threads, LoginThread, ClearThread
<1>4. DownIsEmpty'
  BY DEF DownIsEmpty
<1>5. RunsHaveLogins'
  BY <1>1 DEF RunsHaveLogins
<1>6. OneRefresh'
  BY <1>1 DEF Inv, OneRefresh
<1>7. SessionIsKept'
  BY <1>1 DEF Inv, SessionIsKept
<1>8. NothingLeft'
  BY <1>1 DEF Inv, NothingLeft
<1>9. MemoryIsStored'
  BY <1>1 DEF MemoryIsStored
<1>10. StoredIsOne'
  BY <1>1 DEF Inv, StoredIsOne
<1>11. UserComesLast'
  BY DEF UserComesLast
<1>12. RunIsCurrent'
  BY <1>1 DEF RunIsCurrent
<1>13. AskedIsCurrent'
  BY DEF AskedIsCurrent
<1>14. NextIsPlanned'
  BY <1>1 DEF Inv, NextIsPlanned, SessionIsKept
<1> QED
  BY <1>2, <1>3, <1>4, <1>5, <1>6, <1>7, <1>8, <1>9, <1>10, <1>11, <1>12, <1>13, <1>14 DEF Inv

\* Expired tokens are refreshed first.
LEMMA ExpiredAtStart ==
    ASSUME Inv, Restart, storedTokens # NoTokens, storedTokens.exp < now
    PROVE  Inv'
<1>1. /\ phase = "down" /\ thread = NoThread /\ thread.job = "none" /\ Refreshing = {}
      /\ cachedUser = None
  BY FreeThread DEF Restart, Inv, DownIsEmpty
<1>2. /\ cachedTokens' = storedTokens /\ phase' = "restoreRefresh"
      /\ UNCHANGED <<now, cachedUser, pendingAuth, asked, storedTokens, storedUser, exchanging, logout,
                     thread, attempts, session, out, refused, troubled, crossed>>
  BY DEF Restart, store, history
<1>3. /\ RunsTypeOK' /\ OneRefresh' /\ RunsHaveLogins' /\ refreshTimer' \in 0..Horizon
      /\ \A r \in Refreshing' : run'[r].s = storedTokens.ref
  <2>1. Becomes(RefreshTokens(storedTokens, 0)) /\ storedTokens \in Tokens
    BY DEF Restart, Inv, TypeOK
  <2> QED
    BY <1>1, <2>1, RefreshEffect, HorizonNat DEF Inv, Asked
<1>4. TypeOK'
  BY <1>1, <1>2, <1>3 DEF Inv, TypeOK, RunsTypeOK
<1>5. Threads'
  BY <1>1, <1>2 DEF Threads, LoginThread, ClearThread
<1>6. DownIsEmpty'
  BY <1>2 DEF DownIsEmpty
<1>7. RunsHaveLogins'
  BY <1>3
<1>8. OneRefresh'
  BY <1>3
<1>9. SessionIsKept'
  BY <1>2 DEF Inv, SessionIsKept
<1>10. NothingLeft'
  BY <1>2 DEF Inv, NothingLeft
<1>11. MemoryIsStored'
  BY <1>2 DEF MemoryIsStored
<1>12. StoredIsOne'
  BY <1>1, <1>2 DEF Inv, StoredIsOne
<1>13. UserComesLast'
  BY <1>1, <1>2 DEF UserComesLast
<1>14. RunIsCurrent'
  BY <1>2, <1>3 DEF RunIsCurrent
<1>15. AskedIsCurrent'
  BY <1>2 DEF AskedIsCurrent
<1>16. NextIsPlanned'
  BY <1>2 DEF NextIsPlanned
<1> QED
  BY <1>4, <1>5, <1>6, <1>7, <1>8, <1>9, <1>10, <1>11, <1>12, <1>13, <1>14, <1>15, <1>16 DEF
       Inv

LEMMA RestartStep ==
    ASSUME Inv, Restart
    PROVE  Inv'
<1>1. /\ phase = "down" /\ thread = NoThread /\ Refreshing = {} /\ cachedTokens = NoTokens
      /\ storedTokens \in Tokens
      /\ UNCHANGED <<now, store, exchanging, logout, thread, history>>
  BY DEF Restart, Inv, DownIsEmpty, TypeOK
<1>2. CASE storedTokens = NoTokens
  <2>1. phase' = "up" /\ UNCHANGED <<memory, asked>>
    BY <1>2 DEF Restart
  <2> QED
    BY <1>1, <1>2, <2>1, UpWithoutSession
<1>3. CASE storedTokens # NoTokens /\ storedTokens.exp < now
  BY <1>3, ExpiredAtStart
<1>4. CASE storedTokens # NoTokens /\ ~(storedTokens.exp < now)
  <2>1. LoadUser(storedTokens) /\ UNCHANGED pendingAuth
    BY <1>4 DEF Restart
  <2> QED
    BY <1>1, <1>4, <2>1, LoadUserStep
<1> QED
  BY <1>2, <1>3, <1>4

LEMMA RestoreResumeStep ==
    ASSUME Inv, RestoreResume
    PROVE  Inv'
<1>1. /\ phase = "restoreRefresh" /\ thread = NoThread /\ thread.job = "none" /\ Refreshing = {}
      /\ cachedTokens \in Tokens
      /\ UNCHANGED <<now, store, exchanging, logout, thread, history>>
  BY FreeThread DEF RestoreResume, Resuming, Inv, OneRefresh, TypeOK
<1>2. ~refused => cachedTokens = storedTokens
  BY <1>1 DEF Inv, MemoryIsStored
<1>3. CASE cachedTokens = NoTokens
  <2>1. phase' = "up" /\ UNCHANGED <<memory, asked>>
    BY <1>3 DEF RestoreResume
  <2> QED
    BY <1>1, <1>2, <1>3, <2>1, UpWithoutSession
<1>4. CASE cachedTokens # NoTokens
  <2>1. LoadUser(cachedTokens) /\ UNCHANGED pendingAuth
    BY <1>4 DEF RestoreResume
  <2> QED
    BY <1>1, <1>2, <1>4, <2>1, LoadUserStep
<1> QED
  BY <1>3, <1>4

LEMMA RestoreUserAnsweredStep ==
    ASSUME Inv, RestoreUserAnswered
    PROVE  Inv'
<1>1. phase = "restoreUser" /\ thread = NoThread /\ thread.job = "none"
  BY FreeThread DEF RestoreUserAnswered
<1>2. /\ RunsTypeOK' /\ OneRefresh' /\ RunsHaveLogins' /\ Asked(cachedTokens)
      /\ refreshTimer' \in 0..Horizon
      /\ cachedTokens # NoTokens => refreshTimer' # 0 \/ Refreshing' # {}
      /\ cachedTokens = NoTokens => refreshTimer' = 0 /\ RunKept
  BY ScheduleEffect DEF RestoreUserAnswered, Inv, TypeOK
<1>3. /\ UNCHANGED <<now, cachedTokens, pendingAuth, storedTokens, exchanging, logout, thread, attempts,
                  session, out, troubled, crossed>>
      /\ phase' = "up" /\ asked' = None
      /\ \/ UNCHANGED <<cachedUser, storedUser, refused>>
         \/ cachedUser' = asked /\ Write(storedUser, asked)
  BY DEF RestoreUserAnswered
<1>4. /\ cachedUser' \in Logins \cup {None} /\ storedUser' \in Logins \cup {None}
      /\ refused' \in BOOLEAN
      /\ ~refused' => /\ ~refused
                      /\ \/ UNCHANGED <<cachedUser, storedUser>>
                         \/ cachedUser' = asked /\ storedUser' = asked
  BY <1>3 DEF Write, Inv, TypeOK
<1>5. ~refused => cachedTokens = storedTokens /\ session = None
  BY <1>1 DEF Inv, MemoryIsStored, SessionIsKept
<1>6. TypeOK'
  BY <1>2, <1>3, <1>4 DEF Inv, TypeOK, RunsTypeOK
<1>7. Threads'
  BY <1>1, <1>3 DEF Threads, LoginThread, ClearThread
<1>8. DownIsEmpty'
  BY <1>3 DEF DownIsEmpty
<1>9. RunsHaveLogins'
  BY <1>2
<1>10. OneRefresh'
  BY <1>2
<1>11. SessionIsKept'
  BY <1>3, <1>4, <1>5 DEF SessionIsKept
<1>12. NothingLeft'
  BY <1>2, <1>3, <1>4 DEF Inv, NothingLeft, RunKept, Asked
<1>13. MemoryIsStored'
  BY <1>1, <1>2, <1>3, <1>4 DEF Inv, MemoryIsStored, Asked
<1>14. StoredIsOne'
  BY <1>1, <1>3, <1>4, <1>5 DEF Inv, StoredIsOne, OneLogin, AskedIsCurrent
<1>15. UserComesLast'
  BY <1>3 DEF UserComesLast
<1>16. RunIsCurrent'
  BY <1>1, <1>2, <1>3 DEF Inv, RunIsCurrent, Asked, RunKept
<1>17. AskedIsCurrent'
  BY <1>3 DEF AskedIsCurrent
<1>18. NextIsPlanned'
  BY <1>3, <1>4, <1>5 DEF NextIsPlanned
<1> QED
  BY <1>6, <1>7, <1>8, <1>9, <1>10, <1>11, <1>12, <1>13, <1>14, <1>15, <1>16, <1>17, <1>18 DEF
       Inv

LEMMA TickStep ==
    ASSUME Inv, Tick
    PROVE  Inv'
<1>1. TypeOK'
  <2>1. now' \in 0..MaxTime
    BY ConstantsAssumption DEF Tick, Inv, TypeOK
  <2>2. UNCHANGED <<memory, store, exchanging, logout, phase, asked, thread, history>>
    BY DEF Tick
  <2> QED
    BY <2>1, <2>2 DEF Inv, TypeOK, memory, store, history
<1>2. /\ Threads' /\ DownIsEmpty' /\ RunsHaveLogins' /\ OneRefresh' /\ SessionIsKept'
      /\ NothingLeft' /\ MemoryIsStored' /\ StoredIsOne' /\ UserComesLast' /\ RunIsCurrent'
      /\ AskedIsCurrent' /\ NextIsPlanned'
  <2>1. Threads' /\ DownIsEmpty' /\ RunsHaveLogins'
    BY DEF Inv, Tick, vars, memory, store, history, Threads, LoginThread, ClearThread,
         Refreshing, DownIsEmpty, RunsHaveLogins
  <2>2. OneRefresh' /\ SessionIsKept' /\ NothingLeft'
    BY DEF Inv, Tick, vars, memory, store, history, OneRefresh, Refreshing, SessionIsKept,
         NothingLeft
  <2>3. MemoryIsStored' /\ StoredIsOne' /\ UserComesLast'
    BY DEF Inv, Tick, vars, memory, store, history, MemoryIsStored, Refreshing, StoredIsOne,
         OneLogin, UserComesLast
  <2>4. RunIsCurrent' /\ AskedIsCurrent' /\ NextIsPlanned'
    BY DEF Inv, Tick, vars, memory, store, history, RunIsCurrent, Refreshing, AskedIsCurrent,
         NextIsPlanned
  <2> QED
    BY <2>1, <2>2, <2>3, <2>4
<1> QED
  BY <1>1, <1>2 DEF Inv

LEMMA CrashStep ==
    ASSUME Inv, Crash
    PROVE  Inv'
<1>1. /\ phase' = "down" /\ asked' = None /\ thread' = NoThread /\ thread'.job = "none"
      /\ cachedTokens' = NoTokens /\ cachedUser' = None /\ pendingAuth' = None
      /\ refreshTimer' = 0 /\ refreshPromise' = None /\ exchanging' = {} /\ logout' = "idle"
      /\ UNCHANGED <<now, storedTokens, storedUser, attempts, session, out, refused, troubled>>
  BY FreeThread DEF Crash, store
<1>2. run' \in [Runs -> [pc : {"idle", "fetch", "me"}, s : Logins \cup {None}]] /\ Refreshing' = {}
  <2>1. IdleRun \in [pc : {"idle", "fetch", "me"}, s : Logins \cup {None}] /\ IdleRun.pc = "idle"
    BY DEF IdleRun
  <2>2. run' = [r \in Runs |-> IdleRun]
    BY DEF Crash
  <2> QED
    BY <2>1, <2>2 DEF Refreshing
<1>3. crossed' \in BOOLEAN /\ (~crossed' => ~crossed /\ thread = NoThread /\ thread.job = "none")
  BY FreeThread DEF Crash, Inv, TypeOK
<1>4. TypeOK'
  BY <1>1, <1>2, <1>3, FreeThread, TokenFields, HorizonNat DEF Inv, TypeOK
<1>5. Threads'
  BY <1>1 DEF Threads, LoginThread, ClearThread
<1>6. DownIsEmpty'
  BY <1>1, <1>2 DEF DownIsEmpty
<1>7. RunsHaveLogins'
  BY <1>2 DEF RunsHaveLogins
<1>8. OneRefresh'
  BY <1>1, <1>2 DEF OneRefresh
<1>9. SessionIsKept'
  BY <1>1 DEF Inv, SessionIsKept
<1>10. NothingLeft'
  BY <1>1, <1>2, <1>3 DEF Inv, NothingLeft
<1>11. MemoryIsStored'
  BY <1>1 DEF MemoryIsStored
<1>12. StoredIsOne'
  BY <1>1, <1>3 DEF Inv, StoredIsOne
<1>13. UserComesLast'
  BY <1>1 DEF UserComesLast
<1>14. RunIsCurrent'
  BY <1>2 DEF RunIsCurrent
<1>15. AskedIsCurrent'
  BY <1>1 DEF AskedIsCurrent
<1>16. NextIsPlanned'
  BY <1>1 DEF NextIsPlanned
<1> QED
  BY <1>4, <1>5, <1>6, <1>7, <1>8, <1>9, <1>10, <1>11, <1>12, <1>13, <1>14, <1>15, <1>16 DEF
       Inv

LEMMA StutterStep ==
    ASSUME Inv, UNCHANGED vars
    PROVE  Inv'
<1>1. /\ TypeOK' /\ Threads' /\ DownIsEmpty' /\ RunsHaveLogins' /\ OneRefresh' /\ SessionIsKept'
      /\ NothingLeft' /\ MemoryIsStored' /\ StoredIsOne' /\ UserComesLast' /\ RunIsCurrent'
      /\ AskedIsCurrent' /\ NextIsPlanned'
  <2>1. TypeOK' /\ Threads' /\ DownIsEmpty'
    BY DEF Inv, vars, memory, store, history, TypeOK, Threads, LoginThread, ClearThread,
         Refreshing, DownIsEmpty
  <2>2. RunsHaveLogins' /\ OneRefresh' /\ SessionIsKept'
    BY DEF Inv, vars, memory, store, history, RunsHaveLogins, Refreshing, OneRefresh,
         SessionIsKept
  <2>3. NothingLeft' /\ MemoryIsStored' /\ StoredIsOne'
    BY DEF Inv, vars, memory, store, history, NothingLeft, Refreshing, MemoryIsStored,
         StoredIsOne, OneLogin
  <2>4. UserComesLast' /\ RunIsCurrent' /\ AskedIsCurrent'
    BY DEF Inv, vars, memory, store, history, UserComesLast, RunIsCurrent, Refreshing,
         AskedIsCurrent
  <2>5. NextIsPlanned'
    BY DEF Inv, vars, memory, store, history, NextIsPlanned, Refreshing
  <2> QED
    BY <2>1, <2>2, <2>3, <2>4, <2>5
<1> QED
  BY <1>1 DEF Inv

-----------------------------------------------------------------------------
(* The theorems *)

LEMMA InitInv == Init => Inv
<1> SUFFICES ASSUME Init PROVE Inv
  OBVIOUS
<1>1. run \in [Runs -> [pc : {"idle", "fetch", "me"}, s : Logins \cup {None}]] /\ Refreshing = {}
  <2>1. IdleRun \in [pc : {"idle", "fetch", "me"}, s : Logins \cup {None}] /\ IdleRun.pc = "idle"
    BY DEF IdleRun
  <2> QED
    BY <2>1 DEF Init, Refreshing
<1>2. TypeOK
  <2>1. NoTokens \in Tokens /\ 0 \in 0..Horizon /\ 0 \in 0..MaxTime /\ 0 \in 0..MaxLogins
    BY TokenFields, HorizonNat, ConstantsAssumption
  <2>2. thread \in [job : {"none", "login", "clear"}, tok : Tokens, r : Runs \cup {None}]
    BY FreeThread DEF Init
  <2> QED
    BY <1>1, <2>1, <2>2 DEF Init, TypeOK
<1>3. Threads
  BY FreeThread DEF Init, Threads, LoginThread, ClearThread
<1>4. DownIsEmpty /\ RunsHaveLogins /\ OneRefresh
  BY <1>1 DEF Init, DownIsEmpty, RunsHaveLogins, OneRefresh
<1>5. SessionIsKept /\ NothingLeft /\ MemoryIsStored /\ StoredIsOne /\ UserComesLast
  BY <1>1 DEF Init, SessionIsKept, NothingLeft, MemoryIsStored, StoredIsOne, OneLogin, UserComesLast
<1>6. RunIsCurrent /\ AskedIsCurrent /\ NextIsPlanned
  BY <1>1 DEF Init, RunIsCurrent, AskedIsCurrent, NextIsPlanned
<1> QED
  BY <1>2, <1>3, <1>4, <1>5, <1>6 DEF Inv

LEMMA StepInv == Inv /\ [Next]_vars => Inv'
<1> SUFFICES ASSUME Inv, [Next]_vars PROVE Inv'
  OBVIOUS
<1>1. CASE InitiateLogin \/ CallbackRefused \/ CallbackAccepted \/ InlineLogin
  BY <1>1, InitiateLoginStep, CallbackRefusedStep, CallbackAcceptedStep, InlineLoginStep
<1>2. ASSUME NEW s \in Logins, ExchangeFails(s) \/ ExchangeDone(s) PROVE Inv'
  BY <1>2, ExchangeFailsStep, ExchangeDoneStep
<1>3. CASE LogoutStart \/ LogoutClear \/ RequestRefresh \/ TimerFires
  BY <1>3, LogoutStartStep, LogoutClearStep, RequestRefreshStep, TimerFiresStep
<1>4. ASSUME NEW r \in Runs, RefreshAnswered(r) \/ MeAnswered(r) PROVE Inv'
  BY <1>4, RefreshFailsStep, RefreshRejectedStep, RefreshGrantedStep, MeAnsweredStep
     DEF RefreshAnswered
<1>5. CASE Restart \/ RestoreUserAnswered \/ RestoreResume \/ LoginFinish \/ ClearFinish
  BY <1>5, RestartStep, RestoreUserAnsweredStep, RestoreResumeStep, LoginFinishStep, ClearFinishStep
<1>6. CASE Tick \/ Crash \/ UNCHANGED vars
  BY <1>6, TickStep, CrashStep, StutterStep
<1> QED
  BY <1>1, <1>2, <1>3, <1>4, <1>5, <1>6 DEF Next

LEMMA Invariant == Spec => []Inv
BY InitInv, StepInv, PTL DEF Spec

\* However timers, windows, answers, logins and restarts interleave, at most one refresh is in
\* flight, and it is the one whose promise every other caller of refreshTokens() joins.
THEOREM RefreshIsShared == Spec => []OneRefresh
<1>1. Inv => OneRefresh
  BY DEF Inv
<1> QED
  BY <1>1, Invariant, PTL

\* A session that neither its user nor the server ended survives failed refreshes and restarts,
\* and after a logout that met no refresh nothing is left that would bring it back.
THEOREM SessionEndsWhenAsked == Spec => []SessionIsWanted
<1>1. Inv => SessionIsWanted
  BY DEF Inv, SessionIsWanted, AtRest, SessionIsKept, NothingLeft
<1> QED
  BY <1>1, Invariant, PTL

\* At rest the tokens and the user in memory are those the next start would restore, and they
\* are of one login unless a session changed under a request or a crash split a row of writes.
THEOREM MemoryAgreesWithStore == Spec => []Consistent
<1>1. Inv /\ AtRest => thread.job = "none"
  BY FreeThread DEF AtRest
<1>2. Inv => Consistent
  BY <1>1 DEF Inv, Consistent, AtRest, MemoryIsStored, StoredIsOne, OneLogin
<1> QED
  BY <1>2, Invariant, PTL

\* While a session lasts, and no refresh failed or was granted less than the buffer, its next
\* refresh is planned or in flight, across restarts too.
THEOREM SessionIsRefreshed == Spec => []RefreshPlanned
<1>1. Inv => RefreshPlanned
  BY DEF Inv, RefreshPlanned, AtRest, NextIsPlanned
<1> QED
  BY <1>1, Invariant, PTL
=============================================================================
