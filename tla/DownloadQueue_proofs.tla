------------------------ MODULE DownloadQueue_proofs ------------------------
(***************************************************************************)
(* Theorems about the download queue, for any callers, series, priorities, *)
(* limits and numbers of tasks and restarts, and about the data cache that *)
(* its downloads fill, for any calendar, provider, callers and requests.   *)
(***************************************************************************)
EXTENDS DownloadQueue, DataCache, TLAPS, FiniteSetTheorems, WellFoundedInduction

\* Tasks are numbered as created: the fields of one that does not exist yet
\* are as Init leaves them.
Fresh(t) ==
    /\ t \notin tasks
    /\ exec[t] = "none"
    /\ retry[t] = 0
    /\ subs[t] = NoSubs
    /\ NoRow(row[t])
Numbered == \A t \in Ids : t > ntask => Fresh(t)

\* What may still be downloaded has not failed too often.
Retried ==
    \A t \in Ids : (t \in tasks /\ status[t] \in Live) \/ exec[t] \in Executing
                     => retry[t] < MAX_TASK_RETRIES

\* The cached effectivePriority is that of the subscribers.
Ranked == \A t \in tasks : prio[t] = Recalculated(subs[t])

\* What runs is in the Map, with a controller that cancel finds: only clearAll
\* empties the Map under a download.
Mapped ==
    \A t \in Ids : exec[t] \in Executing =>
      t \in tasks /\ status[t] = "downloading" /\ signal[t] # "null"

\* One live task per series.
LiveTask(t) == t \in tasks /\ status[t] \in Live
Alone == \A t, u \in Ids : LiveTask(t) /\ LiveTask(u) /\ key[t] = key[u] => t = u

\* Whoever waits subscribes to a live task.
Awaited(r) == \E t \in Ids, c \in Callers : LiveTask(t) /\ subs[t][c].req = r
Heard == \A r \in Reqs : answer[r] = "waiting" => Awaited(r)

\* The slots are counted as they are used, and what waits beside a free one
\* is about to be started by a callback that is due.
Counted == activeCount = Cardinality(Downloading) + due
Served == activeCount >= MAX_CONCURRENT \/ Cardinality(Waiting) <= due

-----------------------------------------------------------------------------
(* The operators.                                                          *)

LEMMA NoSubsTyped == NoSub \in Subs /\ NoSubs \in [Callers -> Subs]
  BY ConstantsAssumption DEF NoSub, NoSubs, Subs

LEMMA GoneTyped == Gone \in Rows /\ NoRow(Gone)
  BY ConstantsAssumption DEF Gone, Rows, Status, Live, Waitable, NoRow

\* A set of naturals has a least element.
LEMMA LeastNatural ==
  ASSUME NEW T \in SUBSET Nat, T # {}
  PROVE  \E x \in T : \A y \in T : x <= y
<1>1. PICK x \in T : \A y \in T : ~(<<y, x>> \in OpToRel(<, Nat))
  BY NatLessThanWellFounded, WFMin
<1>2. \A y \in T : ~(y < x)
  BY <1>1 DEF OpToRel
<1> QED
  BY <1>2

LEMMA RankTyped ==
  ASSUME TypeOK, NEW p \in 1..3, NEW t \in Ids
  PROVE  RankOf(p, t) \in 1..3
<1>1. boost[t] \in 0..2
  BY DEF TypeOK
<1> QED
  BY <1>1 DEF RankOf, AtMost3

\* A waiting task of the highest rank exists, and the oldest of those.
LEMMA PickedIs ==
  ASSUME TypeOK, NEW ps \in [Ids -> 1..3], NEW W \in SUBSET Ids, W # {}
  PROVE  /\ Picked(W, ps) \in W
         /\ \A u \in W : RankOf(ps[u], u) <= RankOf(ps[Picked(W, ps)], Picked(W, ps))
<1> DEFINE r(t) == RankOf(ps[t], t)
<1>1. \A t \in W : r(t) \in 1..3
  BY RankTyped
<1> HIDE DEF r
<1> DEFINE below == {3 - r(t) : t \in W}
<1>2. below \in SUBSET Nat /\ below # {}
  BY <1>1
<1>3. PICK m \in below : \A n \in below : m <= n
  BY <1>2, LeastNatural
<1> DEFINE best == {t \in W : 3 - r(t) = m}
<1>4. best \in SUBSET Nat /\ best # {}
  <2>1. W \subseteq Nat
    BY DEF Ids
  <2>2. PICK t \in W : m = 3 - r(t)
    BY <1>3
  <2> QED
    BY <2>1, <2>2
<1>5. PICK t \in best : \A u \in best : t <= u
  BY <1>4, LeastNatural
<1>6. t \in W /\ \A u \in W : r(u) <= r(t)
  BY <1>1, <1>3, <1>5
<1>7. \A u \in W \ {t} : r(t) > r(u) \/ (r(t) = r(u) /\ t < u)
  <2> TAKE u \in W \ {t}
  <2>1. CASE u \in best
    <3>1. t \in Nat /\ u \in Nat /\ t # u /\ t <= u
      BY <1>4, <1>5, <2>1
    <3>2. r(t) = r(u)
      BY <1>1, <1>6, <2>1, <1>5
    <3> QED
      BY <3>1, <3>2
  <2>2. CASE u \notin best
    <3>1. r(u) # r(t)
      BY <1>5, <2>2
    <3> QED
      BY <1>1, <1>6, <3>1
  <2> QED
    BY <2>1, <2>2
<1>8. /\ Picked(W, ps) \in W
      /\ \A u \in W \ {Picked(W, ps)} :
           \/ r(Picked(W, ps)) > r(u)
           \/ r(Picked(W, ps)) = r(u) /\ Picked(W, ps) < u
  BY <1>6, <1>7 DEF Picked, r
<1>9. \A u \in W : r(u) <= r(Picked(W, ps))
  BY <1>1, <1>8
<1> QED
  BY <1>8, <1>9 DEF r

\* The highest priority of the subscribers, background at least, exists; it is
\* the one number with this property.
RankIs(s, p) ==
    /\ p \in 1..3
    /\ \A c \in Callers : s[c].prio <= p
    /\ p = 1 \/ \E c \in Callers : s[c].prio = p

LEMMA RecalculatedIs ==
  ASSUME NEW s \in [Callers -> Subs]
  PROVE  RankIs(s, Recalculated(s))
<1>1. \A c \in Callers : s[c].prio \in 0..3
  BY DEF Subs
<1>2. \E p \in 1..3 : RankIs(s, p)
  <2>1. CASE \E c \in Callers : s[c].prio = 3
    BY <1>1, <2>1 DEF RankIs
  <2>2. CASE ~(\E c \in Callers : s[c].prio = 3) /\ \E c \in Callers : s[c].prio = 2
    <3>1. RankIs(s, 2)
      BY <1>1, <2>2 DEF RankIs
    <3> QED
      BY <3>1
  <2>3. CASE ~\E c \in Callers : s[c].prio \in {2, 3}
    <3>1. RankIs(s, 1)
      BY <1>1, <2>3 DEF RankIs
    <3> QED
      BY <3>1
  <2> QED
    BY <2>1, <2>2, <2>3
<1> QED
  BY <1>2 DEF RankIs, Recalculated

LEMMA RankIsUnique ==
  ASSUME NEW s \in [Callers -> Subs], NEW p, RankIs(s, p)
  PROVE  Recalculated(s) = p
<1>1. \A c \in Callers : s[c].prio \in 0..3
  BY DEF Subs
<1> QED
  BY <1>1, RecalculatedIs DEF RankIs

\* What processNext does: it starts a waiting task of the highest rank, or
\* nothing because the slots are taken or nobody waits.
Starts(t, st, sig, ex, rows, active) ==
    /\ t \in tasks' /\ st[t] \in Waitable
    /\ active < MAX_CONCURRENT
    /\ \A u \in tasks' : st[u] \in Waitable => RankOf(prio'[u], u) <= RankOf(prio'[t], t)
    /\ status' = [st EXCEPT ![t] = "downloading"]
    /\ signal' = [sig EXCEPT ![t] = "live"]
    /\ exec' = [ex EXCEPT ![t] = "running"]
    /\ row' = Saved(rows, t, "downloading", prio'[t], rows[t].retry)
    /\ activeCount' = active + 1

StartsNone(st, sig, ex, rows, active) ==
    /\ active >= MAX_CONCURRENT \/ \A t \in tasks' : st[t] \notin Waitable
    /\ status' = st
    /\ signal' = sig
    /\ exec' = ex
    /\ row' = rows
    /\ activeCount' = active

LEMMA ProcessNextStarts ==
  ASSUME TypeOK, tasks' \subseteq Ids, prio' \in [Ids -> 1..3],
         NEW st, NEW sig, NEW ex, NEW rows, NEW active \in Int,
         ProcessNext(st, sig, ex, rows, active)
  PROVE  \/ StartsNone(st, sig, ex, rows, active)
         \/ \E t \in Ids : Starts(t, st, sig, ex, rows, active)
<1> DEFINE W == {t \in tasks' : st[t] \in Waitable}
<1>1. CASE Full(active) \/ W = {}
  BY <1>1 DEF ProcessNext, StartsNone, Full
<1>2. CASE ~(Full(active) \/ W = {})
  <2>1. PICK ps : ps = prio'
    OBVIOUS
  <2>2. W \in SUBSET Ids /\ W # {} /\ ps \in [Ids -> 1..3]
    BY <1>2, <2>1
  <2> DEFINE t == Picked(W, ps)
  <2>3. t \in W /\ \A u \in W : RankOf(ps[u], u) <= RankOf(ps[t], t)
    BY <2>2, PickedIs
  <2> HIDE DEF t
  <2>4. active < MAX_CONCURRENT
    BY <1>2, ConstantsAssumption DEF Full
  <2>5. /\ status' = [st EXCEPT ![t] = "downloading"]
        /\ signal' = [sig EXCEPT ![t] = "live"]
        /\ exec' = [ex EXCEPT ![t] = "running"]
        /\ row' = Saved(rows, t, "downloading", ps[t], rows[t].retry)
        /\ activeCount' = active + 1
    BY <1>2, <2>1 DEF ProcessNext, t
  <2>6. Starts(t, st, sig, ex, rows, active)
    BY <2>1, <2>3, <2>4, <2>5 DEF Starts
  <2> QED
    BY <2>2, <2>3, <2>6
<1> QED
  BY <1>1, <1>2

-----------------------------------------------------------------------------
(* Types.                                                                  *)

LEMMA SavedTyped ==
  ASSUME NEW rows \in [Ids -> Rows], NEW t \in Ids, NEW st \in Status, NEW p \in 1..3,
         NEW n \in 0..MAX_TASK_RETRIES
  PROVE  Saved(rows, t, st, p, n) \in [Ids -> Rows]
<1>1. rows[t] \in Rows
  OBVIOUS
<1>2. [rows[t] EXCEPT !.status = st, !.prio = p, !.retry = n] \in Rows
  BY <1>1 DEF Rows
<1> QED
  BY <1>2 DEF Saved

LEMMA ProcessNextTyped ==
  ASSUME TypeOK, tasks' \subseteq Ids, prio' \in [Ids -> 1..3],
         NEW st \in [Ids -> Status], NEW sig \in [Ids -> Signals],
         NEW ex \in [Ids -> Executing \cup {"none"}], NEW rows \in [Ids -> Rows],
         NEW active \in Int, ProcessNext(st, sig, ex, rows, active)
  PROVE  /\ status' \in [Ids -> Status] /\ signal' \in [Ids -> Signals]
         /\ exec' \in [Ids -> Executing \cup {"none"}] /\ row' \in [Ids -> Rows]
         /\ activeCount' \in Int
<1>1. CASE StartsNone(st, sig, ex, rows, active)
  BY <1>1 DEF StartsNone
<1>2. ASSUME NEW t \in Ids, Starts(t, st, sig, ex, rows, active)
      PROVE  /\ status' \in [Ids -> Status] /\ signal' \in [Ids -> Signals]
             /\ exec' \in [Ids -> Executing \cup {"none"}] /\ row' \in [Ids -> Rows]
             /\ activeCount' \in Int
  <2>1. /\ status' = [st EXCEPT ![t] = "downloading"] /\ signal' = [sig EXCEPT ![t] = "live"]
        /\ exec' = [ex EXCEPT ![t] = "running"] /\ activeCount' = active + 1
        /\ row' = Saved(rows, t, "downloading", prio'[t], rows[t].retry)
    BY <1>2 DEF Starts
  <2>2. rows[t].retry \in 0..MAX_TASK_RETRIES /\ prio'[t] \in 1..3
    BY DEF Rows
  <2>3. row' \in [Ids -> Rows]
    BY <2>1, <2>2, SavedTyped DEF Status, Live
  <2> QED
    BY <2>1, <2>3 DEF Status, Live, Signals, Executing
<1> QED
  BY <1>1, <1>2, ProcessNextStarts

LEMMA InitTyped == Init => TypeOK
<1> SUFFICES ASSUME Init PROVE TypeOK
  OBVIOUS
<1>1. row \in [Ids -> Rows]
  BY GoneTyped DEF Init
<1>2. subs \in [Ids -> [Callers -> Subs]]
  BY NoSubsTyped DEF Init
<1>3. key \in [Ids -> Keys]
  BY ConstantsAssumption DEF Init
<1>4. /\ status \in [Ids -> Status] /\ signal \in [Ids -> Signals]
      /\ exec \in [Ids -> Executing \cup {"none"}]
      /\ answer \in [Reqs -> {"none", "waiting", "resolved", "rejected", "lost"}]
      /\ prio \in [Ids -> 1..3] /\ retry \in [Ids -> 0..MAX_TASK_RETRIES]
      /\ boost \in [Ids -> 0..2]
  BY ConstantsAssumption DEF Init, Status, Live, Signals, Executing
<1>5. /\ ntask \in 0..MaxTasks /\ nreq \in 0..MaxReqs /\ restarts \in 0..MaxRestarts
      /\ due \in Nat /\ activeCount \in Int /\ tasks \subseteq Ids
  BY ConstantsAssumption DEF Init
<1>6. shuttingDown \in BOOLEAN
  BY DEF Init
<1> QED
  BY <1>1, <1>2, <1>3, <1>4, <1>5, <1>6 DEF TypeOK

\* The answers of a set of promises.
LEMMA AnsweredTyped ==
  ASSUME TypeOK, NEW S, NEW o \in {"none", "waiting", "resolved", "rejected", "lost"}
  PROVE  Answered(S, o) \in [Reqs -> {"none", "waiting", "resolved", "rejected", "lost"}]
  BY DEF TypeOK, Answered

LEMMA PromiseTyped ==
  ASSUME TypeOK, NEW c \in Callers, Ask(c)
  PROVE  /\ nreq' \in 0..MaxReqs
         /\ [prio |-> Priority[c], req |-> Promise(c)] \in Subs
<1>1. Promise(c) \in 0..MaxReqs /\ nreq' \in 0..MaxReqs
  BY ConstantsAssumption DEF TypeOK, Ask, Promise
<1>2. Priority[c] \in 0..3
  BY ConstantsAssumption
<1> QED
  BY <1>1, <1>2 DEF Subs

LEMMA RecalculatedTyped ==
  ASSUME NEW s \in [Callers -> Subs]
  PROVE  Recalculated(s) \in 1..3
  BY RecalculatedIs DEF RankIs

LEMMA CacheHitTyped ==
  ASSUME TypeOK, NEW c \in Callers, CacheHit(c)
  PROVE  TypeOK'
<1>1. nreq' \in 0..MaxReqs
  BY PromiseTyped DEF CacheHit
<1>2. answer' \in [Reqs -> {"none", "waiting", "resolved", "rejected", "lost"}]
  BY AnsweredTyped DEF CacheHit
<1> QED
  BY <1>1, <1>2 DEF CacheHit, TypeOK, fields

LEMMA NewTaskTyped ==
  ASSUME TypeOK, NEW k \in Keys, NEW c \in Callers, Ask(c), NewTask(k, c)
  PROVE  /\ ntask' \in 0..MaxTasks /\ tasks' \subseteq Ids /\ key' \in [Ids -> Keys]
         /\ prio' \in [Ids -> 1..3] /\ subs' \in [Ids -> [Callers -> Subs]]
         /\ status' \in [Ids -> Status] /\ signal' \in [Ids -> Signals]
         /\ exec' \in [Ids -> Executing \cup {"none"}] /\ row' \in [Ids -> Rows]
         /\ activeCount' \in Int /\ retry' = retry
<1> DEFINE t == ntask + 1
           st == [status EXCEPT ![t] = "queued"]
           new == [status |-> "queued", prio |-> Priority[c], by |-> c, retry |-> 0]
<1>1. t \in Ids /\ ntask' = t /\ t \in 0..MaxTasks
  BY ConstantsAssumption DEF TypeOK, NewTask, Ids
<1> HIDE DEF t
<1>2. Priority[c] \in 1..3
  BY ConstantsAssumption
<1>3. [prio |-> Priority[c], req |-> Promise(c)] \in Subs
  BY PromiseTyped
<1>4. /\ tasks' = tasks \cup {t} /\ key' = [key EXCEPT ![t] = k]
      /\ prio' = [prio EXCEPT ![t] = Priority[c]]
      /\ subs' = [subs EXCEPT ![t][c] = [prio |-> Priority[c], req |-> Promise(c)]]
      /\ ProcessNext(st, signal, exec, [row EXCEPT ![t] = new], activeCount)
      /\ retry' = retry
  BY DEF NewTask, t
<1>5. /\ tasks' \subseteq Ids /\ key' \in [Ids -> Keys] /\ prio' \in [Ids -> 1..3]
      /\ subs' \in [Ids -> [Callers -> Subs]]
  BY <1>1, <1>2, <1>3, <1>4 DEF TypeOK
<1>6. new \in Rows
  BY <1>2, ConstantsAssumption DEF Rows, Status, Live, Waitable
<1> HIDE DEF new
<1>7. st \in [Ids -> Status] /\ [row EXCEPT ![t] = new] \in [Ids -> Rows]
  BY <1>1, <1>6 DEF TypeOK, Status, Live, Waitable
<1>8. /\ signal \in [Ids -> Signals] /\ exec \in [Ids -> Executing \cup {"none"}]
      /\ activeCount \in Int
  BY DEF TypeOK
<1> HIDE DEF st
<1>9. /\ status' \in [Ids -> Status] /\ signal' \in [Ids -> Signals]
      /\ exec' \in [Ids -> Executing \cup {"none"}] /\ row' \in [Ids -> Rows]
      /\ activeCount' \in Int
  BY <1>4, <1>5, <1>7, <1>8, ProcessNextTyped
<1> QED
  BY <1>1, <1>4, <1>5, <1>9

\* The task a request joins.
LEMMA FirstMatching ==
  ASSUME TypeOK, NEW k \in Keys, Matching(k) # {}
  PROVE  First(Matching(k)) \in Matching(k)
<1>1. Matching(k) \in SUBSET Nat
  <2>1. Matching(k) \subseteq Ids
    BY DEF TypeOK, Matching
  <2>2. Ids \subseteq Nat
    BY DEF Ids
  <2> QED
    BY <2>1, <2>2
<1>2. PICK t \in Matching(k) : \A u \in Matching(k) : t <= u
  BY <1>1, LeastNatural
<1> QED
  BY <1>2 DEF First

LEMMA CoalesceTyped ==
  ASSUME TypeOK, NEW k \in Keys, NEW c \in Callers, Ask(c), Matching(k) # {}, Coalesce(k, c)
  PROVE  /\ prio' \in [Ids -> 1..3] /\ subs' \in [Ids -> [Callers -> Subs]]
         /\ UNCHANGED <<ntask, tasks, key, status, retry, signal, exec, activeCount, row>>
<1> DEFINE t == First(Matching(k))
           s == [subs[t] EXCEPT ![c] = [prio |-> Priority[c], req |-> Promise(c)]]
<1>1. t \in Ids
  BY FirstMatching DEF Matching, TypeOK
<1>2. /\ subs' = [subs EXCEPT ![t] = s]
      /\ prio' = [prio EXCEPT ![t] = Recalculated(s)]
  BY DEF Coalesce, Joined
<1> HIDE DEF t
<1>3. [prio |-> Priority[c], req |-> Promise(c)] \in Subs
  BY PromiseTyped
<1>4. s \in [Callers -> Subs]
  BY <1>1, <1>3 DEF TypeOK
<1> HIDE DEF s
<1>5. Recalculated(s) \in 1..3
  BY <1>4, RecalculatedTyped
<1>6. prio' \in [Ids -> 1..3] /\ subs' \in [Ids -> [Callers -> Subs]]
  BY <1>1, <1>2, <1>4, <1>5 DEF TypeOK
<1> QED
  BY <1>6 DEF Coalesce

LEMMA EnqueueTyped ==
  ASSUME TypeOK, NEW c \in Callers, NEW k \in Keys, NEW force \in ForceChoices,
         Enqueue(c, k, force)
  PROVE  TypeOK'
<1>1. answer' \in [Reqs -> {"none", "waiting", "resolved", "rejected", "lost"}]
  BY AnsweredTyped DEF Enqueue, TypeOK
<1>2. nreq' \in 0..MaxReqs
  BY PromiseTyped DEF Enqueue
<1>3. UNCHANGED <<boost, due, shuttingDown, restarts>>
  BY DEF Enqueue
<1>4. CASE Joins(k, force)
  <2>1. Coalesce(k, c) /\ Matching(k) # {} /\ Ask(c)
    BY <1>4 DEF Enqueue, Joins
  <2> QED
    BY <1>1, <1>2, <1>3, <2>1, CoalesceTyped DEF TypeOK
<1>5. CASE ~Joins(k, force)
  <2>1. NewTask(k, c) /\ Ask(c)
    BY <1>5 DEF Enqueue
  <2> QED
    BY <1>1, <1>2, <1>3, <2>1, NewTaskTyped DEF TypeOK
<1> QED
  BY <1>4, <1>5

LEMMA CancelTaskTyped ==
  ASSUME TypeOK, NEW t \in tasks, CancelTask(t),
         UNCHANGED <<ntask, key, status, retry, exec, due, activeCount, shuttingDown, nreq,
                     restarts>>
  PROVE  TypeOK'
<1>1. t \in Ids
  BY DEF TypeOK
<1>2. answer' \in [Reqs -> {"none", "waiting", "resolved", "rejected", "lost"}]
  BY AnsweredTyped DEF CancelTask
<1>3. signal' \in [Ids -> Signals]
  BY DEF TypeOK, CancelTask, Signals
<1>4. tasks' \subseteq Ids
  BY DEF TypeOK, CancelTask
<1>5. boost' \in [Ids -> 0..2]
  BY DEF TypeOK, CancelTask
<1>6. row' \in [Ids -> Rows]
  BY GoneTyped DEF TypeOK, CancelTask, Deleted
<1>7. UNCHANGED <<subs, prio>>
  BY DEF CancelTask
<1> QED
  BY <1>2, <1>3, <1>4, <1>5, <1>6, <1>7 DEF TypeOK

LEMMA LeaveTyped ==
  ASSUME TypeOK, NEW t \in tasks, NEW c \in Callers, Leave(t, c),
         UNCHANGED <<ntask, key, status, retry, exec, due, activeCount, shuttingDown, nreq,
                     restarts>>
  PROVE  TypeOK'
<1> DEFINE s == [subs[t] EXCEPT ![c] = NoSub]
<1>1. t \in Ids
  BY DEF TypeOK
<1>2. answer' \in [Reqs -> {"none", "waiting", "resolved", "rejected", "lost"}]
  BY AnsweredTyped DEF Leave
<1>3. s \in [Callers -> Subs]
  BY <1>1, NoSubsTyped DEF TypeOK
<1>4. /\ subs' = [subs EXCEPT ![t] = s]
      /\ prio' = [prio EXCEPT ![t] = Recalculated(s)]
      /\ UNCHANGED <<tasks, signal, boost, row>>
  BY DEF Leave
<1> HIDE DEF s
<1>5. Recalculated(s) \in 1..3
  BY <1>3, RecalculatedTyped
<1>6. prio' \in [Ids -> 1..3] /\ subs' \in [Ids -> [Callers -> Subs]]
  BY <1>1, <1>3, <1>4, <1>5 DEF TypeOK
<1> QED
  BY <1>2, <1>4, <1>6 DEF TypeOK

LEMMA CancelTyped ==
  ASSUME TypeOK, NEW t \in Ids, Cancel(t)
  PROVE  TypeOK'
<1>1. t \in tasks
  BY DEF Cancel
<1>2. UNCHANGED <<ntask, key, status, retry, exec, due, activeCount, shuttingDown, nreq,
                  restarts>>
  BY DEF Cancel
<1>3. CancelTask(t) \/ \E c \in Callers : Leave(t, c)
  BY DEF Cancel
<1> QED
  BY <1>1, <1>2, <1>3, CancelTaskTyped, LeaveTyped

LEMMA AgeTyped ==
  ASSUME TypeOK, NEW t \in Ids, Age(t)
  PROVE  TypeOK'
<1>1. boost' \in [Ids -> 0..2]
  BY DEF TypeOK, Age
<1> QED
  BY <1>1 DEF Age, TypeOK, fields

LEMMA ShouldYieldTyped ==
  ASSUME TypeOK, NEW t \in Ids, ShouldYield(t)
  PROVE  TypeOK'
<1>1. exec' \in [Ids -> Executing \cup {"none"}]
  BY DEF TypeOK, ShouldYield, Executing
<1> QED
  BY <1>1 DEF ShouldYield, TypeOK, fields

LEMMA ClearAllTyped ==
  ASSUME TypeOK, ClearAll
  PROVE  TypeOK'
<1>1. signal' \in [Ids -> Signals]
  BY DEF TypeOK, ClearAll, Signals
<1>2. row' \in [Ids -> Rows]
  BY GoneTyped DEF ClearAll
<1>3. tasks' \subseteq Ids /\ activeCount' \in Int
  BY DEF ClearAll
<1> QED
  BY <1>1, <1>2, <1>3 DEF ClearAll, TypeOK

LEMMA ShutdownTyped ==
  ASSUME TypeOK, Shutdown
  PROVE  TypeOK'
<1>1. signal' \in [Ids -> Signals]
  BY DEF TypeOK, Shutdown, Signals
<1> QED
  BY <1>1 DEF Shutdown, TypeOK

\* The retry count a download leaves.
LEMMA SettleCounts ==
  ASSUME TypeOK, Retried, NEW t \in Ids, NEW st \in {"complete", "yielded", "error"},
         Settle(t, st)
  PROVE  \E n \in 0..MAX_TASK_RETRIES :
           /\ exec[t] \in Executing /\ retry[t] < MAX_TASK_RETRIES
           /\ st # "error" => n = retry[t]
           /\ exec' = [exec EXCEPT ![t] = "none"]
           /\ due' = due + 1
           /\ status' = [status EXCEPT ![t] = st]
           /\ retry' = [retry EXCEPT ![t] = n]
           /\ signal' = [signal EXCEPT ![t] = "null"]
           /\ row' = Saved(row, t, st, prio[t], n)
<1>1. exec[t] \in Executing
  BY DEF Settle, Executing
<1>2. retry[t] < MAX_TASK_RETRIES /\ retry[t] \in 0..MAX_TASK_RETRIES
  BY <1>1 DEF Retried, TypeOK
<1> DEFINE n == IF st = "error" THEN retry[t] + 1 ELSE retry[t]
<1>3. n \in 0..MAX_TASK_RETRIES
  BY <1>2, ConstantsAssumption
<1>4. st # "error" => n = retry[t]
  OBVIOUS
<1>5. /\ exec' = [exec EXCEPT ![t] = "none"]
      /\ due' = due + 1
      /\ status' = [status EXCEPT ![t] = st]
      /\ retry' = [retry EXCEPT ![t] = n]
      /\ signal' = [signal EXCEPT ![t] = "null"]
      /\ row' = Saved(row, t, st, prio[t], n)
  BY DEF Settle
<1> HIDE DEF n
<1> QED
  BY <1>1, <1>2, <1>3, <1>4, <1>5

LEMMA SettleTyped ==
  ASSUME TypeOK, Retried, NEW t \in Ids, NEW st \in {"complete", "yielded", "error"},
         Settle(t, st)
  PROVE  TypeOK'
<1>1. PICK n \in 0..MAX_TASK_RETRIES :
        /\ exec' = [exec EXCEPT ![t] = "none"]
        /\ due' = due + 1
        /\ status' = [status EXCEPT ![t] = st]
        /\ retry' = [retry EXCEPT ![t] = n]
        /\ signal' = [signal EXCEPT ![t] = "null"]
        /\ row' = Saved(row, t, st, prio[t], n)
  BY SettleCounts
<1>2. row' \in [Ids -> Rows]
  <2>1. row \in [Ids -> Rows] /\ prio[t] \in 1..3
    BY DEF TypeOK
  <2>2. st \in Status
    BY DEF Status, Live, Waitable
  <2> QED
    BY <1>1, <2>1, <2>2, SavedTyped
<1>3. exec' \in [Ids -> Executing \cup {"none"}] /\ status' \in [Ids -> Status]
  BY <1>1 DEF TypeOK, Executing, Status, Live, Waitable
<1>4. retry' \in [Ids -> 0..MAX_TASK_RETRIES] /\ signal' \in [Ids -> Signals]
  BY <1>1 DEF TypeOK, Signals
<1>5. due' \in Nat
  BY <1>1 DEF TypeOK
<1>6. boost' \in [Ids -> 0..2]
  BY DEF Settle, TypeOK
<1>7. answer' \in [Reqs -> {"none", "waiting", "resolved", "rejected", "lost"}]
  BY AnsweredTyped DEF Settle, Notified, TypeOK
<1>8. UNCHANGED <<ntask, tasks, key, prio, subs, activeCount, shuttingDown, nreq, restarts>>
  BY DEF Settle
<1> QED
  BY <1>2, <1>3, <1>4, <1>5, <1>6, <1>7, <1>8 DEF TypeOK

LEMMA FinallyTyped ==
  ASSUME TypeOK, Finally
  PROVE  TypeOK'
<1>1. due' \in Nat
  BY DEF TypeOK, Finally
<1>2. UNCHANGED <<ntask, tasks, key, prio, subs, retry, boost, shuttingDown, nreq, answer,
                  restarts>>
  BY DEF Finally
<1>3. activeCount - 1 \in Int
  BY DEF TypeOK
<1>4. /\ status \in [Ids -> Status] /\ signal \in [Ids -> Signals]
      /\ exec \in [Ids -> Executing \cup {"none"}] /\ row \in [Ids -> Rows]
      /\ tasks' \subseteq Ids /\ prio' \in [Ids -> 1..3]
  BY <1>2 DEF TypeOK
<1>5. /\ status' \in [Ids -> Status] /\ signal' \in [Ids -> Signals]
      /\ exec' \in [Ids -> Executing \cup {"none"}] /\ row' \in [Ids -> Rows]
      /\ activeCount' \in Int
  BY <1>3, <1>4, ProcessNextTyped DEF Finally
<1> QED
  BY <1>1, <1>2, <1>5 DEF TypeOK

\* What restoreAndResume makes of a row.
LEMMA RestoredIs ==
  ASSUME NEW r \in Rows, NEW old
  PROVE  /\ Restored(r, old) \in Rows
         /\ Restored(r, old).status \in {"none", "queued"}
         /\ ~NoRow(Restored(r, old)) => /\ Restored(r, old).retry < MAX_TASK_RETRIES
                                        /\ r.status \in Live
<1> DEFINE n == IF r.status = "queued" THEN r.retry ELSE r.retry + 1
<1>1. CASE r.status \notin Live \/ old \/ n >= MAX_TASK_RETRIES
  <2>1. Restored(r, old) = Gone
    BY <1>1 DEF Restored
  <2> QED
    BY <2>1, GoneTyped DEF NoRow
<1>2. CASE ~(r.status \notin Live \/ old \/ n >= MAX_TASK_RETRIES)
  <2>1. Restored(r, old) = [r EXCEPT !.status = "queued", !.retry = n]
    BY <1>2 DEF Restored
  <2>2. n \in Nat /\ n < MAX_TASK_RETRIES
    BY <1>2, ConstantsAssumption DEF Rows
  <2>3. n \in 0..MAX_TASK_RETRIES
    BY <2>2, ConstantsAssumption
  <2> HIDE DEF n
  <2>4. [r EXCEPT !.status = "queued", !.retry = n] \in Rows
    BY <2>3 DEF Rows, Status, Live, Waitable
  <2>5. /\ Restored(r, old).status = "queued" /\ Restored(r, old).retry = n
    BY <2>1 DEF Rows
  <2> QED
    BY <1>2, <2>1, <2>2, <2>4, <2>5
<1> QED
  BY <1>1, <1>2

LEMMA RestartIs ==
  ASSUME TypeOK, NEW old \in SUBSET Ids, Restart(old)
  PROVE  \E rows \in [Ids -> Rows] :
           /\ \A t \in Ids : /\ rows[t].status \in {"none", "queued"}
                             /\ t \in tasks' <=> rows[t].status = "queued"
                             /\ t \in tasks' => rows[t].retry < MAX_TASK_RETRIES
                             /\ t \in tasks' => row[t].status \in Live
           /\ tasks' \subseteq Ids
           /\ prio' = [t \in Ids |-> rows[t].prio]
           /\ retry' = [t \in Ids |-> rows[t].retry]
           /\ subs' = [t \in Ids |-> IF t \in tasks'
                         THEN [NoSubs EXCEPT ![rows[t].by] = [prio |-> rows[t].prio, req |-> 0]]
                         ELSE NoSubs]
           /\ boost' = [t \in Ids |-> IF t \in tasks' THEN boost[t] ELSE 0]
           /\ ProcessNext([t \in Ids |-> rows[t].status], [t \in Ids |-> "null"],
                          [t \in Ids |-> "none"], rows, 0)
<1> DEFINE rows == [t \in Ids |-> Restored(row[t], t \in old)]
<1>1. \A t \in Ids : /\ rows[t] \in Rows /\ rows[t].status \in {"none", "queued"}
                     /\ ~NoRow(rows[t]) => /\ rows[t].retry < MAX_TASK_RETRIES
                                           /\ row[t].status \in Live
  <2> TAKE t \in Ids
  <2>1. row[t] \in Rows /\ rows[t] = Restored(row[t], t \in old)
    BY DEF TypeOK
  <2> QED
    BY <2>1, RestoredIs
<1>2. rows \in [Ids -> Rows]
  BY <1>1
<1>3. /\ tasks' = {t \in Ids : ~NoRow(rows[t])}
      /\ prio' = [t \in Ids |-> rows[t].prio]
      /\ retry' = [t \in Ids |-> rows[t].retry]
      /\ subs' = [t \in Ids |-> IF t \in {t_1 \in Ids : ~NoRow(rows[t_1])}
                    THEN [NoSubs EXCEPT ![rows[t].by] = [prio |-> rows[t].prio, req |-> 0]]
                    ELSE NoSubs]
      /\ boost' = [t \in Ids |-> IF t \in {t_1 \in Ids : ~NoRow(rows[t_1])}
                                 THEN boost[t] ELSE 0]
      /\ ProcessNext([t \in Ids |-> rows[t].status], [t \in Ids |-> "null"],
                     [t \in Ids |-> "none"], rows, 0)
  BY DEF Restart
<1> HIDE DEF rows
<1>4. \A t \in Ids : t \in tasks' <=> rows[t].status = "queued"
  BY <1>1, <1>3 DEF NoRow
<1>5. \A t \in Ids : t \in tasks' =>
        rows[t].retry < MAX_TASK_RETRIES /\ row[t].status \in Live
  BY <1>1, <1>3
<1>6. /\ tasks' \subseteq Ids
      /\ subs' = [t \in Ids |-> IF t \in tasks'
                    THEN [NoSubs EXCEPT ![rows[t].by] = [prio |-> rows[t].prio, req |-> 0]]
                    ELSE NoSubs]
      /\ boost' = [t \in Ids |-> IF t \in tasks' THEN boost[t] ELSE 0]
  BY <1>3
<1> WITNESS rows \in [Ids -> Rows]
<1> QED
  BY <1>1, <1>2, <1>3, <1>4, <1>5, <1>6

LEMMA RestartTyped ==
  ASSUME TypeOK, NEW old \in SUBSET Ids, Restart(old)
  PROVE  TypeOK'
<1>1. PICK rows \in [Ids -> Rows] :
        /\ \A t \in Ids : rows[t].status \in {"none", "queued"}
        /\ tasks' \subseteq Ids
        /\ prio' = [t \in Ids |-> rows[t].prio]
        /\ retry' = [t \in Ids |-> rows[t].retry]
        /\ subs' = [t \in Ids |-> IF t \in tasks'
                      THEN [NoSubs EXCEPT ![rows[t].by] = [prio |-> rows[t].prio, req |-> 0]]
                      ELSE NoSubs]
        /\ boost' = [t \in Ids |-> IF t \in tasks' THEN boost[t] ELSE 0]
        /\ ProcessNext([t \in Ids |-> rows[t].status], [t \in Ids |-> "null"],
                       [t \in Ids |-> "none"], rows, 0)
  BY RestartIs
<1>2. \A t \in Ids : /\ rows[t].prio \in 1..3 /\ rows[t].retry \in 0..MAX_TASK_RETRIES
                     /\ rows[t].by \in Callers
  BY DEF Rows
<1>3. prio' \in [Ids -> 1..3] /\ retry' \in [Ids -> 0..MAX_TASK_RETRIES]
  BY <1>1, <1>2
<1>4. \A t \in Ids : [prio |-> rows[t].prio, req |-> 0] \in Subs
  BY <1>2, ConstantsAssumption DEF Subs
<1>5. subs' \in [Ids -> [Callers -> Subs]]
  BY <1>1, <1>2, <1>4, NoSubsTyped
<1>6. boost' \in [Ids -> 0..2]
  BY <1>1 DEF TypeOK
<1> DEFINE st == [t \in Ids |-> rows[t].status]
           sig == [t \in Ids |-> "null"]
           ex == [t \in Ids |-> "none"]
<1>7. /\ st \in [Ids -> Status] /\ sig \in [Ids -> Signals]
      /\ ex \in [Ids -> Executing \cup {"none"}]
  BY <1>1 DEF Status, Live, Waitable, Signals
<1>8. ProcessNext(st, sig, ex, rows, 0)
  BY <1>1
<1> HIDE DEF st, sig, ex
<1>9. /\ status' \in [Ids -> Status] /\ signal' \in [Ids -> Signals]
      /\ exec' \in [Ids -> Executing \cup {"none"}] /\ row' \in [Ids -> Rows]
      /\ activeCount' \in Int
  BY <1>1, <1>3, <1>7, <1>8, ProcessNextTyped
<1>10. answer' \in [Reqs -> {"none", "waiting", "resolved", "rejected", "lost"}]
  BY AnsweredTyped DEF Restart
<1>11. restarts' \in 0..MaxRestarts /\ due' \in Nat
  BY ConstantsAssumption DEF Restart, TypeOK
<1>12. shuttingDown' \in BOOLEAN /\ UNCHANGED <<ntask, key, nreq>>
  BY DEF Restart
<1> QED
  BY <1>1, <1>3, <1>5, <1>6, <1>9, <1>10, <1>11, <1>12 DEF TypeOK

LEMMA NextTyped ==
  ASSUME TypeOK, Retried, [Next]_vars
  PROVE  TypeOK'
<1>1. ASSUME NEW c \in Callers, CacheHit(c) PROVE TypeOK'
  BY <1>1, CacheHitTyped
<1>2. ASSUME NEW c \in Callers, NEW k \in Keys, NEW force \in ForceChoices,
             Enqueue(c, k, force)
      PROVE  TypeOK'
  BY <1>2, EnqueueTyped
<1>3. ASSUME NEW t \in Ids, Cancel(t) \/ Age(t) \/ ShouldYield(t) PROVE TypeOK'
  BY <1>3, CancelTyped, AgeTyped, ShouldYieldTyped
<1>4. ASSUME NEW t \in Ids, NEW st \in {"complete", "yielded", "error"}, Settle(t, st)
      PROVE  TypeOK'
  BY <1>4, SettleTyped
<1>5. ASSUME Finally \/ ClearAll \/ Shutdown PROVE TypeOK'
  BY <1>5, FinallyTyped, ClearAllTyped, ShutdownTyped
<1>6. ASSUME NEW old \in SUBSET Ids, Restart(old) PROVE TypeOK'
  BY <1>6, RestartTyped
<1>7. CASE UNCHANGED vars
  BY <1>7 DEF vars, fields, TypeOK
<1> QED
  BY <1>1, <1>2, <1>3, <1>4, <1>5, <1>6, <1>7 DEF Next

-----------------------------------------------------------------------------
(* The table and the Map.                                                  *)

\* What dbUpdateStatus leaves of the table rows when it writes task t.
SavedAs(new, rows, t, st, n) ==
    /\ \A u \in Ids : NoRow(new[u]) <=> NoRow(rows[u])
    /\ \A u \in Ids : u # t => new[u] = rows[u]
    /\ shuttingDown' => new = rows
    /\ ~shuttingDown' /\ ~NoRow(rows[t]) => new[t].status = st /\ new[t].retry = n

LEMMA SavedIs ==
  ASSUME NEW rows \in [Ids -> Rows], NEW t \in Ids, NEW st, st # "none", NEW p, NEW n
  PROVE  SavedAs(Saved(rows, t, st, p, n), rows, t, st, n)
<1>1. CASE shuttingDown' \/ NoRow(rows[t])
  BY <1>1 DEF Saved, SavedAs
<1>2. CASE ~(shuttingDown' \/ NoRow(rows[t]))
  <2>1. Saved(rows, t, st, p, n) =
          [rows EXCEPT ![t].status = st, ![t].prio = p, ![t].retry = n]
    BY <1>2 DEF Saved
  <2>2. rows[t] \in Rows
    OBVIOUS
  <2>3. /\ Saved(rows, t, st, p, n)[t].status = st
        /\ Saved(rows, t, st, p, n)[t].retry = n
    BY <2>1, <2>2 DEF Rows
  <2>4. \A u \in Ids : u # t => Saved(rows, t, st, p, n)[u] = rows[u]
    BY <2>1
  <2> QED
    BY <1>2, <2>3, <2>4 DEF NoRow, SavedAs
<1> QED
  BY <1>1, <1>2

\* Agreement of statuses, executions and rows with the Map and the retry
\* counts of the next state.
Agree(st, ex, rows) ==
    /\ \A t \in Ids : t > ntask' => t \notin tasks' /\ ex[t] = "none" /\ NoRow(rows[t])
    /\ \A t \in Ids : (t \in tasks' /\ st[t] \in Live) \/ ex[t] \in Executing
                        => retry'[t] < MAX_TASK_RETRIES
    /\ ~shuttingDown' =>
         \A t \in Ids :
           /\ ~NoRow(rows[t]) <=> t \in tasks'
           /\ t \in tasks' => rows[t].status = st[t] /\ rows[t].retry = retry'[t]

LEMMA AgreeIs ==
  ASSUME Agree(status', exec', row'),
         \A t \in Ids : t > ntask' => retry'[t] = 0 /\ subs'[t] = NoSubs
  PROVE  Numbered' /\ Retried' /\ RowsMatchTasks'
<1>1. Numbered'
  BY DEF Agree, Numbered, Fresh
<1>2. Retried'
  BY DEF Agree, Retried
<1>3. RowsMatchTasks'
  BY DEF Agree, RowsMatchTasks
<1> QED
  BY <1>1, <1>2, <1>3

\* processNext preserves it.
LEMMA ProcessNextAgrees ==
  ASSUME TypeOK, tasks' \subseteq Ids, prio' \in [Ids -> 1..3],
         NEW st \in [Ids -> Status], NEW sig, NEW ex \in [Ids -> Executing \cup {"none"}],
         NEW rows \in [Ids -> Rows], NEW active \in Int,
         ProcessNext(st, sig, ex, rows, active), Agree(st, ex, rows)
  PROVE  Agree(status', exec', row')
<1>1. CASE StartsNone(st, sig, ex, rows, active)
  BY <1>1 DEF StartsNone
<1>2. ASSUME NEW t \in Ids, Starts(t, st, sig, ex, rows, active)
      PROVE  Agree(status', exec', row')
  <2>1. /\ t \in tasks' /\ st[t] \in Waitable
        /\ status' = [st EXCEPT ![t] = "downloading"]
        /\ exec' = [ex EXCEPT ![t] = "running"]
        /\ row' = Saved(rows, t, "downloading", prio'[t], rows[t].retry)
    BY <1>2 DEF Starts
  <2>2. PICK p : p = prio'[t]
    OBVIOUS
  <2>3. row' = Saved(rows, t, "downloading", p, rows[t].retry)
    BY <2>1, <2>2
  <2>4. SavedAs(row', rows, t, "downloading", rows[t].retry)
    BY <2>3, SavedIs
  <2>5. \A u \in Ids : u > ntask' => u \notin tasks' /\ exec'[u] = "none" /\ NoRow(row'[u])
    BY <2>1, <2>4 DEF Agree, SavedAs
  <2>6. \A u \in Ids : (u \in tasks' /\ status'[u] \in Live) \/ exec'[u] \in Executing
                          => retry'[u] < MAX_TASK_RETRIES
    <3>1. retry'[t] < MAX_TASK_RETRIES
      BY <2>1 DEF Agree, Live
    <3>2. \A u \in Ids : u # t => status'[u] = st[u] /\ exec'[u] = ex[u]
      BY <2>1
    <3> QED
      BY <3>1, <3>2 DEF Agree
  <2>7. ASSUME ~shuttingDown', NEW u \in Ids
        PROVE  /\ ~NoRow(row'[u]) <=> u \in tasks'
               /\ u \in tasks' => row'[u].status = status'[u] /\ row'[u].retry = retry'[u]
    <3>1. /\ ~NoRow(rows[u]) <=> u \in tasks'
          /\ u \in tasks' => rows[u].status = st[u] /\ rows[u].retry = retry'[u]
      BY <2>7 DEF Agree
    <3>2. CASE u = t
      BY <2>1, <2>4, <2>7, <3>1, <3>2 DEF SavedAs
    <3>3. CASE u # t
      BY <2>1, <2>4, <3>1, <3>3 DEF SavedAs
    <3> QED
      BY <3>2, <3>3
  <2> QED
    BY <2>5, <2>6, <2>7 DEF Agree
<1> QED
  BY <1>1, <1>2, ProcessNextStarts

\* The agreement of a state with itself, for steps that leave the Map alone.
Sane == TypeOK /\ Numbered /\ Retried /\ RowsMatchTasks

LEMMA SaneAgrees ==
  ASSUME Sane, UNCHANGED <<ntask, tasks, retry, shuttingDown>>
  PROVE  Agree(status, exec, row)
<1>1. \A t \in Ids : t > ntask => t \notin tasks /\ exec[t] = "none" /\ NoRow(row[t])
  BY DEF Sane, Numbered, Fresh
<1>2. \A t \in Ids : (t \in tasks /\ status[t] \in Live) \/ exec[t] \in Executing
                        => retry[t] < MAX_TASK_RETRIES
  BY DEF Sane, Retried
<1>3. ~shuttingDown =>
        \A t \in Ids :
          /\ ~NoRow(row[t]) <=> t \in tasks
          /\ t \in tasks => row[t].status = status[t] /\ row[t].retry = retry[t]
  BY DEF Sane, RowsMatchTasks
<1> QED
  BY <1>1, <1>2, <1>3 DEF Agree

\* What each step has to keep.
Stays == /\ Agree(status', exec', row')
         /\ \A t \in Ids : t > ntask' => retry'[t] = 0 /\ subs'[t] = NoSubs

LEMMA SameMapStays ==
  ASSUME Sane, UNCHANGED <<ntask, tasks, status, subs, retry, shuttingDown, row, exec>>
  PROVE  Stays
<1>1. Agree(status, exec, row)
  BY SaneAgrees
<1>2. Agree(status', exec', row')
  BY <1>1
<1>3. \A t \in Ids : t > ntask => retry[t] = 0 /\ subs[t] = NoSubs
  BY DEF Sane, Numbered, Fresh
<1> QED
  BY <1>2, <1>3 DEF Stays

LEMMA NewTaskStays ==
  ASSUME Sane, NEW k \in Keys, NEW c \in Callers, Ask(c), NewTask(k, c), shuttingDown' = shuttingDown
  PROVE  Stays
<1> DEFINE t == ntask + 1
           st == [status EXCEPT ![t] = "queued"]
           new == [status |-> "queued", prio |-> Priority[c], by |-> c, retry |-> 0]
           rows == [row EXCEPT ![t] = new]
<1>0. TypeOK
  BY DEF Sane
<1>1. t \in Ids /\ ntask' = t /\ t > ntask /\ \A u \in Ids : u > t => u > ntask
  BY <1>0, ConstantsAssumption DEF TypeOK, NewTask, Ids
<1>2. /\ tasks' = tasks \cup {t} /\ retry' = retry
      /\ subs' = [subs EXCEPT ![t][c] = [prio |-> Priority[c], req |-> Promise(c)]]
      /\ ProcessNext(st, signal, exec, rows, activeCount)
  BY DEF NewTask
<1>3. /\ tasks' \subseteq Ids /\ prio' \in [Ids -> 1..3] /\ subs' \in [Ids -> [Callers -> Subs]]
  BY <1>0, NewTaskTyped
<1>4. /\ exec \in [Ids -> Executing \cup {"none"}] /\ activeCount \in Int
      /\ subs \in [Ids -> [Callers -> Subs]]
      /\ retry \in [Ids -> 0..MAX_TASK_RETRIES] /\ tasks \subseteq Ids
      /\ row \in [Ids -> Rows] /\ status \in [Ids -> Status]
  BY <1>0 DEF TypeOK
<1>5. /\ new \in Rows /\ new.status = "queued" /\ new.retry = 0
  BY ConstantsAssumption DEF Rows, Status, Live, Waitable
<1>6. /\ st \in [Ids -> Status] /\ rows \in [Ids -> Rows]
      /\ rows[t] = new /\ st[t] = "queued"
      /\ \A u \in Ids \ {t} : rows[u] = row[u] /\ st[u] = status[u]
  BY <1>1, <1>4, <1>5 DEF Status, Live, Waitable
<1>7. retry[t] = 0
  BY <1>1 DEF Sane, Numbered, Fresh
<1> HIDE DEF t, st, new, rows
<1>8. \A u \in Ids : u > t => /\ u \notin tasks' /\ exec[u] = "none" /\ NoRow(rows[u])
                              /\ retry'[u] = 0 /\ subs'[u] = NoSubs
  <2> SUFFICES ASSUME NEW u \in Ids, u > t
               PROVE  /\ u \notin tasks' /\ exec[u] = "none" /\ NoRow(rows[u])
                      /\ retry'[u] = 0 /\ subs'[u] = NoSubs
    OBVIOUS
  <2>1. u > ntask /\ u # t
    BY <1>1 DEF Ids
  <2>2. Fresh(u)
    BY <2>1 DEF Sane, Numbered
  <2> QED
    BY <1>1, <1>2, <1>4, <1>6, <2>1, <2>2 DEF Fresh
<1>9. \A u \in Ids : (u \in tasks' /\ st[u] \in Live) \/ exec[u] \in Executing
                       => retry'[u] < MAX_TASK_RETRIES
  <2> TAKE u \in Ids
  <2>1. CASE u = t
    <3>1. 0 < MAX_TASK_RETRIES
      BY ConstantsAssumption
    <3> QED
      BY <1>2, <1>7, <2>1, <3>1
  <2>2. CASE u # t
    BY <1>2, <1>6, <2>2 DEF Sane, Retried
  <2> QED
    BY <2>1, <2>2
<1>10. ~shuttingDown' =>
         \A u \in Ids :
           /\ ~NoRow(rows[u]) <=> u \in tasks'
           /\ u \in tasks' => rows[u].status = st[u] /\ rows[u].retry = retry'[u]
  <2> SUFFICES ASSUME ~shuttingDown', NEW u \in Ids
               PROVE  /\ ~NoRow(rows[u]) <=> u \in tasks'
                      /\ u \in tasks' => rows[u].status = st[u] /\ rows[u].retry = retry'[u]
    OBVIOUS
  <2>1. CASE u = t
    BY <1>2, <1>5, <1>6, <1>7, <2>1 DEF NoRow
  <2>2. CASE u # t
    BY <1>2, <1>6, <2>2 DEF Sane, RowsMatchTasks
  <2> QED
    BY <2>1, <2>2
<1>11. Agree(st, exec, rows)
  BY <1>1, <1>8, <1>9, <1>10 DEF Agree
<1>12. Agree(status', exec', row')
  BY <1>0, <1>2, <1>3, <1>4, <1>6, <1>11, ProcessNextAgrees
<1> QED
  BY <1>1, <1>8, <1>12 DEF Stays

\* Only the subscribers and the priority of task t change.
LEMMA SubscribersStay ==
  ASSUME Sane, NEW t \in tasks, NEW s, subs' = [subs EXCEPT ![t] = s],
         UNCHANGED <<ntask, tasks, status, retry, shuttingDown, row, exec>>
  PROVE  Stays
<1>1. Agree(status, exec, row)
  BY SaneAgrees
<1>2. Agree(status', exec', row')
  BY <1>1
<1>3. \A u \in Ids : u > ntask => retry[u] = 0 /\ subs[u] = NoSubs /\ u # t
  BY DEF Sane, Numbered, Fresh
<1>4. subs \in [Ids -> [Callers -> Subs]]
  BY DEF Sane, TypeOK
<1> QED
  BY <1>2, <1>3, <1>4 DEF Stays

LEMMA EnqueueStays ==
  ASSUME Sane, NEW c \in Callers, NEW k \in Keys, NEW force \in ForceChoices,
         Enqueue(c, k, force)
  PROVE  Stays
<1>1. shuttingDown' = shuttingDown /\ Ask(c)
  BY DEF Enqueue
<1>2. CASE Joins(k, force)
  <2>1. Coalesce(k, c) /\ Matching(k) # {}
    BY <1>2 DEF Enqueue, Joins
  <2>2. PICK t : t = First(Matching(k))
    OBVIOUS
  <2>3. t \in tasks
    BY <2>1, <2>2, FirstMatching DEF Matching, Sane
  <2>4. \E s : subs' = [subs EXCEPT ![t] = s]
    BY <2>1, <2>2 DEF Coalesce, Joined
  <2>5. UNCHANGED <<ntask, tasks, status, retry, shuttingDown, row, exec>>
    BY <1>1, <2>1 DEF Coalesce
  <2> QED
    BY <2>3, <2>4, <2>5, SubscribersStay
<1>3. CASE ~Joins(k, force)
  BY <1>1, <1>3, NewTaskStays DEF Enqueue
<1> QED
  BY <1>2, <1>3

LEMMA CancelTaskStays ==
  ASSUME Sane, NEW t \in tasks, CancelTask(t),
         UNCHANGED <<ntask, key, status, retry, exec, due, activeCount, shuttingDown, nreq,
                     restarts>>
  PROVE  Stays
<1>1. CASE status[t] = "downloading" /\ signal[t] # "null"
  <2>1. UNCHANGED <<ntask, tasks, status, subs, retry, shuttingDown, row, exec>>
    BY <1>1 DEF CancelTask
  <2> QED
    BY <2>1, SameMapStays
<1>2. CASE ~(status[t] = "downloading" /\ signal[t] # "null")
  <2>1. tasks' = tasks \ {t} /\ row' = [row EXCEPT ![t] = Gone] /\ subs' = subs
    BY <1>2 DEF CancelTask, Deleted
  <2>2. row \in [Ids -> Rows] /\ tasks \subseteq Ids
    BY DEF Sane, TypeOK
  <2>3. NoRow(row'[t]) /\ \A u \in Ids \ {t} : row'[u] = row[u]
    BY <2>1, <2>2, GoneTyped
  <2>4. \A u \in Ids : u > ntask => u \notin tasks' /\ exec[u] = "none" /\ NoRow(row'[u])
    BY <2>1, <2>3 DEF Sane, Numbered, Fresh
  <2>5. \A u \in Ids : (u \in tasks' /\ status[u] \in Live) \/ exec[u] \in Executing
                         => retry[u] < MAX_TASK_RETRIES
    BY <2>1 DEF Sane, Retried
  <2>6. ~shuttingDown =>
          \A u \in Ids :
            /\ ~NoRow(row'[u]) <=> u \in tasks'
            /\ u \in tasks' => row'[u].status = status[u] /\ row'[u].retry = retry[u]
    BY <2>1, <2>3 DEF Sane, RowsMatchTasks
  <2>7. Agree(status', exec', row')
    BY <2>4, <2>5, <2>6 DEF Agree
  <2>8. \A u \in Ids : u > ntask => retry[u] = 0 /\ subs[u] = NoSubs
    BY DEF Sane, Numbered, Fresh
  <2> QED
    BY <2>1, <2>7, <2>8 DEF Stays
<1> QED
  BY <1>1, <1>2

LEMMA CancelStays ==
  ASSUME Sane, NEW t \in Ids, Cancel(t)
  PROVE  Stays
<1>1. t \in tasks
  BY DEF Cancel
<1>2. UNCHANGED <<ntask, key, status, retry, exec, due, activeCount, shuttingDown, nreq,
                  restarts>>
  BY DEF Cancel
<1>3. ASSUME NEW c \in Callers, Leave(t, c) PROVE Stays
  <2>1. \E s : subs' = [subs EXCEPT ![t] = s]
    BY <1>3 DEF Leave
  <2>2. UNCHANGED <<tasks, row>>
    BY <1>3 DEF Leave
  <2> QED
    BY <1>1, <1>2, <2>1, <2>2, SubscribersStay
<1>4. CancelTask(t) \/ \E c \in Callers : Leave(t, c)
  BY DEF Cancel
<1> QED
  BY <1>1, <1>2, <1>3, <1>4, CancelTaskStays

LEMMA ShouldYieldStays ==
  ASSUME Sane, NEW t \in Ids, ShouldYield(t)
  PROVE  Stays
<1>1. /\ UNCHANGED <<ntask, tasks, status, subs, retry, shuttingDown, row>>
      /\ exec[t] \in Executing /\ exec' = [exec EXCEPT ![t] = "yielding"]
  BY DEF ShouldYield, fields, Executing
<1>2. exec \in [Ids -> Executing \cup {"none"}]
  BY DEF Sane, TypeOK
<1>3. \A u \in Ids : /\ exec'[u] = "none" <=> exec[u] = "none"
                     /\ exec'[u] \in Executing <=> exec[u] \in Executing
  BY <1>1, <1>2 DEF Executing
<1>4. \A u \in Ids : u > ntask => /\ u \notin tasks /\ exec'[u] = "none" /\ NoRow(row[u])
                                  /\ retry[u] = 0 /\ subs[u] = NoSubs
  BY <1>3 DEF Sane, Numbered, Fresh
<1>5. \A u \in Ids : (u \in tasks /\ status[u] \in Live) \/ exec'[u] \in Executing
                       => retry[u] < MAX_TASK_RETRIES
  BY <1>3 DEF Sane, Retried
<1>6. Agree(status', exec', row')
  BY <1>1, <1>4, <1>5 DEF Agree, Sane, RowsMatchTasks
<1> QED
  BY <1>1, <1>4, <1>6 DEF Stays

LEMMA ClearAllStays ==
  ASSUME Sane, ClearAll
  PROVE  Stays
<1>1. /\ UNCHANGED <<ntask, status, subs, retry, shuttingDown, exec>>
      /\ tasks' = {} /\ \A u \in Ids : NoRow(row'[u])
  BY GoneTyped DEF ClearAll
<1>2. \A u \in Ids : u > ntask => exec[u] = "none" /\ retry[u] = 0 /\ subs[u] = NoSubs
  BY DEF Sane, Numbered, Fresh
<1>3. \A u \in Ids : exec[u] \in Executing => retry[u] < MAX_TASK_RETRIES
  BY DEF Sane, Retried
<1>4. Agree(status', exec', row')
  BY <1>1, <1>2, <1>3 DEF Agree
<1> QED
  BY <1>1, <1>2, <1>4 DEF Stays

LEMMA ShutdownStays ==
  ASSUME Sane, Shutdown
  PROVE  Stays
<1>1. /\ UNCHANGED <<ntask, tasks, status, subs, retry, exec, row>>
      /\ shuttingDown'
  BY DEF Shutdown
<1>2. \A u \in Ids : u > ntask => /\ u \notin tasks /\ exec[u] = "none" /\ NoRow(row[u])
                                  /\ retry[u] = 0 /\ subs[u] = NoSubs
  BY DEF Sane, Numbered, Fresh
<1>3. \A u \in Ids : (u \in tasks /\ status[u] \in Live) \/ exec[u] \in Executing
                       => retry[u] < MAX_TASK_RETRIES
  BY DEF Sane, Retried
<1>4. Agree(status', exec', row')
  BY <1>1, <1>2, <1>3 DEF Agree
<1> QED
  BY <1>1, <1>2, <1>4 DEF Stays

LEMMA SettleStays ==
  ASSUME Sane, NEW t \in Ids, NEW st \in {"complete", "yielded", "error"}, Settle(t, st)
  PROVE  Stays
<1>1. PICK n \in 0..MAX_TASK_RETRIES :
        /\ exec[t] \in Executing /\ retry[t] < MAX_TASK_RETRIES
        /\ st # "error" => n = retry[t]
        /\ exec' = [exec EXCEPT ![t] = "none"]
        /\ status' = [status EXCEPT ![t] = st]
        /\ retry' = [retry EXCEPT ![t] = n]
        /\ row' = Saved(row, t, st, prio[t], n)
  BY SettleCounts DEF Sane
<1>2. /\ status \in [Ids -> Status] /\ exec \in [Ids -> Executing \cup {"none"}]
      /\ retry \in [Ids -> 0..MAX_TASK_RETRIES] /\ row \in [Ids -> Rows]
  BY DEF Sane, TypeOK
<1>3. UNCHANGED <<ntask, tasks, subs, shuttingDown>>
  BY DEF Settle
<1>4. SavedAs(row', row, t, st, n)
  BY <1>1, <1>2, SavedIs
<1>5. ~(t > ntask)
  BY <1>1 DEF Sane, Numbered, Fresh, Executing
<1>6. /\ status'[t] = st /\ exec'[t] = "none" /\ retry'[t] = n
      /\ \A u \in Ids \ {t} : status'[u] = status[u] /\ exec'[u] = exec[u] /\ retry'[u] = retry[u]
  BY <1>1, <1>2
<1>7. \A u \in Ids : u > ntask => /\ u \notin tasks /\ exec'[u] = "none" /\ NoRow(row'[u])
                                  /\ retry'[u] = 0 /\ subs[u] = NoSubs
  BY <1>4, <1>5, <1>6 DEF Sane, Numbered, Fresh, SavedAs
<1>8. \A u \in Ids : (u \in tasks /\ status'[u] \in Live) \/ exec'[u] \in Executing
                       => retry'[u] < MAX_TASK_RETRIES
  <2> TAKE u \in Ids
  <2>1. CASE u = t
    BY <1>1, <1>6, <2>1 DEF Live, Waitable, Executing
  <2>2. CASE u # t
    BY <1>6, <2>2 DEF Sane, Retried
  <2> QED
    BY <2>1, <2>2
<1>9. ~shuttingDown =>
        \A u \in Ids :
          /\ ~NoRow(row'[u]) <=> u \in tasks
          /\ u \in tasks => row'[u].status = status'[u] /\ row'[u].retry = retry'[u]
  <2> SUFFICES ASSUME ~shuttingDown, NEW u \in Ids
               PROVE  /\ ~NoRow(row'[u]) <=> u \in tasks
                      /\ u \in tasks => row'[u].status = status'[u] /\ row'[u].retry = retry'[u]
    OBVIOUS
  <2>1. /\ ~NoRow(row[u]) <=> u \in tasks
        /\ u \in tasks => row[u].status = status[u] /\ row[u].retry = retry[u]
    BY DEF Sane, RowsMatchTasks
  <2>2. NoRow(row'[u]) <=> NoRow(row[u])
    BY <1>4 DEF SavedAs
  <2>3. CASE u = t
    BY <1>3, <1>4, <1>6, <2>1, <2>2, <2>3 DEF SavedAs
  <2>4. CASE u # t
    BY <1>4, <1>6, <2>1, <2>2, <2>4 DEF SavedAs
  <2> QED
    BY <2>3, <2>4
<1>10. Agree(status', exec', row')
  BY <1>3, <1>7, <1>8, <1>9 DEF Agree
<1> QED
  BY <1>3, <1>7, <1>10 DEF Stays

LEMMA FinallyStays ==
  ASSUME Sane, Finally
  PROVE  Stays
<1>1. UNCHANGED <<ntask, tasks, prio, subs, retry, shuttingDown>>
  BY DEF Finally
<1>2. /\ TypeOK /\ tasks' \subseteq Ids /\ prio' \in [Ids -> 1..3]
      /\ status \in [Ids -> Status] /\ exec \in [Ids -> Executing \cup {"none"}]
      /\ row \in [Ids -> Rows] /\ activeCount - 1 \in Int
  BY <1>1 DEF Sane, TypeOK
<1>3. Agree(status, exec, row)
  BY <1>1, SaneAgrees
<1>4. Agree(status', exec', row')
  BY <1>2, <1>3, ProcessNextAgrees DEF Finally
<1>5. \A u \in Ids : u > ntask => retry[u] = 0 /\ subs[u] = NoSubs
  BY DEF Sane, Numbered, Fresh
<1> QED
  BY <1>1, <1>4, <1>5 DEF Stays

LEMMA RestartStays ==
  ASSUME Sane, NEW old \in SUBSET Ids, Restart(old)
  PROVE  Stays
<1>0. TypeOK /\ ntask' = ntask
  BY DEF Sane, Restart
<1>1. PICK rows \in [Ids -> Rows] :
        /\ \A t \in Ids : /\ rows[t].status \in {"none", "queued"}
                          /\ t \in tasks' <=> rows[t].status = "queued"
                          /\ t \in tasks' => rows[t].retry < MAX_TASK_RETRIES
                          /\ t \in tasks' => row[t].status \in Live
        /\ tasks' \subseteq Ids
        /\ prio' = [t \in Ids |-> rows[t].prio]
        /\ retry' = [t \in Ids |-> rows[t].retry]
        /\ subs' = [t \in Ids |-> IF t \in tasks'
                      THEN [NoSubs EXCEPT ![rows[t].by] = [prio |-> rows[t].prio, req |-> 0]]
                      ELSE NoSubs]
        /\ ProcessNext([t \in Ids |-> rows[t].status], [t \in Ids |-> "null"],
                       [t \in Ids |-> "none"], rows, 0)
  BY <1>0, RestartIs
<1>2. prio' \in [Ids -> 1..3]
  BY <1>0, RestartTyped DEF TypeOK
<1> DEFINE st == [t \in Ids |-> rows[t].status]
           ex == [t \in Ids |-> "none"]
<1>3. st \in [Ids -> Status] /\ ex \in [Ids -> Executing \cup {"none"}]
  BY <1>1 DEF Status, Live, Waitable
<1>4. \A t \in Ids : st[t] = rows[t].status /\ ex[t] = "none" /\ retry'[t] = rows[t].retry
  BY <1>1
<1>5. ProcessNext(st, [t \in Ids |-> "null"], ex, rows, 0)
  BY <1>1
<1> HIDE DEF st, ex
<1>6. Agree(st, ex, rows)
  <2>1. \A t \in Ids : t > ntask' => t \notin tasks' /\ ex[t] = "none" /\ NoRow(rows[t])
    <3>1. \A t \in Ids : t > ntask' => row[t].status = "none"
      BY <1>0 DEF Sane, Numbered, Fresh, NoRow
    <3>2. \A t \in Ids : t > ntask' => t \notin tasks'
      BY <1>1, <3>1 DEF Live, Waitable
    <3> QED
      BY <1>1, <1>4, <3>2 DEF NoRow
  <2>2. \A t \in Ids : (t \in tasks' /\ st[t] \in Live) \/ ex[t] \in Executing
                         => retry'[t] < MAX_TASK_RETRIES
    BY <1>1, <1>4 DEF Executing
  <2>3. \A t \in Ids :
          /\ ~NoRow(rows[t]) <=> t \in tasks'
          /\ t \in tasks' => rows[t].status = st[t] /\ rows[t].retry = retry'[t]
    BY <1>1, <1>4 DEF NoRow
  <2> QED
    BY <2>1, <2>2, <2>3 DEF Agree
<1>7. Agree(status', exec', row')
  <2>1. 0 \in Int
    OBVIOUS
  <2> QED
    BY <1>0, <1>1, <1>2, <1>3, <1>5, <1>6, <2>1, ProcessNextAgrees
<1>8. \A t \in Ids : t > ntask' => retry'[t] = 0 /\ subs'[t] = NoSubs
  <2> SUFFICES ASSUME NEW t \in Ids, t > ntask' PROVE retry'[t] = 0 /\ subs'[t] = NoSubs
    OBVIOUS
  <2>1. NoRow(row[t]) /\ t \notin tasks'
    BY <1>0, <1>6 DEF Sane, Numbered, Fresh, Agree
  <2>2. row[t].status = "none"
    BY <2>1 DEF NoRow
  <2>3. Restored(row[t], t \in old) = Gone
    BY <2>2 DEF Restored, Live, Waitable
  <2>4. retry'[t] = Restored(row[t], t \in old).retry
    BY DEF Restart
  <2>5. retry'[t] = 0
    BY <2>3, <2>4 DEF Gone
  <2> QED
    BY <1>1, <2>1, <2>5
<1> QED
  BY <1>7, <1>8 DEF Stays

LEMMA NextStaysSane ==
  ASSUME Sane, [Next]_vars
  PROVE  Sane'
<1>1. ASSUME NEW c \in Callers, CacheHit(c) PROVE Stays
  <2>1. UNCHANGED <<ntask, tasks, status, subs, retry, shuttingDown, row, exec>>
    BY <1>1 DEF CacheHit, fields
  <2> QED
    BY <2>1, SameMapStays
<1>2. ASSUME NEW c \in Callers, NEW k \in Keys, NEW force \in ForceChoices,
             Enqueue(c, k, force)
      PROVE  Stays
  BY <1>2, EnqueueStays
<1>3. ASSUME NEW t \in Ids, Age(t) PROVE Stays
  <2>1. UNCHANGED <<ntask, tasks, status, subs, retry, shuttingDown, row, exec>>
    BY <1>3 DEF Age, fields
  <2> QED
    BY <2>1, SameMapStays
<1>4. ASSUME NEW t \in Ids, Cancel(t) \/ ShouldYield(t) PROVE Stays
  BY <1>4, CancelStays, ShouldYieldStays
<1>5. ASSUME NEW t \in Ids, NEW st \in {"complete", "yielded", "error"}, Settle(t, st)
      PROVE  Stays
  BY <1>5, SettleStays
<1>6. ASSUME Finally \/ ClearAll \/ Shutdown PROVE Stays
  BY <1>6, FinallyStays, ClearAllStays, ShutdownStays
<1>7. ASSUME NEW old \in SUBSET Ids, Restart(old) PROVE Stays
  BY <1>7, RestartStays
<1>8. ASSUME UNCHANGED vars PROVE Stays
  <2>1. UNCHANGED <<ntask, tasks, status, subs, retry, shuttingDown, row, exec>>
    BY <1>8 DEF vars, fields
  <2> QED
    BY <2>1, SameMapStays
<1>9. Stays
  BY <1>1, <1>2, <1>3, <1>4, <1>5, <1>6, <1>7, <1>8 DEF Next
<1>10. Numbered' /\ Retried' /\ RowsMatchTasks'
  BY <1>9, AgreeIs DEF Stays
<1>11. TypeOK'
  BY NextTyped DEF Sane
<1> QED
  BY <1>10, <1>11 DEF Sane

LEMMA InitSane == Init => Sane
<1> SUFFICES ASSUME Init PROVE Sane
  OBVIOUS
<1>1. TypeOK
  BY InitTyped
<1>2. Numbered
  BY GoneTyped DEF Init, Numbered, Fresh
<1>3. Retried
  BY DEF Init, Retried, Executing
<1>4. RowsMatchTasks
  BY GoneTyped DEF Init, RowsMatchTasks
<1> QED
  BY <1>1, <1>2, <1>3, <1>4 DEF Sane

LEMMA SpecSane == Spec => []Sane
  BY InitSane, NextStaysSane, PTL DEF Spec

\* A task is in the download_queue table exactly while it is in the Map, with
\* its status and retry count, and one that may still be downloaded has failed
\* or been interrupted fewer than MAX_TASK_RETRIES times: restoreAndResume
\* brings back what was there, whatever was cancelled, cleared, shut down or
\* restarted before.
THEOREM RestoresTheMap == Spec => []RestoresWhatWas
<1>1. Sane => RestoresWhatWas
  <2> SUFFICES ASSUME Sane PROVE RestoresWhatWas
    OBVIOUS
  <2>1. TypeOK /\ RowsMatchTasks /\ tasks \subseteq Ids
    BY DEF Sane, TypeOK
  <2>2. \A t \in tasks : status[t] \in Live => retry[t] < MAX_TASK_RETRIES
    BY <2>1 DEF Sane, Retried
  <2> QED
    BY <2>1, <2>2 DEF RestoresWhatWas
<1> QED
  BY <1>1, SpecSane, PTL

-----------------------------------------------------------------------------
(* After shutdown.                                                         *)

LEMMA ProcessNextWritesNothing ==
  ASSUME shuttingDown', NEW st, NEW sig, NEW ex, NEW rows, NEW active,
         ProcessNext(st, sig, ex, rows, active)
  PROVE  row' = rows
  BY DEF ProcessNext, Saved

\* Rows of a queue that is shut down are left alone, deleted or new.
RowsKept == \A t \in Ids : row'[t] = row[t] \/ NoRow(row'[t]) \/ NoRow(row[t])

LEMMA ShutDownRowsAreKept ==
  ASSUME Sane, [Next]_vars, shuttingDown, shuttingDown'
  PROVE  RowsKept
<1>0. row \in [Ids -> Rows]
  BY DEF Sane, TypeOK
<1>1. ASSUME row' = row PROVE RowsKept
  BY <1>1 DEF RowsKept
<1>2. ASSUME NEW c \in Callers, NEW k \in Keys, NEW force \in ForceChoices,
             Enqueue(c, k, force)
      PROVE  RowsKept
  <2>1. CASE Joins(k, force)
    BY <1>1, <1>2, <2>1 DEF Enqueue, Coalesce
  <2>2. CASE ~Joins(k, force)
    <3>1. NewTask(k, c)
      BY <1>2, <2>2 DEF Enqueue
    <3>2. PICK new : row' = [row EXCEPT ![ntask + 1] = new]
      BY <3>1, ProcessNextWritesNothing DEF NewTask
    <3>3. \A t \in Ids : t > ntask => NoRow(row[t])
      BY DEF Sane, Numbered, Fresh
    <3>4. \A t \in Ids : t # ntask + 1 => row'[t] = row[t]
      BY <1>0, <3>2
    <3>5. \A t \in Ids : t = ntask + 1 => t > ntask
      BY DEF Sane, TypeOK
    <3> QED
      BY <3>3, <3>4, <3>5 DEF RowsKept
  <2> QED
    BY <2>1, <2>2
<1>3. ASSUME NEW t \in Ids, Cancel(t) PROVE RowsKept
  <2>1. row' = row \/ row' = [row EXCEPT ![t] = Gone]
    BY <1>3 DEF Cancel, CancelTask, Leave, Deleted
  <2> QED
    BY <1>0, <2>1, GoneTyped DEF RowsKept
<1>4. ASSUME NEW t \in Ids, NEW st \in {"complete", "yielded", "error"}, Settle(t, st)
      PROVE  RowsKept
  BY <1>1, <1>4 DEF Settle, Saved
<1>5. ASSUME Finally PROVE RowsKept
  BY <1>1, <1>5, ProcessNextWritesNothing DEF Finally
<1>6. ASSUME ClearAll PROVE RowsKept
  BY <1>6, GoneTyped DEF ClearAll, RowsKept
<1>7. ASSUME NEW old \in SUBSET Ids, Restart(old) PROVE FALSE
  BY <1>7 DEF Restart
<1>8. ASSUME NEW c \in Callers, CacheHit(c) PROVE RowsKept
  BY <1>1, <1>8 DEF CacheHit
<1>9. ASSUME NEW t \in Ids, Age(t) \/ ShouldYield(t) PROVE RowsKept
  BY <1>1, <1>9 DEF Age, ShouldYield
<1>10. ASSUME Shutdown \/ UNCHANGED vars PROVE RowsKept
  BY <1>1, <1>10 DEF Shutdown, vars
<1> QED
  BY <1>2, <1>3, <1>4, <1>5, <1>6, <1>7, <1>8, <1>9, <1>10 DEF Next

\* Once shutdown was called the row of an aborted download keeps its status,
\* whichever way the download ends, or is deleted by a later cancel: the next
\* start finds it as interrupted and resumes it.
THEOREM ShutdownIsRemembered == Spec => ShutdownKeepsRows
<1>1. Sane /\ [Next]_vars =>
        (shuttingDown /\ shuttingDown' =>
           \A t \in Ids : row[t].status = "downloading" =>
             row'[t].status \in {"downloading", "none"})
  <2> SUFFICES ASSUME Sane, [Next]_vars, shuttingDown, shuttingDown', NEW t \in Ids,
                      row[t].status = "downloading"
               PROVE  row'[t].status \in {"downloading", "none"}
    OBVIOUS
  <2>1. row'[t] = row[t] \/ NoRow(row'[t]) \/ NoRow(row[t])
    BY ShutDownRowsAreKept DEF RowsKept
  <2> QED
    BY <2>1 DEF NoRow
<1>2. Spec => [][shuttingDown /\ shuttingDown' =>
           \A t \in Ids : row[t].status = "downloading" =>
             row'[t].status \in {"downloading", "none"}]_vars
  BY <1>1, SpecSane, PTL DEF Spec
<1> QED
  BY <1>2 DEF ShutdownKeepsRows

-----------------------------------------------------------------------------
(* Priorities.                                                             *)

\* One subscriber: its priority is that of the task.
LEMMA RecalculatedOne ==
  ASSUME NEW c \in Callers, NEW p \in 1..3, NEW r \in 0..MaxReqs
  PROVE  Recalculated([NoSubs EXCEPT ![c] = [prio |-> p, req |-> r]]) = p
<1> DEFINE s == [NoSubs EXCEPT ![c] = [prio |-> p, req |-> r]]
<1>1. [prio |-> p, req |-> r] \in Subs
  BY DEF Subs
<1>2. s \in [Callers -> Subs]
  BY <1>1, NoSubsTyped
<1>3. s[c].prio = p /\ \A d \in Callers \ {c} : s[d].prio = 0
  BY DEF NoSubs, NoSub
<1> HIDE DEF s
<1>4. \A d \in Callers : s[d].prio <= p
  BY <1>3
<1>5. RankIs(s, p)
  BY <1>3, <1>4 DEF RankIs
<1>6. Recalculated(s) = p
  BY <1>2, <1>5, RankIsUnique
<1> QED
  BY <1>6 DEF s

LEMMA SamePriorities ==
  ASSUME Ranked, tasks' \subseteq tasks, UNCHANGED <<prio, subs>>
  PROVE  Ranked'
  BY DEF Ranked

LEMMA RecalculatedRanked ==
  ASSUME Sane, Ranked, tasks' = tasks, NEW t \in tasks, NEW s,
         subs' = [subs EXCEPT ![t] = s], prio' = [prio EXCEPT ![t] = Recalculated(s)]
  PROVE  Ranked'
<1>1. prio \in [Ids -> 1..3] /\ subs \in [Ids -> [Callers -> Subs]] /\ tasks \subseteq Ids
  BY DEF Sane, TypeOK
<1>2. subs'[t] = s /\ prio'[t] = Recalculated(s)
  BY <1>1
<1>3. \A u \in tasks : u # t => subs'[u] = subs[u] /\ prio'[u] = prio[u]
  BY <1>1
<1> QED
  BY <1>2, <1>3 DEF Ranked

LEMMA NewTaskRanked ==
  ASSUME Sane, Ranked, NEW k \in Keys, NEW c \in Callers, Ask(c), NewTask(k, c)
  PROVE  Ranked'
<1> DEFINE t == ntask + 1
<1>0. TypeOK /\ subs \in [Ids -> [Callers -> Subs]] /\ tasks \subseteq Ids
         /\ prio \in [Ids -> 1..3]
  BY DEF Sane, TypeOK
<1>1. t \in Ids /\ t > ntask
  BY <1>0, ConstantsAssumption DEF TypeOK, NewTask, Ids
<1>2. /\ tasks' = tasks \cup {t} /\ prio' = [prio EXCEPT ![t] = Priority[c]]
      /\ subs' = [subs EXCEPT ![t][c] = [prio |-> Priority[c], req |-> Promise(c)]]
  BY DEF NewTask
<1>3. subs[t] = NoSubs /\ t \notin tasks
  BY <1>1 DEF Sane, Numbered, Fresh
<1> HIDE DEF t
<1>4. Priority[c] \in 1..3 /\ Promise(c) \in 0..MaxReqs
  BY <1>0, ConstantsAssumption, PromiseTyped DEF Subs, Promise, Ask, TypeOK
<1>5. /\ subs'[t] = [NoSubs EXCEPT ![c] = [prio |-> Priority[c], req |-> Promise(c)]]
      /\ prio'[t] = Priority[c]
      /\ \A u \in tasks : subs'[u] = subs[u] /\ prio'[u] = prio[u]
  BY <1>0, <1>1, <1>2, <1>3
<1>6. Recalculated(subs'[t]) = prio'[t]
  BY <1>4, <1>5, RecalculatedOne
<1> QED
  BY <1>2, <1>5, <1>6 DEF Ranked

LEMMA NextRanked ==
  ASSUME Sane, Ranked, [Next]_vars
  PROVE  Ranked'
<1>0. TypeOK
  BY DEF Sane
<1>1. ASSUME NEW c \in Callers, NEW k \in Keys, NEW force \in ForceChoices,
             Enqueue(c, k, force)
      PROVE  Ranked'
  <2>1. CASE Joins(k, force)
    <3>1. Coalesce(k, c) /\ Matching(k) # {}
      BY <1>1, <2>1 DEF Enqueue, Joins
    <3>2. PICK t : t = First(Matching(k))
      OBVIOUS
    <3>3. t \in tasks
      BY <1>0, <3>1, <3>2, FirstMatching DEF Matching
    <3>4. tasks' = tasks /\ \E s : /\ subs' = [subs EXCEPT ![t] = s]
                                   /\ prio' = [prio EXCEPT ![t] = Recalculated(s)]
      BY <3>1, <3>2 DEF Coalesce, Joined
    <3> QED
      BY <3>3, <3>4, RecalculatedRanked
  <2>2. CASE ~Joins(k, force)
    BY <1>1, <2>2, NewTaskRanked DEF Enqueue
  <2> QED
    BY <2>1, <2>2
<1>2. ASSUME NEW t \in Ids, Cancel(t) PROVE Ranked'
  <2>1. t \in tasks
    BY <1>2 DEF Cancel
  <2>2. CASE CancelTask(t)
    <3>1. tasks' \subseteq tasks /\ UNCHANGED <<prio, subs>>
      BY <2>2 DEF CancelTask
    <3> QED
      BY <3>1, SamePriorities
  <2>3. ASSUME NEW c \in Callers, Leave(t, c) PROVE Ranked'
    <3>1. tasks' = tasks /\ \E s : /\ subs' = [subs EXCEPT ![t] = s]
                                   /\ prio' = [prio EXCEPT ![t] = Recalculated(s)]
      BY <2>3 DEF Leave
    <3> QED
      BY <2>1, <3>1, RecalculatedRanked
  <2> QED
    BY <1>2, <2>2, <2>3 DEF Cancel
<1>3. ASSUME tasks' \subseteq tasks, UNCHANGED <<prio, subs>> PROVE Ranked'
  BY <1>3, SamePriorities
<1>4. ASSUME NEW t \in Ids, NEW st \in {"complete", "yielded", "error"}, Settle(t, st)
      PROVE  Ranked'
  BY <1>3, <1>4 DEF Settle
<1>5. ASSUME Finally \/ ClearAll \/ Shutdown PROVE Ranked'
  BY <1>3, <1>5 DEF Finally, ClearAll, Shutdown
<1>6. ASSUME NEW old \in SUBSET Ids, Restart(old) PROVE Ranked'
  <2>1. PICK rows \in [Ids -> Rows] :
          /\ tasks' \subseteq Ids
          /\ prio' = [t \in Ids |-> rows[t].prio]
          /\ subs' = [t \in Ids |-> IF t \in tasks'
                        THEN [NoSubs EXCEPT ![rows[t].by] = [prio |-> rows[t].prio, req |-> 0]]
                        ELSE NoSubs]
    BY <1>0, <1>6, RestartIs
  <2> SUFFICES ASSUME NEW t \in tasks' PROVE prio'[t] = Recalculated(subs'[t])
    BY DEF Ranked
  <2>2. t \in Ids /\ rows[t].prio \in 1..3 /\ rows[t].by \in Callers /\ 0 \in 0..MaxReqs
    BY <2>1, ConstantsAssumption DEF Rows
  <2>3. /\ prio'[t] = rows[t].prio
        /\ subs'[t] = [NoSubs EXCEPT ![rows[t].by] = [prio |-> rows[t].prio, req |-> 0]]
    BY <2>1, <2>2
  <2> QED
    BY <2>2, <2>3, RecalculatedOne
<1>7. ASSUME NEW c \in Callers, CacheHit(c) PROVE Ranked'
  BY <1>3, <1>7 DEF CacheHit, fields
<1>8. ASSUME NEW t \in Ids, Age(t) \/ ShouldYield(t) PROVE Ranked'
  BY <1>3, <1>8 DEF Age, ShouldYield, fields
<1>9. ASSUME UNCHANGED vars PROVE Ranked'
  BY <1>3, <1>9 DEF vars, fields
<1> QED
  BY <1>1, <1>2, <1>4, <1>5, <1>6, <1>7, <1>8, <1>9 DEF Next

\* processNext starts a task of the highest true rank.
StartsHighest ==
    \A t \in Ids : exec[t] = "none" /\ exec'[t] = "running" =>
      \A u \in tasks' : status'[u] \in Waitable => TrueRank(u)' <= TrueRank(t)'

LEMMA ProcessNextStartsHighest ==
  ASSUME TypeOK, Ranked', tasks' \subseteq Ids, prio' \in [Ids -> 1..3],
         NEW st \in [Ids -> Status], NEW sig, NEW ex \in [Ids -> Executing \cup {"none"}],
         NEW rows, NEW active \in Int, ProcessNext(st, sig, ex, rows, active),
         \A t \in tasks' : boost'[t] = boost[t],
         \A t \in Ids : ex[t] = "running" => exec[t] = "running"
  PROVE  StartsHighest
<1> SUFFICES ASSUME NEW t \in Ids, exec[t] = "none", exec'[t] = "running",
                    NEW u \in tasks', status'[u] \in Waitable
             PROVE  TrueRank(u)' <= TrueRank(t)'
  BY DEF StartsHighest
<1>1. PICK v \in Ids : Starts(v, st, sig, ex, rows, active)
  <2>1. ~StartsNone(st, sig, ex, rows, active)
    BY DEF StartsNone
  <2> QED
    BY <2>1, ProcessNextStarts
<1>2. v = t
  <2>1. exec' = [ex EXCEPT ![v] = "running"]
    BY <1>1 DEF Starts
  <2> QED
    BY <2>1
<1>3. t \in tasks' /\ u \in Ids /\ status' = [st EXCEPT ![t] = "downloading"]
  BY <1>1, <1>2 DEF Starts
<1>4. st[u] \in Waitable
  BY <1>3 DEF Waitable
<1>5. RankOf(prio'[u], u) <= RankOf(prio'[t], t)
  BY <1>1, <1>2, <1>4 DEF Starts
<1>6. ASSUME NEW w \in tasks' PROVE TrueRank(w)' = RankOf(prio'[w], w)
  <2>1. prio'[w] = Recalculated(subs[w])' /\ boost'[w] = boost[w]
    BY DEF Ranked
  <2> QED
    BY <2>1 DEF TrueRank, RankOf
<1>7. TrueRank(u)' = RankOf(prio'[u], u) /\ TrueRank(t)' = RankOf(prio'[t], t)
  BY <1>3, <1>6
<1> QED
  BY <1>5, <1>7

LEMMA NextStartsHighest ==
  ASSUME Sane, Ranked', [Next]_vars
  PROVE  StartsHighest
<1>0. TypeOK /\ exec \in [Ids -> Executing \cup {"none"}]
  BY DEF Sane, TypeOK
<1>1. ASSUME exec' = exec PROVE StartsHighest
  BY <1>1 DEF StartsHighest
<1>2. ASSUME NEW c \in Callers, NEW k \in Keys, NEW force \in ForceChoices,
             Enqueue(c, k, force)
      PROVE  StartsHighest
  <2>1. CASE Joins(k, force)
    BY <1>1, <1>2, <2>1 DEF Enqueue, Coalesce
  <2>2. CASE ~Joins(k, force)
    <3>1. NewTask(k, c) /\ Ask(c) /\ boost' = boost
      BY <1>2, <2>2 DEF Enqueue
    <3>2. tasks' \subseteq Ids /\ prio' \in [Ids -> 1..3]
      BY <1>0, <3>1, NewTaskTyped
    <3>3. PICK st, rows : /\ st = [status EXCEPT ![ntask + 1] = "queued"]
                          /\ ProcessNext(st, signal, exec, rows, activeCount)
      BY <3>1 DEF NewTask
    <3>4. st \in [Ids -> Status] /\ activeCount \in Int
      BY <1>0, <3>3 DEF TypeOK, Status, Live, Waitable
    <3> QED
      BY <1>0, <3>1, <3>2, <3>3, <3>4, ProcessNextStartsHighest
  <2> QED
    BY <2>1, <2>2
<1>3. ASSUME Finally PROVE StartsHighest
  <2>1. UNCHANGED <<tasks, prio, boost>> /\ ProcessNext(status, signal, exec, row, activeCount - 1)
    BY <1>3 DEF Finally
  <2>2. /\ tasks' \subseteq Ids /\ prio' \in [Ids -> 1..3] /\ status \in [Ids -> Status]
        /\ activeCount - 1 \in Int
    BY <1>0, <2>1 DEF TypeOK
  <2> QED
    BY <1>0, <2>1, <2>2, ProcessNextStartsHighest
<1>4. ASSUME NEW old \in SUBSET Ids, Restart(old) PROVE StartsHighest
  <2>1. PICK rows \in [Ids -> Rows] :
          /\ \A t \in Ids : rows[t].status \in {"none", "queued"}
          /\ tasks' \subseteq Ids
          /\ boost' = [t \in Ids |-> IF t \in tasks' THEN boost[t] ELSE 0]
          /\ ProcessNext([t \in Ids |-> rows[t].status], [t \in Ids |-> "null"],
                         [t \in Ids |-> "none"], rows, 0)
    BY <1>0, <1>4, RestartIs
  <2>2. prio' \in [Ids -> 1..3]
    BY <1>0, <1>4, RestartTyped DEF TypeOK
  <2> DEFINE st == [t \in Ids |-> rows[t].status]
             ex == [t \in Ids |-> "none"]
  <2>3. /\ st \in [Ids -> Status] /\ ex \in [Ids -> Executing \cup {"none"}] /\ 0 \in Int
        /\ \A t \in Ids : ex[t] = "running" => exec[t] = "running"
    BY <2>1 DEF Status, Live, Waitable
  <2>4. ProcessNext(st, [t \in Ids |-> "null"], ex, rows, 0)
    BY <2>1
  <2> HIDE DEF st, ex
  <2>5. \A t \in tasks' : boost'[t] = boost[t]
    BY <2>1
  <2> QED
    BY <1>0, <2>1, <2>2, <2>3, <2>4, <2>5, ProcessNextStartsHighest
<1>5. ASSUME NEW t \in Ids, Cancel(t) \/ Age(t) PROVE StartsHighest
  BY <1>1, <1>5 DEF Cancel, Age
<1>6. ASSUME NEW t \in Ids, ShouldYield(t) PROVE StartsHighest
  <2>1. exec' = [exec EXCEPT ![t] = "yielding"] /\ exec[t] = "running"
    BY <1>6 DEF ShouldYield
  <2> QED
    BY <1>0, <2>1 DEF StartsHighest
<1>7. ASSUME NEW t \in Ids, NEW st \in {"complete", "yielded", "error"}, Settle(t, st)
      PROVE  StartsHighest
  <2>1. exec' = [exec EXCEPT ![t] = "none"]
    BY <1>7 DEF Settle
  <2> QED
    BY <1>0, <2>1 DEF StartsHighest
<1>8. ASSUME NEW c \in Callers, CacheHit(c) PROVE StartsHighest
  BY <1>1, <1>8 DEF CacheHit
<1>9. ASSUME ClearAll \/ Shutdown \/ UNCHANGED vars PROVE StartsHighest
  BY <1>1, <1>9 DEF ClearAll, Shutdown, vars
<1> QED
  BY <1>2, <1>3, <1>4, <1>5, <1>6, <1>7, <1>8, <1>9 DEF Next

LEMMA SpecRanked == Spec => [](Sane /\ Ranked)
<1>1. Init => Sane /\ Ranked
  BY InitSane DEF Init, Ranked
<1>2. Sane /\ Ranked /\ [Next]_vars => Sane' /\ Ranked'
  BY NextStaysSane, NextRanked
<1> QED
  BY <1>1, <1>2, PTL DEF Spec

\* Whatever was joined, left, cancelled, aged or restored before, the download
\* that processNext starts has the highest rank its subscribers and its age
\* give to any task that waits: the effectivePriority it compares is cached in
\* the task, and is never out of date.
THEOREM HighestIsStarted == Spec => HighestStartsFirst
<1>1. Sane /\ Ranked' /\ [Next]_vars =>
        (\A t \in Ids : exec[t] = "none" /\ exec'[t] = "running" =>
           \A u \in tasks' : status'[u] \in Waitable => TrueRank(u)' <= TrueRank(t)')
  BY NextStartsHighest DEF StartsHighest
<1>2. Spec => [][\A t \in Ids : exec[t] = "none" /\ exec'[t] = "running" =>
           \A u \in tasks' : status'[u] \in Waitable => TrueRank(u)' <= TrueRank(t)']_vars
  BY <1>1, SpecRanked, PTL DEF Spec
<1> QED
  BY <1>2 DEF HighestStartsFirst

-----------------------------------------------------------------------------
(* Series and their subscribers.                                           *)

MappedAs(st, sig, ex) ==
    \A t \in Ids : ex[t] \in Executing =>
      t \in tasks' /\ st[t] = "downloading" /\ sig[t] # "null"

LEMMA ProcessNextMapped ==
  ASSUME TypeOK, tasks' \subseteq Ids, prio' \in [Ids -> 1..3],
         NEW st \in [Ids -> Status], NEW sig \in [Ids -> Signals],
         NEW ex \in [Ids -> Executing \cup {"none"}], NEW rows, NEW active \in Int,
         ProcessNext(st, sig, ex, rows, active), MappedAs(st, sig, ex)
  PROVE  Mapped'
<1>1. CASE StartsNone(st, sig, ex, rows, active)
  BY <1>1 DEF StartsNone, MappedAs, Mapped
<1>2. ASSUME NEW t \in Ids, Starts(t, st, sig, ex, rows, active) PROVE Mapped'
  <2>1. /\ t \in tasks'
        /\ status' = [st EXCEPT ![t] = "downloading"] /\ signal' = [sig EXCEPT ![t] = "live"]
        /\ exec' = [ex EXCEPT ![t] = "running"]
    BY <1>2 DEF Starts
  <2>2. status'[t] = "downloading" /\ signal'[t] = "live"
    BY <2>1
  <2>3. \A u \in Ids : u # t => status'[u] = st[u] /\ signal'[u] = sig[u] /\ exec'[u] = ex[u]
    BY <2>1
  <2> QED
    BY <2>1, <2>2, <2>3 DEF MappedAs, Mapped
<1> QED
  BY <1>1, <1>2, ProcessNextStarts

LEMMA NextMapped ==
  ASSUME ~ClearAllUsed, Sane, Mapped, [Next]_vars
  PROVE  Mapped'
<1>0. /\ TypeOK /\ exec \in [Ids -> Executing \cup {"none"}] /\ signal \in [Ids -> Signals]
      /\ status \in [Ids -> Status] /\ activeCount \in Int
  BY DEF Sane, TypeOK
<1>1. ASSUME tasks \subseteq tasks', UNCHANGED <<status, signal, exec>> PROVE Mapped'
  BY <1>1 DEF Mapped
<1>2. ASSUME NEW c \in Callers, NEW k \in Keys, NEW force \in ForceChoices,
             Enqueue(c, k, force)
      PROVE  Mapped'
  <2>1. CASE Joins(k, force)
    BY <1>1, <1>2, <2>1 DEF Enqueue, Coalesce
  <2>2. CASE ~Joins(k, force)
    <3>1. NewTask(k, c) /\ Ask(c)
      BY <1>2, <2>2 DEF Enqueue
    <3>2. tasks' \subseteq Ids /\ prio' \in [Ids -> 1..3]
      BY <1>0, <3>1, NewTaskTyped
    <3>3. PICK st, rows : /\ st = [status EXCEPT ![ntask + 1] = "queued"]
                          /\ ProcessNext(st, signal, exec, rows, activeCount)
      BY <3>1 DEF NewTask
    <3>4. st \in [Ids -> Status]
      BY <1>0, <3>3 DEF Status, Live, Waitable
    <3>5. \A u \in Ids : exec[u] \in Executing => u # ntask + 1
      BY <1>0 DEF Sane, Numbered, Fresh, Executing, TypeOK
    <3>6. tasks \subseteq tasks'
      BY <3>1 DEF NewTask
    <3>7. MappedAs(st, signal, exec)
      BY <1>0, <3>3, <3>5, <3>6 DEF MappedAs, Mapped
    <3> QED
      BY <1>0, <3>2, <3>3, <3>4, <3>7, ProcessNextMapped
  <2> QED
    BY <2>1, <2>2
<1>3. ASSUME NEW t \in Ids, Cancel(t) PROVE Mapped'
  <2>1. UNCHANGED <<status, exec>>
    BY <1>3 DEF Cancel
  <2>2. \/ tasks' = tasks /\ signal' = signal
        \/ tasks' = tasks /\ signal' = [signal EXCEPT ![t] = "aborted"]
        \/ /\ ~(status[t] = "downloading" /\ signal[t] # "null")
           /\ tasks' = tasks \ {t} /\ signal' = signal
    BY <1>3 DEF Cancel, CancelTask, Leave
  <2> QED
    BY <1>0, <2>1, <2>2 DEF Mapped
<1>4. ASSUME Shutdown PROVE Mapped'
  <2>1. UNCHANGED <<status, exec, tasks>> /\ \A t \in Ids : signal[t] # "null" => signal'[t] # "null"
    BY <1>4 DEF Shutdown
  <2> QED
    BY <2>1 DEF Mapped
<1>5. ASSUME NEW t \in Ids, ShouldYield(t) PROVE Mapped'
  <2>1. /\ exec' = [exec EXCEPT ![t] = "yielding"] /\ exec[t] \in Executing
        /\ UNCHANGED <<tasks, status, signal>>
    BY <1>5 DEF ShouldYield, fields, Executing
  <2> QED
    BY <1>0, <2>1 DEF Mapped
<1>6. ASSUME NEW t \in Ids, NEW st \in {"complete", "yielded", "error"}, Settle(t, st)
      PROVE  Mapped'
  <2>1. /\ exec' = [exec EXCEPT ![t] = "none"] /\ status' = [status EXCEPT ![t] = st]
        /\ signal' = [signal EXCEPT ![t] = "null"] /\ tasks' = tasks
    BY <1>6 DEF Settle
  <2>2. exec'[t] \notin Executing
    BY <1>0, <2>1 DEF Executing
  <2>3. \A u \in Ids : u # t =>
          exec'[u] = exec[u] /\ status'[u] = status[u] /\ signal'[u] = signal[u]
    BY <1>0, <2>1
  <2> QED
    BY <2>1, <2>2, <2>3 DEF Mapped
<1>7. ASSUME Finally PROVE Mapped'
  <2>1. /\ UNCHANGED <<tasks, prio>>
        /\ ProcessNext(status, signal, exec, row, activeCount - 1)
    BY <1>7 DEF Finally
  <2>2. tasks' \subseteq Ids /\ prio' \in [Ids -> 1..3] /\ activeCount - 1 \in Int
    BY <1>0, <2>1 DEF TypeOK
  <2>3. MappedAs(status, signal, exec)
    BY <2>1 DEF Mapped, MappedAs
  <2> QED
    BY <1>0, <2>1, <2>2, <2>3, ProcessNextMapped
<1>8. ASSUME NEW old \in SUBSET Ids, Restart(old) PROVE Mapped'
  <2>1. PICK rows \in [Ids -> Rows] :
          /\ \A t \in Ids : rows[t].status \in {"none", "queued"}
          /\ tasks' \subseteq Ids
          /\ ProcessNext([t \in Ids |-> rows[t].status], [t \in Ids |-> "null"],
                         [t \in Ids |-> "none"], rows, 0)
    BY <1>0, <1>8, RestartIs
  <2>2. prio' \in [Ids -> 1..3]
    BY <1>0, <1>8, RestartTyped DEF TypeOK
  <2> DEFINE st == [t \in Ids |-> rows[t].status]
             ex == [t \in Ids |-> "none"]
             sig == [t \in Ids |-> "null"]
  <2>3. /\ st \in [Ids -> Status] /\ ex \in [Ids -> Executing \cup {"none"}]
        /\ sig \in [Ids -> Signals] /\ 0 \in Int
    BY <2>1 DEF Status, Live, Waitable, Signals
  <2>4. MappedAs(st, sig, ex)
    BY DEF MappedAs, Executing
  <2>5. ProcessNext(st, sig, ex, rows, 0)
    BY <2>1
  <2> HIDE DEF st, ex, sig
  <2> QED
    BY <1>0, <2>1, <2>2, <2>3, <2>4, <2>5, ProcessNextMapped
<1>9. ASSUME NEW c \in Callers, CacheHit(c) PROVE Mapped'
  BY <1>1, <1>9 DEF CacheHit, fields
<1>10. ASSUME NEW t \in Ids, Age(t) PROVE Mapped'
  BY <1>1, <1>10 DEF Age, fields
<1>11. ASSUME UNCHANGED vars PROVE Mapped'
  BY <1>1, <1>11 DEF vars, fields
<1>12. ~ClearAll
  BY DEF ClearAll
<1> QED
  BY <1>2, <1>3, <1>4, <1>5, <1>6, <1>7, <1>8, <1>9, <1>10, <1>11, <1>12 DEF Next

\* What OneTaskPerSeries is about: no request forces a download, no caller asks
\* again before it is answered, clearAll (which answers nobody) is not called,
\* and shutdown, after which the table stays behind the Map, is not followed by
\* a restart of the same queue.
PlainRequests ==
    /\ ForceChoices \subseteq {FALSE}
    /\ ~SameCallerTwice
    /\ ~ClearAllUsed
    /\ ~ShutdownUsed \/ MaxRestarts = 0

Series == Alone /\ Heard /\ (shuttingDown => ShutdownUsed)

LEMMA ProcessNextKeepsLive ==
  ASSUME TypeOK, tasks' \subseteq Ids, prio' \in [Ids -> 1..3],
         NEW st \in [Ids -> Status], NEW sig, NEW ex, NEW rows, NEW active \in Int,
         ProcessNext(st, sig, ex, rows, active)
  PROVE  \A t \in Ids : status'[t] \in Live <=> st[t] \in Live
<1>1. CASE StartsNone(st, sig, ex, rows, active)
  BY <1>1 DEF StartsNone
<1>2. ASSUME NEW t \in Ids, Starts(t, st, sig, ex, rows, active), NEW u \in Ids
      PROVE  status'[u] \in Live <=> st[u] \in Live
  BY <1>2 DEF Starts, Live
<1> QED
  BY <1>1, <1>2, ProcessNextStarts

\* The same live tasks with the same keys are alone.
LEMMA SameSeries ==
  ASSUME Alone, UNCHANGED key, \A t \in Ids : LiveTask(t)' => LiveTask(t)
  PROVE  Alone'
  BY DEF Alone

\* Who has not been answered is still heard.
LEMMA StillHeard ==
  ASSUME Heard, subs' = subs,
         \A r \in Reqs : answer'[r] = "waiting" => answer[r] = "waiting",
         \A t \in Ids : LiveTask(t) =>
           LiveTask(t)' \/ \A r \in Reqs, c \in Callers :
                             subs[t][c].req = r => answer'[r] # "waiting"
  PROVE  Heard'
<1> SUFFICES ASSUME NEW r \in Reqs, answer'[r] = "waiting" PROVE Awaited(r)'
  BY DEF Heard
<1>1. PICK t \in Ids, c \in Callers : LiveTask(t) /\ subs[t][c].req = r
  BY DEF Heard, Awaited
<1>2. LiveTask(t)'
  BY <1>1
<1> QED
  BY <1>1, <1>2 DEF Awaited

\* Nobody that still waits is subscribed to task t as c.
Free(t, c) == \A r \in Reqs : subs[t][c].req = r => answer[r] # "waiting"

\* A request of c that joins or makes the live task t is heard, and replaces
\* nobody who waits.
LEMMA RequestHeard ==
  ASSUME Sane, Heard, NEW t \in Ids, NEW c \in Callers, Free(t, c), Ask(c),
         answer' = IF c \in Awaiting THEN Answered({nreq + 1}, "waiting") ELSE answer,
         subs' = [subs EXCEPT ![t][c] = [prio |-> Priority[c], req |-> Promise(c)]],
         \A u \in Ids : LiveTask(u) => LiveTask(u)', LiveTask(t)'
  PROVE  Heard'
<1> SUFFICES ASSUME NEW r \in Reqs, answer'[r] = "waiting" PROVE Awaited(r)'
  BY DEF Heard
<1>0. subs \in [Ids -> [Callers -> Subs]]
  BY DEF Sane, TypeOK
<1>1. /\ subs'[t][c] = [prio |-> Priority[c], req |-> Promise(c)]
      /\ \A u \in Ids, d \in Callers : u # t \/ d # c => subs'[u][d] = subs[u][d]
  BY <1>0
<1>2. CASE c \in Awaiting /\ r = nreq + 1
  BY <1>1, <1>2 DEF Awaited, Promise
<1>3. CASE ~(c \in Awaiting /\ r = nreq + 1)
  <2>1. answer[r] = "waiting"
    BY <1>3 DEF Answered
  <2>2. PICK u \in Ids, d \in Callers : LiveTask(u) /\ subs[u][d].req = r
    BY <2>1 DEF Heard, Awaited
  <2>3. u # t \/ d # c
    BY <2>1, <2>2 DEF Free
  <2>4. subs'[u][d].req = r /\ LiveTask(u)'
    BY <1>1, <2>2, <2>3
  <2> QED
    BY <2>4 DEF Awaited
<1> QED
  BY <1>2, <1>3

LEMMA EnqueueSeries ==
  ASSUME PlainRequests, Sane, Series, NEW c \in Callers, NEW k \in Keys,
         NEW force \in ForceChoices, Enqueue(c, k, force)
  PROVE  Series'
<1>0. /\ TypeOK /\ key \in [Ids -> Keys] /\ status \in [Ids -> Status] /\ activeCount \in Int
      /\ tasks \subseteq Ids /\ subs \in [Ids -> [Callers -> Subs]]
  BY DEF Sane, TypeOK
<1>1. ~force
  BY DEF PlainRequests
<1>2. /\ Ask(c) /\ shuttingDown' = shuttingDown
      /\ answer' = IF c \in Awaiting THEN Answered({nreq + 1}, "waiting") ELSE answer
      /\ \A t \in Ids : key[t] = k => subs[t][c].req \notin Told(t)
  BY DEF Enqueue, PlainRequests
<1>3. CASE Matching(k) # {}
  <2>1. Coalesce(k, c)
    BY <1>1, <1>3 DEF Enqueue, Joins
  <2>2. PICK t : t = First(Matching(k))
    OBVIOUS
  <2>3. t \in Ids /\ LiveTask(t) /\ key[t] = k
    BY <1>0, <1>3, <2>2, FirstMatching DEF Matching, LiveTask
  <2>4. UNCHANGED <<tasks, status, key>>
    BY <2>1 DEF Coalesce
  <2>5. Free(t, c)
    BY <1>2, <2>3 DEF Told, Free
  <2>6. subs' = [subs EXCEPT ![t][c] = [prio |-> Priority[c], req |-> Promise(c)]]
    BY <2>1, <2>2 DEF Coalesce, Joined
  <2>7. \A u \in Ids : LiveTask(u)' <=> LiveTask(u)
    BY <2>4 DEF LiveTask
  <2>8. Heard'
    BY <1>2, <2>3, <2>5, <2>6, <2>7, RequestHeard DEF Series
  <2>9. Alone'
    BY <2>4, <2>7, SameSeries DEF Series
  <2> QED
    BY <1>2, <2>8, <2>9 DEF Series
<1>4. CASE Matching(k) = {}
  <2>1. NewTask(k, c)
    BY <1>4 DEF Enqueue, Joins
  <2>2. PICK t : t = ntask + 1
    OBVIOUS
  <2>3. t \in Ids /\ t > ntask
    BY <1>0, <2>1, <2>2, ConstantsAssumption DEF TypeOK, NewTask, Ids
  <2>4. PICK rows :
          /\ tasks' = tasks \cup {t} /\ key' = [key EXCEPT ![t] = k]
          /\ subs' = [subs EXCEPT ![t][c] = [prio |-> Priority[c], req |-> Promise(c)]]
          /\ ProcessNext([status EXCEPT ![t] = "queued"], signal, exec, rows, activeCount)
    BY <2>1, <2>2 DEF NewTask
  <2>5. tasks' \subseteq Ids /\ prio' \in [Ids -> 1..3]
    BY <1>0, <1>2, <2>1, NewTaskTyped
  <2> DEFINE st == [status EXCEPT ![t] = "queued"]
  <2>6. st \in [Ids -> Status] /\ st[t] \in Live /\ \A u \in Ids \ {t} : st[u] = status[u]
    BY <1>0, <2>3 DEF Status, Live, Waitable
  <2>7. \A u \in Ids : status'[u] \in Live <=> st[u] \in Live
    BY <1>0, <2>4, <2>5, <2>6, ProcessNextKeepsLive
  <2>8. LiveTask(t)' /\ \A u \in Ids : u # t => (LiveTask(u)' <=> LiveTask(u))
    BY <2>3, <2>4, <2>6, <2>7 DEF LiveTask
  <2>9. subs[t] = NoSubs /\ ~LiveTask(t)
    BY <2>3 DEF Sane, Numbered, Fresh, LiveTask
  <2>10. Free(t, c)
    <3>1. subs[t][c].req = 0
      BY <2>9 DEF NoSubs, NoSub
    <3> QED
      BY <3>1 DEF Free, Reqs
  <2>11. Heard'
    BY <1>2, <2>3, <2>4, <2>8, <2>9, <2>10, RequestHeard DEF Series
  <2>12. \A u \in Ids : LiveTask(u) => key[u] # k
    BY <1>4 DEF Matching, LiveTask
  <2>13. key'[t] = k /\ \A u \in Ids : u # t => key'[u] = key[u]
    BY <1>0, <2>3, <2>4
  <2>14. Alone'
    BY <2>8, <2>12, <2>13 DEF Series, Alone
  <2> QED
    BY <1>2, <2>11, <2>14 DEF Series
<1> QED
  BY <1>3, <1>4

LEMMA CancelSeries ==
  ASSUME Sane, Series, NEW t \in Ids, Cancel(t)
  PROVE  Series'
<1>0. subs \in [Ids -> [Callers -> Subs]] /\ t \in tasks
  BY DEF Sane, TypeOK, Cancel
<1>1. UNCHANGED <<key, status, shuttingDown>> /\ tasks' \subseteq tasks
  BY DEF Cancel, CancelTask, Leave
<1>2. Alone'
  <2>1. \A u \in Ids : LiveTask(u)' => LiveTask(u)
    BY <1>1 DEF LiveTask
  <2> QED
    BY <1>1, <2>1, SameSeries DEF Series
<1>3. ASSUME CancelTask(t) PROVE Heard'
  <2>1. /\ answer' = Answered(Told(t), "rejected") /\ subs' = subs
        /\ \A u \in tasks : u # t => u \in tasks'
    BY <1>3 DEF CancelTask
  <2>2. \A r \in Reqs : answer'[r] = "waiting" => answer[r] = "waiting" /\ r \notin Told(t)
    BY <2>1 DEF Answered
  <2>3. \A r \in Reqs, c \in Callers : subs[t][c].req = r => answer'[r] # "waiting"
    BY <2>2 DEF Told
  <2>4. \A u \in Ids : LiveTask(u) => LiveTask(u)' \/ u = t
    BY <1>1, <2>1 DEF LiveTask
  <2> QED
    BY <2>1, <2>2, <2>3, <2>4, StillHeard DEF Series
<1>4. ASSUME NEW c \in Callers, Leave(t, c) PROVE Heard'
  <2> SUFFICES ASSUME NEW r \in Reqs, answer'[r] = "waiting" PROVE Awaited(r)'
    BY DEF Heard
  <2>1. /\ answer' = Answered({subs[t][c].req} \cap Told(t), "rejected")
        /\ subs' = [subs EXCEPT ![t] = [subs[t] EXCEPT ![c] = NoSub]]
        /\ tasks' = tasks
    BY <1>4 DEF Leave
  <2>2. answer[r] = "waiting" /\ r \notin {subs[t][c].req} \cap Told(t)
    BY <2>1 DEF Answered
  <2>3. PICK u \in Ids, d \in Callers : LiveTask(u) /\ subs[u][d].req = r
    BY <2>2 DEF Series, Heard, Awaited
  <2>4. u # t \/ d # c
    BY <2>2, <2>3 DEF Told
  <2>5. subs'[u][d] = subs[u][d]
    BY <1>0, <2>1, <2>4
  <2>6. LiveTask(u)'
    BY <1>1, <2>1, <2>3 DEF LiveTask
  <2> QED
    BY <2>3, <2>5, <2>6 DEF Awaited
<1>5. Heard'
  BY <1>3, <1>4 DEF Cancel
<1> QED
  BY <1>1, <1>2, <1>5 DEF Series

LEMMA SettleSeries ==
  ASSUME Sane, Mapped, Series, NEW t \in Ids, NEW st \in {"complete", "yielded", "error"},
         Settle(t, st)
  PROVE  Series'
<1>0. status \in [Ids -> Status]
  BY DEF Sane, TypeOK
<1>1. /\ UNCHANGED <<tasks, key, subs, shuttingDown>>
      /\ status' = [status EXCEPT ![t] = st] /\ answer' = Notified(t, st)
      /\ exec[t] \in Executing
  BY DEF Settle, Executing
<1>2. LiveTask(t)
  BY <1>1 DEF Mapped, LiveTask, Live
<1>3. \A u \in Ids : u # t => (LiveTask(u)' <=> LiveTask(u))
  BY <1>0, <1>1 DEF LiveTask
<1>4. Alone'
  BY <1>1, <1>2, <1>3, SameSeries DEF Series
<1>5. CASE st = "yielded"
  <2>1. answer' = answer /\ LiveTask(t)'
    BY <1>0, <1>1, <1>2, <1>5 DEF Notified, LiveTask, Live, Waitable
  <2>2. Heard'
    BY <1>1, <1>3, <2>1, StillHeard DEF Series
  <2> QED
    BY <1>1, <1>4, <2>2 DEF Series
<1>6. CASE st # "yielded"
  <2>1. PICK o \in {"resolved", "rejected"} : answer' = Answered(Told(t), o)
    BY <1>1, <1>6 DEF Notified
  <2>2. \A r \in Reqs : answer'[r] = "waiting" => answer[r] = "waiting" /\ r \notin Told(t)
    BY <2>1 DEF Answered
  <2>3. \A r \in Reqs, c \in Callers : subs[t][c].req = r => answer'[r] # "waiting"
    BY <2>2 DEF Told
  <2>4. Heard'
    BY <1>1, <1>3, <2>2, <2>3, StillHeard DEF Series
  <2> QED
    BY <1>1, <1>4, <2>4 DEF Series
<1> QED
  BY <1>5, <1>6

LEMMA FinallySeries ==
  ASSUME Sane, Series, Finally
  PROVE  Series'
<1>1. /\ UNCHANGED <<tasks, key, prio, subs, answer, shuttingDown>>
      /\ ProcessNext(status, signal, exec, row, activeCount - 1)
  BY DEF Finally
<1>2. /\ TypeOK /\ tasks' \subseteq Ids /\ prio' \in [Ids -> 1..3]
      /\ status \in [Ids -> Status] /\ activeCount - 1 \in Int
  BY <1>1 DEF Sane, TypeOK
<1>3. \A t \in Ids : status'[t] \in Live <=> status[t] \in Live
  BY <1>1, <1>2, ProcessNextKeepsLive
<1>4. \A t \in Ids : LiveTask(t)' <=> LiveTask(t)
  BY <1>1, <1>3 DEF LiveTask
<1>5. Alone'
  BY <1>1, <1>4, SameSeries DEF Series
<1>6. Heard'
  BY <1>1, <1>4, StillHeard DEF Series
<1> QED
  BY <1>1, <1>5, <1>6 DEF Series

LEMMA RestartSeries ==
  ASSUME PlainRequests, Sane, Series, NEW old \in SUBSET Ids, Restart(old)
  PROVE  Series'
<1>0. TypeOK
  BY DEF Sane
<1>1. ~shuttingDown
  BY <1>0, ConstantsAssumption DEF PlainRequests, Series, Restart, TypeOK
<1>2. /\ key' = key /\ shuttingDown' = FALSE
      /\ answer' = Answered({r \in Reqs : answer[r] = "waiting"}, "lost")
  BY DEF Restart
<1>3. PICK rows \in [Ids -> Rows] :
        \A t \in Ids : t \in tasks' => row[t].status \in Live
  BY <1>0, RestartIs
<1>4. \A t \in Ids : LiveTask(t)' => LiveTask(t)
  <2> SUFFICES ASSUME NEW t \in Ids, t \in tasks' PROVE LiveTask(t)
    BY DEF LiveTask
  <2>1. row[t].status \in Live /\ ~NoRow(row[t])
    BY <1>3 DEF NoRow, Live, Waitable
  <2>2. t \in tasks /\ row[t].status = status[t]
    BY <1>1, <2>1 DEF Sane, RowsMatchTasks
  <2> QED
    BY <2>1, <2>2 DEF LiveTask
<1>5. Alone'
  BY <1>2, <1>4, SameSeries DEF Series
<1>6. \A r \in Reqs : answer'[r] # "waiting"
  BY <1>2 DEF Answered
<1>7. Heard'
  BY <1>6 DEF Heard
<1> QED
  BY <1>2, <1>5, <1>7 DEF Series

LEMMA NextSeries ==
  ASSUME PlainRequests, Sane, Mapped, Series, [Next]_vars
  PROVE  Series'
<1>1. ASSUME UNCHANGED <<tasks, key, status, subs>>, shuttingDown' => ShutdownUsed,
             \A r \in Reqs : answer'[r] = "waiting" => answer[r] = "waiting"
      PROVE  Series'
  <2>1. \A t \in Ids : LiveTask(t)' <=> LiveTask(t)
    BY <1>1 DEF LiveTask
  <2>2. Alone'
    BY <1>1, <2>1, SameSeries DEF Series
  <2>3. Heard'
    BY <1>1, <2>1, StillHeard DEF Series
  <2> QED
    BY <1>1, <2>2, <2>3 DEF Series
<1>2. ASSUME NEW c \in Callers, CacheHit(c) PROVE Series'
  <2>1. \A r \in Reqs : answer'[r] = "waiting" => answer[r] = "waiting"
    BY <1>2 DEF CacheHit, Answered
  <2> QED
    BY <1>1, <1>2, <2>1 DEF CacheHit, fields, Series
<1>3. ASSUME NEW c \in Callers, NEW k \in Keys, NEW force \in ForceChoices,
             Enqueue(c, k, force)
      PROVE  Series'
  BY <1>3, EnqueueSeries
<1>4. ASSUME NEW t \in Ids, Cancel(t) PROVE Series'
  BY <1>4, CancelSeries
<1>5. ASSUME NEW t \in Ids, Age(t) \/ ShouldYield(t) PROVE Series'
  BY <1>1, <1>5 DEF Age, ShouldYield, fields, Series
<1>6. ASSUME NEW t \in Ids, NEW st \in {"complete", "yielded", "error"}, Settle(t, st)
      PROVE  Series'
  BY <1>6, SettleSeries
<1>7. ASSUME Shutdown PROVE Series'
  BY <1>1, <1>7 DEF Shutdown
<1>8. ASSUME UNCHANGED vars PROVE Series'
  BY <1>1, <1>8 DEF vars, fields, Series
<1>9. ~ClearAll
  BY DEF ClearAll, PlainRequests
<1>10. ASSUME Finally PROVE Series'
  BY <1>10, FinallySeries
<1>11. ASSUME NEW old \in SUBSET Ids, Restart(old) PROVE Series'
  BY <1>11, RestartSeries
<1> QED
  BY <1>2, <1>3, <1>4, <1>5, <1>6, <1>7, <1>8, <1>9, <1>10, <1>11 DEF Next

\* Requests that do not force a download share one live task per coalescing
\* key, and a caller whose promise is not settled is a subscriber of a live
\* task, through cancels, preemption, failures and restarts: findTaskByKey joins
\* before processNext can run, and every way a task leaves the Map or ends
\* answers its subscribers first.
THEOREM SeriesAreShared ==
  ASSUME PlainRequests
  PROVE  Spec => []OneTaskPerSeries
<1>1. Init => Sane /\ Mapped /\ Series
  <2> SUFFICES ASSUME Init PROVE Sane /\ Mapped /\ Series
    OBVIOUS
  <2>1. Sane
    BY InitSane
  <2>2. Mapped
    BY DEF Init, Mapped, Executing
  <2>3. Alone
    BY DEF Init, Alone, LiveTask
  <2>4. Heard
    BY DEF Init, Heard
  <2> QED
    BY <2>1, <2>2, <2>3, <2>4 DEF Series, Init
<1>2. Sane /\ Mapped /\ Series /\ [Next]_vars => Sane' /\ Mapped' /\ Series'
  BY NextStaysSane, NextMapped, NextSeries DEF PlainRequests
<1>3. Sane /\ Series => OneTaskPerSeries
  <2> SUFFICES ASSUME Sane, Series PROVE OneTaskPerSeries
    OBVIOUS
  <2>1. tasks \subseteq Ids
    BY DEF Sane, TypeOK
  <2>2. ASSUME NEW k \in Keys PROVE Cardinality(Matching(k)) <= 1
    <3>1. CASE Matching(k) = {}
      BY <3>1, FS_EmptySet
    <3>2. ASSUME NEW t \in Matching(k) PROVE Cardinality(Matching(k)) <= 1
      <4>1. Matching(k) = {t}
        BY <2>1, <3>2 DEF Matching, Series, Alone, LiveTask
      <4>2. Cardinality({t}) = 1
        BY FS_Singleton
      <4> QED
        BY <4>1, <4>2
    <3> QED
      BY <3>1, <3>2
  <2>3. ASSUME NEW r \in Reqs, answer[r] = "waiting"
        PROVE  \E t \in Ids, c \in Callers :
                 /\ subs[t][c].req = r
                 /\ (t \in tasks /\ status[t] \in Live) \/ t \in Downloading
    BY <2>3 DEF Series, Heard, Awaited, LiveTask
  <2> QED
    BY <2>2, <2>3 DEF OneTaskPerSeries
<1> QED
  BY <1>1, <1>2, <1>3, PTL DEF Spec

-----------------------------------------------------------------------------
(* The pool of slots.                                                      *)

LEMMA IdsFinite == IsFiniteSet(Ids)
<1>1. 1 \in Int /\ MaxTasks \in Int
  BY ConstantsAssumption
<1> QED
  BY <1>1, FS_Interval DEF Ids

LEMMA SomeIds ==
  ASSUME NEW S \in SUBSET Ids
  PROVE  IsFiniteSet(S) /\ Cardinality(S) \in Nat
  BY IdsFinite, FS_Subset, FS_CardinalityType

\* Adding to and taking from a set of tasks.
LEMMA OneMore ==
  ASSUME NEW S \in SUBSET Ids, NEW t \in Ids \ S
  PROVE  Cardinality(S \cup {t}) = Cardinality(S) + 1
  BY SomeIds, FS_AddElement

LEMMA OneLess ==
  ASSUME NEW S \in SUBSET Ids, NEW t \in S
  PROVE  Cardinality(S \ {t}) = Cardinality(S) - 1
  BY SomeIds, FS_RemoveElement

\* What processNext makes of the waiting tasks W.
Launches(W, active) ==
    \/ /\ active >= MAX_CONCURRENT \/ W = {}
       /\ Waiting' = W /\ Downloading' = Downloading /\ activeCount' = active
    \/ \E t \in W \ Downloading :
         /\ active < MAX_CONCURRENT
         /\ Waiting' = W \ {t} /\ Downloading' = Downloading \cup {t}
         /\ activeCount' = active + 1

LEMMA ProcessNextLaunches ==
  ASSUME TypeOK, tasks' \subseteq Ids, prio' \in [Ids -> 1..3],
         NEW st \in [Ids -> Status], NEW sig, NEW rows, NEW active \in Int,
         ProcessNext(st, sig, exec, rows, active), MappedAs(st, sig, exec)
  PROVE  Launches({t \in tasks' : st[t] \in Waitable}, active)
<1> DEFINE W == {t \in tasks' : st[t] \in Waitable}
<1>1. CASE StartsNone(st, sig, exec, rows, active)
  <2>1. (active >= MAX_CONCURRENT \/ W = {}) /\ activeCount' = active
    BY <1>1 DEF StartsNone
  <2>2. status' = st /\ exec' = exec
    BY <1>1 DEF StartsNone
  <2>3. Waiting' = W /\ Downloading' = Downloading
    BY <2>2 DEF Waiting, Downloading
  <2> QED
    BY <2>1, <2>3 DEF Launches
<1>2. ASSUME NEW t \in Ids, Starts(t, st, sig, exec, rows, active) PROVE Launches(W, active)
  <2>1. /\ t \in W /\ active < MAX_CONCURRENT /\ activeCount' = active + 1
        /\ status' = [st EXCEPT ![t] = "downloading"] /\ exec' = [exec EXCEPT ![t] = "running"]
    BY <1>2 DEF Starts
  <2>2. t \notin Downloading
    BY <2>1 DEF Downloading, MappedAs, Waitable
  <2>3. exec \in [Ids -> Executing \cup {"none"}]
    BY DEF TypeOK
  <2>4. Waiting' = W \ {t}
    BY <2>1 DEF Waiting, Waitable
  <2>5. Downloading' = Downloading \cup {t}
    BY <2>1, <2>3 DEF Downloading, Executing
  <2> QED
    BY <2>1, <2>2, <2>4, <2>5 DEF Launches
<1> QED
  BY <1>1, <1>2, ProcessNextStarts

\* What a step does to the pool.
PoolTurn ==
    /\ Counted' /\ Served'
    /\ ntask <= ntask'
    /\ \A t \in 1..ntask :
         t \in Waiting' \cup Downloading' => t \in Waiting \cup Downloading
    /\ Downloading' \ Downloading # {} => activeCount' <= MAX_CONCURRENT
    /\ due' <= due + Cardinality(Downloading \ Downloading')

LEMMA SetsOfIds ==
  ASSUME TypeOK
  PROVE  Waiting \subseteq Ids /\ Downloading \subseteq Ids
  BY DEF TypeOK, Waiting, Downloading

\* No slot is taken or given back, and nobody begins to wait.
LEMMA IdleTurn ==
  ASSUME TypeOK, Counted, Served, Waiting' \subseteq Waiting, Downloading' = Downloading,
         UNCHANGED <<ntask, due, activeCount>>
  PROVE  PoolTurn
<1>1. /\ Cardinality(Waiting) \in Nat /\ Cardinality(Waiting') \in Nat
      /\ Cardinality(Waiting') <= Cardinality(Waiting)
  BY SetsOfIds, SomeIds, FS_Subset
<1>2. ntask \in Int /\ due \in Nat /\ activeCount \in Int
  BY DEF TypeOK
<1>3. Served'
  BY <1>1, <1>2, ConstantsAssumption DEF Served
<1>4. Counted'
  BY DEF Counted
<1>5. Cardinality(Downloading \ Downloading') \in Nat
  BY SetsOfIds, SomeIds
<1> QED
  BY <1>2, <1>3, <1>4, <1>5 DEF PoolTurn

\* A task is added and processNext called.
LEMMA AddTurn ==
  ASSUME TypeOK, Counted, Served, NEW t \in Ids, t \notin Waiting,
         t = ntask + 1, ntask' = t, due' = due,
         Launches(Waiting \cup {t}, activeCount)
  PROVE  PoolTurn
<1>0. Waiting \in SUBSET Ids /\ Downloading \in SUBSET Ids
  BY SetsOfIds
<1>1. /\ ntask \in Int /\ due \in Nat /\ activeCount \in Int
      /\ MAX_CONCURRENT \in Nat
  BY ConstantsAssumption DEF TypeOK
<1>2. Cardinality(Waiting) \in Nat /\ Cardinality(Downloading) \in Nat
  BY <1>0, SomeIds
<1>3. /\ ntask <= ntask'
      /\ \A u \in 1..ntask : u # t
  BY <1>1
<1>4. CASE /\ activeCount >= MAX_CONCURRENT \/ Waiting \cup {t} = {}
           /\ Waiting' = Waiting \cup {t} /\ Downloading' = Downloading
           /\ activeCount' = activeCount
  <2>1. Served' /\ Counted'
    BY <1>4 DEF Served, Counted
  <2>2. Downloading \ Downloading' = {} /\ Downloading' \ Downloading = {}
    BY <1>4
  <2>3. Cardinality(Downloading \ Downloading') = 0
    BY <2>2, FS_EmptySet
  <2> QED
    BY <1>1, <1>3, <1>4, <2>1, <2>2, <2>3 DEF PoolTurn
<1>5. ASSUME NEW v \in (Waiting \cup {t}) \ Downloading,
             activeCount < MAX_CONCURRENT,
             Waiting' = (Waiting \cup {t}) \ {v}, Downloading' = Downloading \cup {v},
             activeCount' = activeCount + 1
      PROVE  PoolTurn
  <2>1. Cardinality(Downloading') = Cardinality(Downloading) + 1
    BY <1>0, <1>5, OneMore
  <2>2. Counted'
    BY <1>1, <1>2, <1>5, <2>1 DEF Counted
  <2>3. Cardinality(Waiting') = Cardinality(Waiting)
    <3>1. Cardinality(Waiting \cup {t}) = Cardinality(Waiting) + 1
      BY <1>0, OneMore
    <3>2. Cardinality((Waiting \cup {t}) \ {v}) = Cardinality(Waiting \cup {t}) - 1
      BY <1>0, <1>5, OneLess
    <3> QED
      BY <1>2, <1>5, <3>1, <3>2
  <2>4. Served'
    BY <1>1, <1>2, <1>5, <2>3 DEF Served
  <2>5. Cardinality(Downloading \ Downloading') = 0
    <3>1. Downloading \ Downloading' = {}
      BY <1>5
    <3> QED
      BY <3>1, FS_EmptySet
  <2>6. activeCount' <= MAX_CONCURRENT /\ due' <= due + Cardinality(Downloading \ Downloading')
    BY <1>1, <1>5, <2>5
  <2>7. \A u \in 1..ntask : u \in Waiting' \cup Downloading' => u \in Waiting \cup Downloading
    BY <1>3, <1>5
  <2> QED
    BY <1>3, <2>2, <2>4, <2>6, <2>7 DEF PoolTurn
<1> QED
  BY <1>4, <1>5 DEF Launches

\* A download ends; its slot is still to be given back.
LEMMA EndTurn ==
  ASSUME TypeOK, Counted, Served, NEW t \in Downloading,
         Waiting' \subseteq Waiting \cup {t}, Downloading' = Downloading \ {t},
         due' = due + 1, UNCHANGED <<ntask, activeCount>>
  PROVE  PoolTurn
<1>0. Waiting \in SUBSET Ids /\ Downloading \in SUBSET Ids /\ t \in Ids
  BY SetsOfIds
<1>1. /\ ntask \in Int /\ due \in Nat /\ activeCount \in Int /\ MAX_CONCURRENT \in Nat
  BY ConstantsAssumption DEF TypeOK
<1>2. Cardinality(Waiting) \in Nat /\ Cardinality(Downloading) \in Nat
  BY <1>0, SomeIds
<1>3. Cardinality(Downloading') = Cardinality(Downloading) - 1
  BY <1>0, OneLess
<1>4. Counted'
  BY <1>1, <1>2, <1>3 DEF Counted
<1>5. Cardinality(Waiting') \in Nat /\ Cardinality(Waiting') <= Cardinality(Waiting) + 1
  <2>1. Waiting \cup {t} \in SUBSET Ids /\ Waiting' \in SUBSET (Waiting \cup {t})
    BY <1>0
  <2>2. /\ Cardinality(Waiting') \in Nat
        /\ Cardinality(Waiting') <= Cardinality(Waiting \cup {t})
    BY <2>1, SomeIds, FS_Subset
  <2>3. Cardinality(Waiting \cup {t}) = Cardinality(Waiting)
          \/ Cardinality(Waiting \cup {t}) = Cardinality(Waiting) + 1
    BY <1>0, SomeIds, FS_AddElement
  <2> QED
    BY <1>2, <2>2, <2>3
<1>6. Served'
  BY <1>1, <1>2, <1>5 DEF Served
<1>7. Cardinality(Downloading \ Downloading') = 1
  <2>1. Downloading \ Downloading' = {t}
    OBVIOUS
  <2> QED
    BY <2>1, FS_Singleton
<1>8. due' <= due + Cardinality(Downloading \ Downloading') /\ ntask <= ntask'
  BY <1>1, <1>7
<1> QED
  BY <1>4, <1>6, <1>8 DEF PoolTurn

\* A slot is given back and processNext called.
LEMMA FreeTurn ==
  ASSUME TypeOK, Counted, Served, due > 0, due' = due - 1, ntask' = ntask,
         Launches(Waiting, activeCount - 1)
  PROVE  PoolTurn
<1>0. Waiting \in SUBSET Ids /\ Downloading \in SUBSET Ids
  BY SetsOfIds
<1>1. /\ ntask \in Int /\ due \in Nat /\ activeCount \in Int /\ MAX_CONCURRENT \in Nat
  BY ConstantsAssumption DEF TypeOK
<1>2. Cardinality(Waiting) \in Nat /\ Cardinality(Downloading) \in Nat
  BY <1>0, SomeIds
<1>3. Downloading \ Downloading' \in SUBSET Ids
  BY <1>0
<1>4. Cardinality(Downloading \ Downloading') \in Nat
  BY <1>3, SomeIds
<1>5. ntask <= ntask' /\ due' <= due + Cardinality(Downloading \ Downloading')
  BY <1>1, <1>4
<1>6. CASE /\ activeCount - 1 >= MAX_CONCURRENT \/ Waiting = {}
           /\ Waiting' = Waiting /\ Downloading' = Downloading
           /\ activeCount' = activeCount - 1
  <2>1. Counted'
    BY <1>1, <1>2, <1>6 DEF Counted
  <2>2. Served'
    <3>1. CASE Waiting = {}
      <4>1. Cardinality(Waiting') = 0
        BY <1>6, <3>1, FS_EmptySet
      <4> QED
        BY <1>1, <4>1 DEF Served
    <3>2. CASE activeCount - 1 >= MAX_CONCURRENT
      BY <1>6, <3>2 DEF Served
    <3> QED
      BY <1>6, <3>1, <3>2
  <2> QED
    BY <1>5, <1>6, <2>1, <2>2 DEF PoolTurn
<1>7. ASSUME NEW v \in Waiting \ Downloading, activeCount - 1 < MAX_CONCURRENT,
             Waiting' = Waiting \ {v}, Downloading' = Downloading \cup {v},
             activeCount' = activeCount - 1 + 1
      PROVE  PoolTurn
  <2>1. Cardinality(Downloading') = Cardinality(Downloading) + 1
    BY <1>0, <1>7, OneMore
  <2>2. Cardinality(Waiting') = Cardinality(Waiting) - 1
    BY <1>0, <1>7, OneLess
  <2>3. Counted' /\ Served' /\ activeCount' <= MAX_CONCURRENT
    BY <1>1, <1>2, <1>7, <2>1, <2>2 DEF Counted, Served
  <2> QED
    BY <1>5, <1>7, <2>3 DEF PoolTurn
<1> QED
  BY <1>6, <1>7 DEF Launches

\* Without clearAll, which forgets the downloads it aborts, and without a
\* restart, which starts one task however many slots there are.
Undisturbed == ~ClearAllUsed /\ MaxRestarts = 0

Pooled == Sane /\ Mapped /\ Counted /\ Served

LEMMA EnqueueTurn ==
  ASSUME Pooled, NEW c \in Callers, NEW k \in Keys, NEW force \in ForceChoices,
         Enqueue(c, k, force)
  PROVE  PoolTurn
<1>0. TypeOK /\ Sane /\ Mapped /\ Counted /\ Served
  BY DEF Pooled, Sane
<1>1. CASE Joins(k, force)
  <2>1. UNCHANGED <<ntask, tasks, status, exec, activeCount, due>>
    BY <1>1 DEF Enqueue, Coalesce
  <2>2. Waiting' = Waiting /\ Downloading' = Downloading
    BY <2>1 DEF Waiting, Downloading
  <2> QED
    BY <1>0, <2>1, <2>2, IdleTurn
<1>2. CASE ~Joins(k, force)
  <2>1. NewTask(k, c) /\ Ask(c) /\ due' = due
    BY <1>2 DEF Enqueue
  <2>2. PICK t : t = ntask + 1
    OBVIOUS
  <2>3. t \in Ids /\ t > ntask
    BY <1>0, <2>1, <2>2, ConstantsAssumption DEF TypeOK, NewTask, Ids
  <2>4. PICK rows :
          /\ tasks' = tasks \cup {t} /\ ntask' = t
          /\ ProcessNext([status EXCEPT ![t] = "queued"], signal, exec, rows, activeCount)
    BY <2>1, <2>2 DEF NewTask
  <2>5. tasks' \subseteq Ids /\ prio' \in [Ids -> 1..3]
    BY <1>0, <2>1, NewTaskTyped
  <2> DEFINE st == [status EXCEPT ![t] = "queued"]
  <2>6. /\ st \in [Ids -> Status] /\ st[t] = "queued" /\ \A u \in Ids \ {t} : st[u] = status[u]
        /\ activeCount \in Int /\ tasks \subseteq Ids
    BY <1>0, <2>3 DEF TypeOK, Status, Live, Waitable
  <2>7. exec[t] = "none" /\ t \notin tasks
    BY <1>0, <2>3 DEF Sane, Numbered, Fresh
  <2>8. MappedAs(st, signal, exec)
    BY <1>0, <2>4, <2>6, <2>7 DEF Mapped, MappedAs, Executing
  <2>9. ProcessNext(st, signal, exec, rows, activeCount)
    BY <2>4
  <2> HIDE DEF st
  <2>10. Launches({u \in tasks' : st[u] \in Waitable}, activeCount)
    BY <1>0, <2>5, <2>6, <2>8, <2>9, ProcessNextLaunches
  <2>11. {u \in tasks' : st[u] \in Waitable} = Waiting \cup {t}
    BY <2>4, <2>6, <2>7 DEF Waiting, Waitable
  <2>12. t \notin Waiting
    BY <2>7 DEF Waiting
  <2>13. Launches(Waiting \cup {t}, activeCount)
    BY <2>10, <2>11
  <2> QED
    BY <1>0, <2>1, <2>2, <2>3, <2>4, <2>12, <2>13, AddTurn
<1> QED
  BY <1>1, <1>2

LEMMA SettleTurn ==
  ASSUME Pooled, NEW t \in Ids, NEW st \in {"complete", "yielded", "error"}, Settle(t, st)
  PROVE  PoolTurn
<1>0. /\ TypeOK /\ Counted /\ Served
      /\ status \in [Ids -> Status] /\ exec \in [Ids -> Executing \cup {"none"}]
      /\ tasks \subseteq Ids
  BY DEF Pooled, Sane, TypeOK
<1>1. /\ UNCHANGED <<ntask, tasks, activeCount>> /\ due' = due + 1
      /\ exec' = [exec EXCEPT ![t] = "none"] /\ status' = [status EXCEPT ![t] = st]
      /\ exec[t] \in Executing
  BY DEF Settle, Executing
<1>2. t \in Downloading
  BY <1>1 DEF Downloading
<1>3. Downloading' = Downloading \ {t}
  BY <1>0, <1>1 DEF Downloading, Executing
<1>4. Waiting' \subseteq Waiting \cup {t}
  BY <1>0, <1>1 DEF Waiting
<1> QED
  BY <1>0, <1>1, <1>2, <1>3, <1>4, EndTurn

LEMMA FinallyTurn ==
  ASSUME Pooled, Finally
  PROVE  PoolTurn
<1>0. TypeOK /\ Counted /\ Served /\ Mapped
  BY DEF Pooled, Sane
<1>1. /\ UNCHANGED <<ntask, tasks, prio>> /\ due > 0 /\ due' = due - 1
      /\ ProcessNext(status, signal, exec, row, activeCount - 1)
  BY DEF Finally
<1>2. /\ tasks' \subseteq Ids /\ prio' \in [Ids -> 1..3] /\ status \in [Ids -> Status]
      /\ activeCount - 1 \in Int
  BY <1>0, <1>1 DEF TypeOK
<1>3. MappedAs(status, signal, exec)
  BY <1>0, <1>1 DEF Mapped, MappedAs
<1>4. Launches({u \in tasks' : status[u] \in Waitable}, activeCount - 1)
  BY <1>0, <1>1, <1>2, <1>3, ProcessNextLaunches
<1>5. {u \in tasks' : status[u] \in Waitable} = Waiting
  BY <1>1 DEF Waiting
<1>6. Launches(Waiting, activeCount - 1)
  BY <1>4, <1>5
<1> QED
  BY <1>0, <1>1, <1>6, FreeTurn

LEMMA NextTurn ==
  ASSUME Undisturbed, Pooled, [Next]_vars
  PROVE  PoolTurn
<1>0. /\ TypeOK /\ Counted /\ Served
      /\ exec \in [Ids -> Executing \cup {"none"}]
  BY DEF Pooled, Sane, TypeOK
<1>1. ASSUME tasks' \subseteq tasks, UNCHANGED <<ntask, status, exec, activeCount, due>>
      PROVE  PoolTurn
  <2>1. Waiting' \subseteq Waiting /\ Downloading' = Downloading
    BY <1>1 DEF Waiting, Downloading
  <2> QED
    BY <1>0, <1>1, <2>1, IdleTurn
<1>2. ASSUME NEW t \in Ids, ShouldYield(t) PROVE PoolTurn
  <2>1. /\ exec' = [exec EXCEPT ![t] = "yielding"] /\ exec[t] \in Executing
        /\ UNCHANGED <<ntask, tasks, status, activeCount, due>>
    BY <1>2 DEF ShouldYield, fields, Executing
  <2>2. Waiting' = Waiting
    BY <2>1 DEF Waiting
  <2>3. Downloading' = Downloading
    BY <1>0, <2>1 DEF Downloading, Executing
  <2> QED
    BY <1>0, <2>1, <2>2, <2>3, IdleTurn
<1>3. ASSUME NEW c \in Callers, CacheHit(c) PROVE PoolTurn
  BY <1>1, <1>3 DEF CacheHit, fields
<1>4. ASSUME NEW t \in Ids, Cancel(t) \/ Age(t) PROVE PoolTurn
  BY <1>1, <1>4 DEF Cancel, CancelTask, Leave, Age, fields
<1>5. ASSUME Shutdown \/ UNCHANGED vars PROVE PoolTurn
  BY <1>1, <1>5 DEF Shutdown, vars, fields
<1>6. ~ClearAll /\ \A old \in SUBSET Ids : ~Restart(old)
  BY <1>0 DEF Undisturbed, ClearAll, Restart, TypeOK
<1> QED
  BY <1>2, <1>3, <1>4, <1>5, <1>6, EnqueueTurn, SettleTurn, FinallyTurn DEF Next

LEMMA PoolCardinality == \A S : Pool!Cardinality(S) = Cardinality(S)
  BY Zenon DEF Pool!Cardinality, Cardinality

\* Such a step is a step of the pool.
LEMMA TurnIsPoolStep ==
  ASSUME Pooled, Sane', Mapped', PoolTurn
  PROVE  Pool!Next
<1> DEFINE ended == (1..ntask) \ (Waiting \cup Downloading)
<1>0. /\ TypeOK /\ TypeOK' /\ Sane
      /\ ntask \in 0..MaxTasks /\ ntask' \in 0..MaxTasks /\ due' \in Nat /\ due \in Nat
      /\ MAX_CONCURRENT \in Nat \ {0} /\ MaxTasks \in Nat /\ ntask <= ntask'
  BY ConstantsAssumption DEF Pooled, Sane, TypeOK, PoolTurn
<1>1. Waiting \cup Downloading \subseteq 1..ntask
  <2>1. \A t \in Ids : t \in Waiting \cup Downloading => ~(t > ntask)
    BY <1>0 DEF Sane, Numbered, Fresh, Waiting, Downloading, Executing
  <2>2. Waiting \cup Downloading \subseteq Ids
    BY <1>0, SetsOfIds
  <2> QED
    BY <1>0, <2>1, <2>2 DEF Ids
<1>2. Waiting' \cup Downloading' \subseteq Ids
  BY <1>0 DEF TypeOK, Waiting, Downloading
<1>3. ended' \subseteq Ids /\ 1..ntask \subseteq 1..ntask'
  BY <1>0 DEF Ids
<1>4. Pool!JobsProceed
  <2>1. Waiting' \cup Downloading' \cup ended' \subseteq Ids
    BY <1>2, <1>3
  <2>2. Waiting \cup Downloading \cup ended
          \subseteq Waiting' \cup Downloading' \cup ended'
    BY <1>1, <1>3
  <2>3. ended \subseteq ended'
    BY <1>3 DEF PoolTurn
  <2>4. Waiting' \cap Downloading' = {} /\ ended' \cap (Waiting' \cup Downloading') = {}
    BY DEF Mapped, Waiting, Downloading, Waitable
  <2> QED
    BY <2>1, <2>2, <2>3, <2>4 DEF Pool!JobsProceed
<1>5. Pool!SlotsProceed
  BY <1>0, PoolCardinality DEF PoolTurn, Pool!SlotsProceed
<1>6. Pool!InUse' = activeCount'
  BY PoolCardinality DEF PoolTurn, Counted, Pool!InUse
<1>7. Pool!StartsWithinLimit
  BY <1>6 DEF PoolTurn, Pool!StartsWithinLimit
<1>8. Pool!LeavesNoneWaiting
  BY <1>6, PoolCardinality DEF PoolTurn, Served, Pool!LeavesNoneWaiting
<1> QED
  BY <1>4, <1>5, <1>7, <1>8 DEF Pool!Next

LEMMA InitPool == Init => Pool!Init /\ Pooled
<1> SUFFICES ASSUME Init PROVE Pool!Init /\ Pooled
  OBVIOUS
<1>1. Sane
  BY InitSane
<1>2. Mapped
  BY DEF Init, Mapped, Executing
<1>3. Waiting = {} /\ Downloading = {}
  BY DEF Init, Waiting, Downloading, Executing
<1>4. Cardinality(Waiting) = 0 /\ Cardinality(Downloading) = 0
  BY <1>3, FS_EmptySet
<1>5. activeCount = 0 /\ due = 0 /\ ntask = 0
  BY DEF Init
<1>6. Counted /\ Served
  BY <1>4, <1>5 DEF Counted, Served
<1>7. (1..ntask) \ (Waiting \cup Downloading) = {}
  BY <1>5
<1>8. Pool!Init
  BY <1>3, <1>5, <1>7, ConstantsAssumption DEF Pool!Init
<1> QED
  BY <1>1, <1>2, <1>6, <1>8 DEF Pooled

\* The queue implements SlotPool, for every limit: activeCount, raised by
\* processNext and lowered by a callback that runs a tick after the download
\* ended, is the number of slots in use; a download starts into a free slot
\* only; each of those that wait beside a free slot has a callback of its own
\* that is due and will start it; and nothing that ended runs again.
THEOREM QueueImplementsPool ==
  ASSUME Undisturbed
  PROVE  Spec => ImplementsPool
<1>1. Pooled /\ [Next]_vars => Pooled' /\ Pool!Next
  <2> SUFFICES ASSUME Pooled, [Next]_vars PROVE Pooled' /\ Pool!Next
    OBVIOUS
  <2>1. Sane' /\ Mapped'
    BY NextStaysSane, NextMapped DEF Pooled, Undisturbed
  <2>2. PoolTurn
    BY NextTurn
  <2>3. Pooled'
    BY <2>1, <2>2 DEF Pooled, PoolTurn
  <2> QED
    BY <2>1, <2>2, <2>3, TurnIsPoolStep
<1>2. Spec => Pool!Init /\ [][Pool!Next]_(Pool!vars)
  BY <1>1, InitPool, PTL DEF Spec
<1> QED
  BY <1>2 DEF ImplementsPool, Pool!Spec

-----------------------------------------------------------------------------
(***************************************************************************)
(* The data cache.                                                         *)
(***************************************************************************)

\* A call that holds the mutex.
Working(o) == o.pc \in {"fetch", "record"}

Extent(r) == r.afirst..r.alast
InCalendar(r) ==
    Recorded(r) => {r.first, r.last, r.afirst, r.alast} \subseteq Days

\* What the types of the record rest on: the file is not empty when it is
\* described, and a record that is extended is one.
CacheShape ==
    /\ CacheTypeOK
    /\ InCalendar(rec)
    /\ \A c \in Calls : op[c].pc = "record" => file # {}
    /\ \A c \in Calls : Working(op[c]) /\ op[c].path # "full" =>
         Recorded(op[c].old) /\ InCalendar(op[c].old)

\* One call works on the series at a time, on the record it decided on.
Turns(c) ==
    /\ op[c].pc # "idle" => op[c].result = "none" /\ op[c].from <= op[c].to
    /\ op[c].pc = "waiting" => op[c].got = {} /\ ~op[c].cut
    /\ Working(op[c]) =>
         /\ busy
         /\ \A d \in Calls : Working(op[d]) => d = c
         /\ op[c].old = rec
         /\ op[c].path = "full" <=> ~Recorded(rec)
         /\ op[c].path = "heal" => Covers(rec, op[c].from, op[c].to)
InTurn == \A c \in Calls : Turns(c)

\* The extent of the record is in the file, and so are as many rows as it has,
\* even where the file has been replaced since.
Backed ==
    Recorded(rec) =>
      /\ rec.afirst \in file /\ rec.alast \in file
      /\ rec.first <= rec.afirst /\ rec.afirst <= rec.alast /\ rec.alast <= rec.last
      /\ rec.count <= Cardinality(file \cap Extent(rec))

\* A call fetches what it asked for, and writes the file its record describes.
Asked(o) ==
    CASE o.path = "full" -> o.from..o.to
      [] o.path = "merge" -> Lacking(o)
      [] o.path = "heal" -> Extent(o.old)
Writes(c) ==
    LET o == op[c]
    IN Working(o) =>
         /\ o.todo \subseteq Asked(o)
         /\ o.got \subseteq Asked(o) \cap Provided
         /\ o.pc = "record" =>
              /\ o.todo = {}
              /\ o.got \subseteq file
              /\ o.path = "full" => file = o.got
              /\ o.path # "full" => file \subseteq Window(o)

\* The days a heal found missing stay those that are, as long as the file has no
\* more rows in its extent; and a record that says the same is not healed again.
Same(r, s) ==
    r.count = s.count /\ r.afirst = s.afirst /\ r.alast = s.alast /\ r.known = s.known
HealKept ==
    Recorded(healed) =>
      /\ Recorded(rec) /\ rec.afirst <= healed.afirst /\ healed.alast <= rec.alast
      /\ healed.afirst \in file /\ healed.alast \in file
      /\ healed.afirst <= healed.alast
      /\ healed.count <= Cardinality(file \cap Extent(healed))
      /\ healed.count = Cardinality(file \cap Extent(healed))
           => healed.known = Extent(healed) \ file
Settled == Recorded(rec) /\ Same(rec, healed) /\ ~TooFewRows(rec)
HealDone ==
    Settled => /\ rec.known = Extent(rec) \ file
               /\ \A c \in Calls : Working(op[c]) => op[c].path # "heal"

\* What the record claims, and how far a fetch has come: in order, and with
\* nothing left out but what was skipped or, after a cut, what lies beyond.
Claims ==
    Recorded(rec) =>
      (Provided \cap rec.first..rec.last) \ givenUp \subseteq file \cap Extent(rec)
Fetched(c) ==
    LET o == op[c]
        D == Asked(o) \cap Provided
    IN Working(o) =>
         /\ o.cut => o.todo = {} /\ o.path \in PreemptedIn
         /\ ~o.cut => D \subseteq o.todo \cup o.got \cup givenUp
         /\ \A g \in o.got, d \in o.todo : g < d
         /\ \A g \in o.got, d \in D : d <= g => d \in o.got \cup givenUp

AllWrites == \A c \in Calls : Writes(c)
AllFetched == \A c \in Calls : Fetched(c)

-----------------------------------------------------------------------------
(* The operators.                                                          *)

\* The least and the greatest of some days.
LEMMA MinOfDays ==
  ASSUME NEW S \in SUBSET Days, S # {}
  PROVE  Min(S) \in S /\ \A x \in S : Min(S) <= x
<1>1. S \in SUBSET Nat
  BY CacheAssumption DEF Days
<1>2. \E x \in S : \A y \in S : x <= y
  BY <1>1, LeastNatural
<1> QED
  BY <1>2 DEF Min

LEMMA MaxOfDays ==
  ASSUME NEW S \in SUBSET Days, S # {}
  PROVE  Max(S) \in S /\ \A x \in S : x <= Max(S)
<1>1. PICK n : n = LastDay
  OBVIOUS
<1>2. n \in Nat /\ S \subseteq 1..n
  BY <1>1, CacheAssumption DEF Days
<1> DEFINE above == {n - x : x \in S}
<1>3. above \in SUBSET Nat /\ above # {}
  <2>1. \A x \in S : n - x \in Nat
    BY <1>2
  <2> QED
    BY <2>1
<1>4. PICK m \in above : \A y \in above : m <= y
  BY <1>3, LeastNatural
<1>5. PICK x \in S : m = n - x
  BY <1>4
<1>6. \A y \in S : n - x <= n - y
  BY <1>4, <1>5
<1>7. \A y \in S : x >= y
  BY <1>2, <1>6
<1>8. Max(S) \in S /\ \A y \in S : Max(S) >= y
  BY <1>7 DEF Max
<1> QED
  BY <1>2, <1>8

LEMMA MinOfTwo ==
  ASSUME NEW a \in Int, NEW b \in Int
  PROVE  Min({a, b}) = IF a <= b THEN a ELSE b
  BY DEF Min

LEMMA MaxOfTwo ==
  ASSUME NEW a \in Int, NEW b \in Int
  PROVE  Max({a, b}) = IF a <= b THEN b ELSE a
  BY DEF Max

LEMMA DaysFinite ==
  ASSUME NEW S \in SUBSET Days
  PROVE  IsFiniteSet(S) /\ Cardinality(S) \in 0..LastDay
<1>1. IsFiniteSet(1..LastDay) /\ Cardinality(1..LastDay) = LastDay
  BY FS_Interval, CacheAssumption
<1>2. IsFiniteSet(S) /\ Cardinality(S) <= Cardinality(1..LastDay)
  BY <1>1, FS_Subset DEF Days
<1>3. Cardinality(S) \in Nat
  BY <1>2, FS_CardinalityType
<1> QED
  BY <1>1, <1>2, <1>3, CacheAssumption

\* Between two days of the file the missing days are those not in the file.
LEMMA MissingBetween ==
  ASSUME NEW rows \in SUBSET Days, NEW a \in rows, NEW b \in rows
  PROVE  Missing(rows, a, b) = (a..b) \ rows
<1>1. /\ Min(rows) \in rows /\ Max(rows) \in rows
      /\ Min(rows) <= a /\ b <= Max(rows)
  BY MinOfDays, MaxOfDays
<1>2. /\ rows \subseteq Int /\ Days \subseteq Int /\ a \in 1..LastDay /\ b \in 1..LastDay
      /\ LastDay \in Nat
  BY CacheAssumption DEF Days
<1>3. ASSUME NEW d \in Missing(rows, a, b) PROVE d \in (a..b) \ rows
  BY <1>2, <1>3 DEF Missing
<1>4. ASSUME NEW d \in (a..b) \ rows PROVE d \in Missing(rows, a, b)
  <2>1. d \in Int /\ a <= d /\ d <= b /\ d # a /\ d # b
    BY <1>2, <1>4
  <2>2. Min(rows) \in Int /\ Max(rows) \in Int /\ a \in Int /\ b \in Int
    BY <1>1, <1>2
  <2>3. Min(rows) < d /\ d < Max(rows)
    BY <1>1, <2>1, <2>2
  <2>4. d \in Days
    BY <1>2, <2>1 DEF Days
  <2> QED
    BY <2>1, <2>3, <2>4, <1>4 DEF Missing
<1> QED
  BY <1>3, <1>4

-----------------------------------------------------------------------------
(* What a step does to the calls: all but one are as they were.            *)

Moved(c) == op' \in [Calls -> Ops] /\ \A d \in Calls \ {c} : op'[d] = op[d]

LEMMA MoveTo ==
  ASSUME op \in [Calls -> Ops], NEW c \in Calls, NEW o \in Ops,
         op' = [op EXCEPT ![c] = o]
  PROVE  Moved(c) /\ op'[c] = o
  BY DEF Moved

LEMMA NoOpTyped ==
  /\ \A res \in {"none", "complete", "yielded", "error"} : [NoOp EXCEPT !.result = res] \in Ops
  /\ NoOp \in Ops /\ NoRec \in Records
<1>1. LastDay \in Nat \ {0} /\ 1 \in Days /\ 0 \in 0..LastDay
  BY CacheAssumption DEF Days
<1>2. NoRec \in Records
  BY <1>1 DEF NoRec, Records
<1>3. NoOp \in Ops
  BY <1>1, <1>2 DEF NoOp, Ops, Paths
<1> QED
  BY <1>2, <1>3 DEF Ops

\* A call that ends.
LEMMA EndMoves ==
  ASSUME op \in [Calls -> Ops], NEW c \in Calls,
         NEW res \in {"complete", "yielded", "error"}, End(c, res)
  PROVE  Moved(c) /\ op'[c].pc = "idle" /\ op'[c].result = res /\ busy' = FALSE
<1>1. [NoOp EXCEPT !.result = res] \in Ops
  BY NoOpTyped
<1>2. op' = [op EXCEPT ![c] = [NoOp EXCEPT !.result = res]] /\ busy' = FALSE
  BY DEF End
<1>3. Moved(c) /\ op'[c] = [NoOp EXCEPT !.result = res]
  BY <1>1, <1>2, MoveTo
<1> QED
  BY <1>2, <1>3 DEF NoOp

-----------------------------------------------------------------------------
(* The type invariant.                                                     *)

FetchStarts(c, path, todo) == busy' = TRUE /\ Moved(c) /\ op'[c] = Fetching(op[c], path, todo)

LEMMA StartMoves ==
  ASSUME CacheTypeOK, NEW c \in Calls, NEW path \in Paths, NEW todo \in SUBSET Days,
         op' = [op EXCEPT ![c] = Fetching(op[c], path, todo)], busy' = TRUE
  PROVE  FetchStarts(c, path, todo)
<1>1. op \in [Calls -> Ops] /\ rec \in Records /\ op[c] \in Ops
  BY DEF CacheTypeOK
<1>2. Fetching(op[c], path, todo) \in Ops
  BY <1>1 DEF Fetching, Ops
<1>3. Moved(c) /\ op'[c] = Fetching(op[c], path, todo)
  BY <1>1, <1>2, MoveTo
<1> QED
  BY <1>3 DEF FetchStarts

LEMMA CallTyped ==
  ASSUME CacheTypeOK, NEW c \in Calls
  PROVE  /\ op[c] \in Ops /\ op[c].from \in Days /\ op[c].to \in Days
         /\ op[c].todo \in SUBSET Days /\ op[c].got \in SUBSET Days
         /\ op[c].old \in Records /\ op[c].path \in Paths
         /\ op[c].cut \in BOOLEAN
         /\ Days \subseteq Nat /\ file \subseteq Days /\ rec \in Records
         /\ op \in [Calls -> Ops]
<1>1. Days \subseteq Nat
  BY CacheAssumption DEF Days
<1> QED
  BY <1>1 DEF CacheTypeOK, Ops

\* The days a merge asks for are days of the calendar.
LEMMA LackingTyped ==
  ASSUME CacheShape, NEW c \in Calls, Recorded(rec)
  PROVE  Lacking(op[c]) \in SUBSET Days /\ Extent(rec) \in SUBSET Days
<1>1. op[c].from \in Days /\ op[c].to \in Days
  BY CallTyped DEF CacheShape
<1>2. rec.first \in Days /\ rec.last \in Days /\ rec.afirst \in Days /\ rec.alast \in Days
  BY DEF CacheShape, InCalendar
<1>3. LastDay \in Nat
  BY CacheAssumption
<1>4. \A a, b \in Days : a..b \subseteq Days
  BY <1>3 DEF Days
<1> QED
  BY <1>1, <1>2, <1>4 DEF Lacking, Extent

\* The three ways in which a call starts to fetch, and the hit.
BeginCases(c) ==
    \/ ~Recorded(rec) /\ FetchStarts(c, "full", op[c].from..op[c].to)
    \/ /\ Recorded(rec) /\ ~Covers(rec, op[c].from, op[c].to)
       /\ \E todo \in ToFetch(op[c]) : FetchStarts(c, "merge", todo)
    \/ /\ Recorded(rec) /\ Covers(rec, op[c].from, op[c].to)
       /\ HealNeeded(rec) /\ FetchStarts(c, "heal", Extent(rec))
    \/ /\ Recorded(rec) /\ Covers(rec, op[c].from, op[c].to) /\ ~HealNeeded(rec)
       /\ Moved(c) /\ op'[c].pc = "idle" /\ op'[c].result = "complete" /\ busy' = FALSE

LEMMA BeginMoves ==
  ASSUME CacheShape, NEW c \in Calls, Begin(c)
  PROVE  BeginCases(c)
<1>1. CacheTypeOK /\ op \in [Calls -> Ops] /\ op[c].from \in Days /\ op[c].to \in Days
  BY CallTyped DEF CacheShape
<1>2. op[c].from..op[c].to \in SUBSET Days
  BY <1>1, CacheAssumption DEF Days
<1>3. ASSUME Recorded(rec), NEW todo \in ToFetch(op[c]) PROVE todo \in SUBSET Days
  BY <1>3, LackingTyped DEF ToFetch
<1>4. {"full", "merge", "heal"} = Paths
  BY DEF Paths
<1>5. CASE ~Recorded(rec)
  <2>1. op' = [op EXCEPT ![c] = Fetching(op[c], "full", op[c].from..op[c].to)] /\ busy' = TRUE
    BY <1>5 DEF Begin
  <2> QED
    BY <1>1, <1>2, <1>4, <1>5, <2>1, StartMoves DEF BeginCases
<1>6. CASE Recorded(rec) /\ ~Covers(rec, op[c].from, op[c].to)
  <2>1. PICK todo \in ToFetch(op[c]) :
          op' = [op EXCEPT ![c] = Fetching(op[c], "merge", todo)] /\ busy' = TRUE
    BY <1>6 DEF Begin
  <2>2. todo \in SUBSET Days
    BY <1>3, <1>6
  <2>3. FetchStarts(c, "merge", todo)
    BY <1>1, <1>4, <2>1, <2>2, StartMoves
  <2> QED
    BY <1>6, <2>3 DEF BeginCases
<1>7. CASE Recorded(rec) /\ Covers(rec, op[c].from, op[c].to) /\ HealNeeded(rec)
  <2>1. op' = [op EXCEPT ![c] = Fetching(op[c], "heal", Extent(rec))] /\ busy' = TRUE
    BY <1>7 DEF Begin, Extent
  <2>2. Extent(rec) \in SUBSET Days
    BY <1>7, LackingTyped
  <2>3. FetchStarts(c, "heal", Extent(rec))
    BY <1>1, <1>4, <2>1, <2>2, StartMoves
  <2> QED
    BY <1>7, <2>3 DEF BeginCases
<1>8. CASE Recorded(rec) /\ Covers(rec, op[c].from, op[c].to) /\ ~HealNeeded(rec)
  <2>1. End(c, "complete")
    BY <1>8 DEF Begin
  <2>2. Moved(c) /\ op'[c].pc = "idle" /\ op'[c].result = "complete" /\ busy' = FALSE
    BY <1>1, <2>1, EndMoves
  <2> QED
    BY <1>8, <2>2 DEF BeginCases
<1> QED
  BY <1>5, <1>6, <1>7, <1>8

\* A chunk, answered or skipped.
Advances(c, o) ==
    /\ op'[c].pc = "fetch" /\ o.pc = "fetch"
    /\ op'[c].from = o.from /\ op'[c].to = o.to /\ op'[c].path = o.path
    /\ op'[c].old = o.old /\ op'[c].result = o.result

LEMMA AnsweredMoves ==
  ASSUME CacheTypeOK, NEW c \in Calls, NEW yield \in BOOLEAN, ChunkAnswered(c, yield)
  PROVE  /\ Moved(c) /\ Advances(c, op[c])
         /\ op'[c].got = op[c].got \cup ({Min(op[c].todo)} \cap Provided)
         /\ op'[c].todo = (IF yield THEN {} ELSE op[c].todo \ {Min(op[c].todo)})
         /\ op'[c].cut = yield
<1>1. op \in [Calls -> Ops] /\ op[c] \in Ops /\ op[c].todo \in SUBSET Days
      /\ op[c].got \in SUBSET Days
  BY CallTyped
<1>0. PICK d : d = Min(op[c].todo)
  OBVIOUS
<1> DEFINE o == [op[c] EXCEPT !.got = op[c].got \cup ({d} \cap Provided),
                              !.todo = IF yield THEN {} ELSE op[c].todo \ {d},
                              !.cut = yield]
<1>2. o \in Ops
  <2>1. op[c].got \cup ({d} \cap Provided) \in SUBSET Days
    BY <1>1, CacheAssumption
  <2>2. (IF yield THEN {} ELSE op[c].todo \ {d}) \in SUBSET Days
    BY <1>1
  <2> QED
    BY <1>1, <2>1, <2>2 DEF Ops
<1>3. op' = [op EXCEPT ![c] = o]
  BY <1>0, <1>1 DEF ChunkAnswered
<1>4. Moved(c) /\ op'[c] = o
  <2> HIDE DEF o
  <2> QED
    BY <1>1, <1>2, <1>3, MoveTo
<1>5. op[c].pc = "fetch"
  BY DEF ChunkAnswered
<1>6. /\ o.pc = op[c].pc /\ o.from = op[c].from /\ o.to = op[c].to
      /\ o.path = op[c].path /\ o.old = op[c].old /\ o.result = op[c].result
      /\ o.got = op[c].got \cup ({d} \cap Provided)
      /\ o.todo = (IF yield THEN {} ELSE op[c].todo \ {d})
  BY <1>1 DEF Ops
<1>7. o.cut = yield
  BY <1>1 DEF Ops
<1>8. Advances(c, op[c])
  BY <1>4, <1>5, <1>6 DEF Advances
<1> QED
  BY <1>0, <1>4, <1>6, <1>7, <1>8

LEMMA SkipMoves ==
  ASSUME CacheTypeOK, NEW c \in Calls, NEW yield \in BOOLEAN, Skip(c, yield)
  PROVE  /\ Moved(c) /\ Advances(c, op[c]) /\ op'[c].got = op[c].got
         /\ op'[c].todo = (IF yield THEN {} ELSE op[c].todo \ {Min(op[c].todo)})
         /\ op'[c].cut = yield
<1>1. op \in [Calls -> Ops] /\ op[c] \in Ops /\ op[c].todo \in SUBSET Days
  BY CallTyped
<1>0. PICK d : d = Min(op[c].todo)
  OBVIOUS
<1> DEFINE o == [op[c] EXCEPT !.todo = IF yield THEN {} ELSE op[c].todo \ {d},
                              !.skips = TRUE,
                              !.cut = yield]
<1>2. o \in Ops
  <2>1. (IF yield THEN {} ELSE op[c].todo \ {d}) \in SUBSET Days
    BY <1>1
  <2> QED
    BY <1>1, <2>1 DEF Ops
<1>3. op' = [op EXCEPT ![c] = o]
  BY <1>0, <1>1 DEF Skip
<1>4. Moved(c) /\ op'[c] = o
  <2> HIDE DEF o
  <2> QED
    BY <1>1, <1>2, <1>3, MoveTo
<1>5. op[c].pc = "fetch"
  BY DEF Skip
<1>6. /\ o.pc = op[c].pc /\ o.from = op[c].from /\ o.to = op[c].to
      /\ o.path = op[c].path /\ o.old = op[c].old /\ o.result = op[c].result
      /\ o.got = op[c].got
      /\ o.todo = (IF yield THEN {} ELSE op[c].todo \ {d})
  BY <1>1 DEF Ops
<1>7. o.cut = yield
  BY <1>1 DEF Ops
<1>8. Advances(c, op[c])
  BY <1>4, <1>5, <1>6 DEF Advances
<1> QED
  BY <1>0, <1>4, <1>6, <1>7, <1>8

LEMMA CallMoves ==
  ASSUME CacheTypeOK, NEW c \in Calls, NEW r \in Requests, Call(c, r[1], r[2])
  PROVE  /\ Moved(c) /\ op'[c].pc = "waiting" /\ op'[c].result = "none"
         /\ op'[c].from <= op'[c].to /\ op'[c].got = {} /\ op'[c].cut = FALSE
<1>1. op \in [Calls -> Ops] /\ r[1] \in Days /\ r[2] \in Days /\ r[1] <= r[2]
  BY CallTyped, CacheAssumption
<1> DEFINE o == [NoOp EXCEPT !.pc = "waiting", !.from = r[1], !.to = r[2]]
<1>2. NoOp \in Ops
  BY NoOpTyped
<1>3. o \in Ops /\ o.pc = "waiting" /\ o.result = "none" /\ o.from = r[1] /\ o.to = r[2]
      /\ o.got = {} /\ o.cut = FALSE
  BY <1>1, <1>2 DEF Ops, NoOp
<1>4. op' = [op EXCEPT ![c] = o]
  BY DEF Call
<1>5. Moved(c) /\ op'[c] = o
  <2> HIDE DEF o
  <2> QED
    BY <1>1, <1>3, <1>4, MoveTo
<1> HIDE DEF o
<1> QED
  BY <1>1, <1>3, <1>5

LEMMA PublishMoves ==
  ASSUME CacheTypeOK, NEW c \in Calls, Publish(c)
  PROVE  /\ Moved(c) /\ op[c].pc = "fetch" /\ op'[c].pc = "record"
         /\ op'[c] = [op[c] EXCEPT !.pc = "record"]
<1>1. op \in [Calls -> Ops] /\ op[c] \in Ops
  BY CallTyped
<1> DEFINE o == [op[c] EXCEPT !.pc = "record"]
<1>2. o \in Ops
  BY <1>1 DEF Ops
<1>3. op' = [op EXCEPT ![c] = o] /\ op[c].pc = "fetch"
  BY <1>1 DEF Publish
<1>4. Moved(c) /\ op'[c] = o
  <2> HIDE DEF o
  <2> QED
    BY <1>1, <1>2, <1>3, MoveTo
<1> QED
  BY <1>1, <1>3, <1>4 DEF Ops

\* A step that leaves the file and the record alone: what works afterwards
\* worked before, or starts on the record.
FileKept ==
    /\ UNCHANGED <<file, rec, healed>>
    /\ op' \in [Calls -> Ops]
    /\ \A d \in Calls : Working(op'[d]) =>
         \/ /\ Working(op[d]) /\ op'[d].pc = op[d].pc
            /\ op'[d].path = op[d].path /\ op'[d].old = op[d].old
         \/ /\ op[d].pc = "waiting" /\ op'[d].pc = "fetch" /\ op'[d].old = rec
            /\ op'[d].path # "full" => Recorded(rec)
            /\ op'[d].path = "heal" => HealNeeded(rec)
Counters ==
    /\ busy' \in BOOLEAN /\ ncalls' \in 0..MaxCalls /\ crashes' \in 0..MaxCrashes
    /\ givenUp' \subseteq Days /\ givenUp \subseteq givenUp'

LEMMA BeginQuiet ==
  ASSUME CacheShape, NEW c \in Calls, Begin(c)
  PROVE  FileKept /\ Counters
<1>1. BeginCases(c) /\ op[c].pc = "waiting" /\ CacheTypeOK
      /\ UNCHANGED <<file, rec, ncalls, crashes, givenUp, healed>>
  BY BeginMoves DEF Begin, CacheShape
<1>2. Moved(c) /\ busy' \in BOOLEAN
  BY <1>1 DEF BeginCases, FetchStarts
<1>3. Counters
  BY <1>1, <1>2 DEF Counters, CacheTypeOK
<1>4. \/ /\ op'[c].pc = "fetch" /\ op'[c].old = rec
         /\ op'[c].path # "full" => Recorded(rec)
         /\ op'[c].path = "heal" => HealNeeded(rec)
      \/ op'[c].pc = "idle"
  BY <1>1, CallTyped DEF BeginCases, FetchStarts, Fetching, Ops
<1> QED
  BY <1>1, <1>2, <1>3, <1>4 DEF FileKept, Moved, Working

LEMMA AdvanceQuiet ==
  ASSUME CacheTypeOK, NEW c \in Calls, NEW yield \in BOOLEAN,
         ChunkAnswered(c, yield) \/ Skip(c, yield)
  PROVE  FileKept /\ Counters /\ Moved(c) /\ Advances(c, op[c])
<1>1. Moved(c) /\ Advances(c, op[c])
  BY AnsweredMoves, SkipMoves
<1>2. op[c].pc = "fetch" /\ op[c].todo \in SUBSET Days /\ op[c].todo # {}
      /\ UNCHANGED <<file, rec, busy, ncalls, crashes, healed>>
      /\ (givenUp' = givenUp \/ givenUp' = givenUp \cup {Min(op[c].todo)})
  BY CallTyped DEF ChunkAnswered, Skip
<1>3. Min(op[c].todo) \in Days
  BY <1>2, MinOfDays
<1>4. Counters
  BY <1>2, <1>3 DEF Counters, CacheTypeOK
<1> QED
  BY <1>1, <1>2, <1>4 DEF FileKept, Moved, Working, Advances

LEMMA FailQuiet ==
  ASSUME CacheTypeOK, NEW c \in Calls, Fail(c)
  PROVE  FileKept /\ Counters /\ Moved(c) /\ op'[c].pc = "idle" /\ op'[c].result = "error"
<1>1. End(c, "error") /\ UNCHANGED <<file, rec, ncalls, crashes, givenUp, healed>>
  BY DEF Fail
<1>2. Moved(c) /\ op'[c].pc = "idle" /\ op'[c].result = "error" /\ busy' \in BOOLEAN
  BY <1>1, EndMoves, CallTyped DEF CacheTypeOK, End
<1> QED
  BY <1>1, <1>2 DEF FileKept, Counters, Moved, Working, CacheTypeOK

LEMMA CallQuiet ==
  ASSUME CacheTypeOK, NEW c \in Calls, NEW r \in Requests, Call(c, r[1], r[2])
  PROVE  FileKept /\ Counters
<1>1. Moved(c) /\ op'[c].pc = "waiting"
  BY CallMoves
<1>2. UNCHANGED <<file, rec, busy, crashes, givenUp, healed>> /\ ncalls' = ncalls + 1
      /\ ncalls < MaxCalls
  BY DEF Call
<1>3. ncalls' \in 0..MaxCalls
  BY <1>2, CacheAssumption DEF CacheTypeOK
<1> QED
  BY <1>1, <1>2, <1>3 DEF FileKept, Counters, Moved, Working, CacheTypeOK

LEMMA CrashQuiet ==
  ASSUME CacheTypeOK, Crash
  PROVE  /\ FileKept /\ Counters /\ busy' = FALSE
         /\ \A d \in Calls : op'[d].pc = "idle" /\ op'[d].result = "none"
<1>1. op' = [c \in Calls |-> NoOp] /\ NoOp \in Ops /\ NoOp.pc = "idle" /\ NoOp.result = "none"
  BY NoOpTyped DEF Crash, NoOp
<1>2. UNCHANGED <<file, rec, ncalls, givenUp, healed>> /\ crashes' = crashes + 1
      /\ crashes < MaxCrashes /\ busy' = FALSE
  BY DEF Crash
<1>3. crashes' \in 0..MaxCrashes
  BY <1>2, CacheAssumption DEF CacheTypeOK
<1> QED
  BY <1>1, <1>2, <1>3 DEF FileKept, Counters, Working, CacheTypeOK

\* Nothing came: a full download has nothing to record, a merge widens what
\* the record claims.
NothingCame(c) ==
    /\ Moved(c) /\ op'[c].pc = "idle" /\ busy' = FALSE
    /\ op[c].pc = "fetch" /\ op[c].todo = {} /\ op[c].got = {}
    /\ UNCHANGED <<file, healed>>
    /\ \/ op[c].path = "full" /\ op'[c].result # "complete" /\ rec' = rec
       \/ op[c].path = "merge" /\ rec' = Widened(op[c])

LEMMA NoRowsMoves ==
  ASSUME CacheTypeOK, NEW c \in Calls, NoRows(c)
  PROVE  NothingCame(c) /\ Counters /\ UNCHANGED givenUp
<1>1. op \in [Calls -> Ops]
  BY CallTyped
<1>2. /\ op[c].pc = "fetch" /\ op[c].todo = {} /\ op[c].got = {}
      /\ UNCHANGED <<file, ncalls, crashes, givenUp, healed>>
  BY DEF NoRows
<1>3. \/ op[c].path = "full" /\ rec' = rec
           /\ (End(c, "yielded") \/ End(c, "error"))
      \/ op[c].path = "merge" /\ End(c, "complete") /\ rec' = Widened(op[c])
  BY DEF NoRows
<1>4. /\ Moved(c) /\ op'[c].pc = "idle" /\ busy' = FALSE
      /\ op[c].path = "full" => op'[c].result # "complete"
  BY <1>1, <1>3, EndMoves
<1>5. busy' = FALSE
  BY <1>3 DEF End
<1> QED
  BY <1>2, <1>3, <1>4, <1>5 DEF NothingCame, Counters, CacheTypeOK

LEMMA WidenedTyped ==
  ASSUME CacheShape, NEW c \in Calls, op[c].pc = "fetch", op[c].path = "merge"
  PROVE  /\ Widened(op[c]) \in Records /\ InCalendar(Widened(op[c]))
         /\ Recorded(Widened(op[c])) /\ Recorded(op[c].old)
         /\ Widened(op[c]).first = Min({op[c].old.first, op[c].from})
         /\ Widened(op[c]).last = Max({op[c].old.last, op[c].to})
         /\ Same(Widened(op[c]), op[c].old)
<1>1. op[c].from \in Days /\ op[c].to \in Days /\ op[c].old \in Records /\ Days \subseteq Nat
  BY CallTyped DEF CacheShape
<1>2. Recorded(op[c].old) /\ InCalendar(op[c].old)
  BY DEF CacheShape, Working
<1>3. {op[c].old.first, op[c].old.last, op[c].old.afirst, op[c].old.alast} \subseteq Days
  BY <1>2 DEF InCalendar
<1>4. Min({op[c].old.first, op[c].from}) \in Days /\ Max({op[c].old.last, op[c].to}) \in Days
  BY <1>1, <1>3, MinOfDays, MaxOfDays
<1>5. Days \subseteq 0..LastDay
  BY CacheAssumption DEF Days
<1>6. PICK m, n : m = Min({op[c].old.first, op[c].from}) /\ n = Max({op[c].old.last, op[c].to})
  OBVIOUS
<1>7. Widened(op[c]) = [op[c].old EXCEPT !.first = m, !.last = n]
  BY <1>1, <1>6 DEF Widened, Records
<1>8. /\ Widened(op[c]) \in Records
      /\ Widened(op[c]).first = m /\ Widened(op[c]).last = n
      /\ Widened(op[c]).count = op[c].old.count /\ Widened(op[c]).known = op[c].old.known
      /\ Widened(op[c]).afirst = op[c].old.afirst /\ Widened(op[c]).alast = op[c].old.alast
  BY <1>1, <1>4, <1>5, <1>6, <1>7 DEF Records
<1> QED
  BY <1>2, <1>3, <1>4, <1>6, <1>8 DEF InCalendar, Recorded, Same

\* The record of a file that is not empty.
Describes(c) ==
    /\ rec' = [first |-> FirstClaimed(op[c]), last |-> LastClaimed(op[c]),
               afirst |-> Min(file), alast |-> Max(file),
               count |-> Cardinality(file), known |-> KnownMissing(op[c])]
    /\ rec' \in Records /\ Recorded(rec') /\ InCalendar(rec')
    /\ rec'.first = FirstClaimed(op[c]) /\ rec'.last = LastClaimed(op[c])
    /\ rec'.afirst = Min(file) /\ rec'.alast = Max(file)
    /\ rec'.count = Cardinality(file) /\ rec'.known = KnownMissing(op[c])

LEMMA NotEmpty ==
  ASSUME NEW S \in SUBSET Days, S # {}
  PROVE  Cardinality(S) \in 1..LastDay
<1>1. IsFiniteSet(S) /\ Cardinality(S) \in 0..LastDay
  BY DaysFinite
<1>2. Cardinality(S) # 0
  BY <1>1, FS_EmptySet
<1> QED
  BY <1>1, <1>2, CacheAssumption

LEMMA ClaimedDays ==
  ASSUME CacheShape, NEW c \in Calls, op[c].pc = "record"
  PROVE  FirstClaimed(op[c]) \in Days /\ LastClaimed(op[c]) \in Days
<1>1. op[c].from \in Days /\ op[c].to \in Days /\ file \in SUBSET Days /\ file # {}
  BY CallTyped DEF CacheShape
<1>2. Min(file) \in Days /\ Max(file) \in Days
  BY <1>1, MinOfDays, MaxOfDays
<1>3. op[c].path = "heal" => op[c].old.first \in Days /\ op[c].old.last \in Days
  BY DEF CacheShape, Working, InCalendar
<1>4. \A a, b \in Days : Min({a, b}) \in Days /\ Max({a, b}) \in Days
  <2> TAKE a, b \in Days
  <2>1. {a, b} \in SUBSET Days /\ {a, b} # {}
    OBVIOUS
  <2>2. Min({a, b}) \in {a, b} /\ Max({a, b}) \in {a, b}
    BY <2>1, MinOfDays, MaxOfDays
  <2> QED
    BY <2>2
<1> QED
  BY <1>1, <1>2, <1>3, <1>4 DEF FirstClaimed, LastClaimed

LEMMA RecordMoves ==
  ASSUME CacheShape, NEW c \in Calls, Record(c)
  PROVE  /\ Describes(c) /\ Moved(c) /\ op[c].pc = "record"
         /\ op'[c].pc = "idle" /\ busy' = FALSE
         /\ op'[c].result = "complete" => ~(op[c].path = "full" /\ op[c].cut)
         /\ file' = file /\ givenUp' = givenUp \ file
         /\ ncalls' = ncalls /\ crashes' = crashes
         /\ healed' = IF op[c].path = "heal" THEN rec' ELSE healed
<1>1. /\ op \in [Calls -> Ops] /\ op[c].pc = "record" /\ op[c].path \in Paths
      /\ op[c].from \in Days /\ op[c].to \in Days
  BY CallTyped DEF CacheShape, Record
<1>2. file \in SUBSET Days /\ file # {}
  BY <1>1, CallTyped DEF CacheShape
<1>3. /\ Min(file) \in Days /\ Max(file) \in Days
      /\ Cardinality(file) \in 1..LastDay
  BY <1>2, MinOfDays, MaxOfDays, NotEmpty
<1>4. FirstClaimed(op[c]) \in Days /\ LastClaimed(op[c]) \in Days
  BY <1>1, ClaimedDays
<1>5. KnownMissing(op[c]) \in SUBSET Days
  <2>1. \A a, b : Missing(file, a, b) \subseteq Days
    BY DEF Missing
  <2>2. op[c].path \in {"full", "merge", "heal"}
    BY <1>1 DEF Paths
  <2> QED
    BY <2>1, <2>2 DEF KnownMissing
<1>6. rec' = [first |-> FirstClaimed(op[c]), last |-> LastClaimed(op[c]),
               afirst |-> Min(file), alast |-> Max(file),
               count |-> Cardinality(file), known |-> KnownMissing(op[c])]
  BY DEF Record
<1>7. Days \subseteq 0..LastDay /\ 1..LastDay \subseteq 0..LastDay
  BY CacheAssumption DEF Days
<1>8. rec' \in Records
  BY <1>3, <1>4, <1>5, <1>6, <1>7 DEF Records
<1>9. Recorded(rec')
  BY <1>3, <1>6, CacheAssumption DEF Recorded
<1>10. InCalendar(rec')
  BY <1>3, <1>4, <1>6 DEF InCalendar
<1>11. Describes(c)
  BY <1>6, <1>8, <1>9, <1>10 DEF Describes
<1>12. PICK res \in Outcome(op[c]) : End(c, res)
  BY DEF Record
<1>13. /\ res \in {"complete", "yielded", "error"}
       /\ res = "complete" => ~(op[c].path = "full" /\ op[c].cut)
  BY <1>1 DEF Outcome, Paths
<1>14. Moved(c) /\ op'[c].pc = "idle" /\ op'[c].result = res /\ busy' = FALSE
  BY <1>1, <1>12, <1>13, EndMoves
<1>15. /\ file' = file /\ givenUp' = givenUp \ file
       /\ ncalls' = ncalls /\ crashes' = crashes
       /\ healed' = IF op[c].path = "heal" THEN rec' ELSE healed
  BY DEF Record
<1> QED
  BY <1>1, <1>11, <1>13, <1>14, <1>15

LEMMA PublishedTyped ==
  ASSUME CacheShape, NEW c \in Calls, Publish(c)
  PROVE  file' \in SUBSET Days /\ file' # {}
<1>1. /\ op[c].got \in SUBSET Days /\ file \in SUBSET Days /\ file' = Published(op[c])
      /\ op[c].pc = "fetch"
      /\ op[c].got # {} \/ op[c].path = "heal"
      /\ op[c].old.count <= Cardinality(file')
  BY CallTyped DEF CacheShape, Publish
<1>2. file' \in SUBSET Days
  BY <1>1 DEF Published
<1>3. CASE op[c].path = "full"
  BY <1>1, <1>3 DEF Published
<1>4. CASE op[c].path # "full"
  <2>1. Recorded(op[c].old) /\ op[c].old.count \in 0..LastDay
    BY <1>1, <1>4, CallTyped DEF CacheShape, Working, Records
  <2>2. Cardinality(file') \in 0..LastDay
    BY <1>2, DaysFinite
  <2>3. Cardinality(file') # 0
    BY <1>1, <2>1, <2>2, CacheAssumption DEF Recorded
  <2> QED
    BY <1>2, <2>3, FS_EmptySet
<1> QED
  BY <1>2, <1>3, <1>4

LEMMA InitShape == CacheInit => CacheShape
<1> SUFFICES ASSUME CacheInit PROVE CacheShape
  OBVIOUS
<1>1. NoOp \in Ops /\ NoRec \in Records /\ ~Recorded(NoRec) /\ NoOp.pc = "idle"
  BY NoOpTyped DEF NoRec, Recorded, NoOp
<1>2. 0 \in 0..MaxCalls /\ 0 \in 0..MaxCrashes
  BY CacheAssumption
<1>3. CacheTypeOK
  BY <1>1, <1>2 DEF CacheInit, CacheTypeOK
<1> QED
  BY <1>1, <1>3 DEF CacheInit, CacheShape, InCalendar, Working

LEMMA QuietShape ==
  ASSUME CacheShape, FileKept, Counters
  PROVE  CacheShape'
<1>1. CacheTypeOK'
  BY DEF CacheShape, CacheTypeOK, FileKept, Counters
<1>2. InCalendar(rec')
  BY DEF CacheShape, FileKept
<1>3. ASSUME NEW d \in Calls, op'[d].pc = "record" PROVE file' # {}
  BY <1>3 DEF CacheShape, FileKept, Working
<1>4. ASSUME NEW d \in Calls, Working(op'[d]), op'[d].path # "full"
      PROVE  Recorded(op'[d].old) /\ InCalendar(op'[d].old)
  BY <1>4 DEF CacheShape, FileKept
<1> QED
  BY <1>1, <1>2, <1>3, <1>4 DEF CacheShape, Working

\* The kinds of steps the calls take.
LEMMA StepKinds ==
  ASSUME CacheShape, [CacheNext]_cacheVars
  PROVE  \/ FileKept /\ Counters
         \/ \E c \in Calls : NoRows(c) \/ Publish(c) \/ Record(c)
<1>1. CacheTypeOK
  BY DEF CacheShape
<1>2. ASSUME UNCHANGED cacheVars PROVE FileKept /\ Counters
  BY <1>1, <1>2 DEF cacheVars, FileKept, Counters, CacheTypeOK
<1>3. ASSUME CacheNext PROVE \/ FileKept /\ Counters
                             \/ \E c \in Calls : NoRows(c) \/ Publish(c) \/ Record(c)
  <2>1. ASSUME NEW c \in Calls, NEW r \in Requests, Call(c, r[1], r[2])
        PROVE FileKept /\ Counters
    BY <1>1, <2>1, CallQuiet
  <2>2. ASSUME NEW c \in Calls, Begin(c) PROVE FileKept /\ Counters
    BY <2>2, BeginQuiet
  <2>3. ASSUME NEW c \in Calls, NEW yield \in BOOLEAN,
               ChunkAnswered(c, yield) \/ Skip(c, yield)
        PROVE FileKept /\ Counters
    BY <1>1, <2>3, AdvanceQuiet
  <2>4. ASSUME NEW c \in Calls, Fail(c) PROVE FileKept /\ Counters
    BY <1>1, <2>4, FailQuiet
  <2>5. ASSUME Crash PROVE FileKept /\ Counters
    BY <1>1, <2>5, CrashQuiet
  <2> QED
    BY <1>3, <2>1, <2>2, <2>3, <2>4, <2>5 DEF CacheNext, Step
<1> QED
  BY <1>2, <1>3

LEMMA NextShape == CacheShape /\ [CacheNext]_cacheVars => CacheShape'
<1> SUFFICES ASSUME CacheShape, [CacheNext]_cacheVars PROVE CacheShape'
  OBVIOUS
<1>1. CASE FileKept /\ Counters
  BY <1>1, QuietShape
<1>2. ASSUME NEW c \in Calls, NoRows(c) PROVE CacheShape'
  <2>1. NothingCame(c) /\ Counters
    BY <1>2, NoRowsMoves DEF CacheShape
  <2>2. rec' \in Records /\ InCalendar(rec')
    BY <2>1, WidenedTyped DEF NothingCame, CacheShape, CacheTypeOK
  <2>3. CacheTypeOK'
    BY <2>1, <2>2 DEF NothingCame, Moved, Counters, CacheShape, CacheTypeOK
  <2>4. \A d \in Calls : Working(op'[d]) => d # c /\ op'[d] = op[d]
    BY <2>1 DEF NothingCame, Moved, Working
  <2> QED
    BY <2>1, <2>2, <2>3, <2>4 DEF CacheShape, NothingCame, Working
<1>3. ASSUME NEW c \in Calls, Publish(c) PROVE CacheShape'
  <2>1. /\ Moved(c) /\ op[c].pc = "fetch" /\ op'[c] = [op[c] EXCEPT !.pc = "record"]
        /\ UNCHANGED <<rec, busy, ncalls, crashes, givenUp, healed>>
    BY <1>3, PublishMoves DEF CacheShape, Publish
  <2>2. file' \in SUBSET Days /\ file' # {}
    BY <1>3, PublishedTyped
  <2>3. CacheTypeOK'
    BY <2>1, <2>2 DEF Moved, CacheShape, CacheTypeOK
  <2>4. Working(op[c]) /\ op'[c].path = op[c].path /\ op'[c].old = op[c].old
    BY <2>1, CallTyped DEF CacheShape, Ops, Working
  <2>5. \A d \in Calls : Working(op'[d]) =>
          Working(op[d]) /\ op'[d].path = op[d].path /\ op'[d].old = op[d].old
    BY <2>1, <2>4 DEF Moved
  <2> QED
    BY <2>1, <2>2, <2>3, <2>5 DEF CacheShape
<1>4. ASSUME NEW c \in Calls, Record(c) PROVE CacheShape'
  <2>1. /\ Describes(c) /\ Moved(c) /\ op'[c].pc = "idle" /\ busy' = FALSE
        /\ file' = file /\ givenUp' = givenUp \ file
        /\ ncalls' = ncalls /\ crashes' = crashes
        /\ healed' = IF op[c].path = "heal" THEN rec' ELSE healed
    BY <1>4, RecordMoves
  <2>2. rec' \in Records /\ InCalendar(rec')
    BY <2>1 DEF Describes
  <2>3. CacheTypeOK'
    BY <2>1, <2>2 DEF Moved, CacheShape, CacheTypeOK
  <2>4. \A d \in Calls : Working(op'[d]) => d # c /\ op'[d] = op[d]
    BY <2>1 DEF Moved, Working
  <2> QED
    BY <2>1, <2>2, <2>3, <2>4 DEF CacheShape, Working
<1> QED
  BY <1>1, <1>2, <1>3, <1>4, StepKinds

-----------------------------------------------------------------------------
(* The mutex of the series.                                                *)

LEMMA TurnKept ==
  ASSUME InTurn, NEW d \in Calls, op'[d] = op[d], ~Working(op[d])
  PROVE  Turns(d)'
<1>1. op[d].pc # "idle" => op[d].result = "none" /\ op[d].from <= op[d].to
  BY DEF InTurn, Turns
<1>2. op'[d].pc # "idle" => op'[d].result = "none" /\ op'[d].from <= op'[d].to
  BY <1>1
<1>3. ~Working(op'[d])
  OBVIOUS
<1>4. op'[d].pc = "waiting" => op'[d].got = {} /\ ~op'[d].cut
  BY DEF InTurn, Turns
<1> QED
  BY <1>2, <1>3, <1>4 DEF Turns

\* A call that does not work afterwards, after a step that leaves the others.
LEMMA TurnEnds ==
  ASSUME InTurn, NEW c \in Calls, Moved(c), op'[c].pc = "idle",
         \A d \in Calls \ {c} : ~Working(op[d])
  PROVE  InTurn'
<1>1. Turns(c)'
  BY DEF Turns, Working
<1>2. ASSUME NEW d \in Calls \ {c} PROVE Turns(d)'
  BY <1>2, TurnKept DEF Moved
<1> QED
  BY <1>1, <1>2 DEF InTurn

LEMMA Others ==
  ASSUME InTurn, NEW c \in Calls, Working(op[c])
  PROVE  \A d \in Calls \ {c} : ~Working(op[d])
  BY DEF InTurn, Turns

\* A call that goes on.
LEMMA TurnGoesOn ==
  ASSUME InTurn, NEW c \in Calls, Moved(c), Working(op[c]), Working(op'[c]),
         op'[c].result = op[c].result, op'[c].from = op[c].from, op'[c].to = op[c].to,
         op'[c].path = op[c].path, op'[c].old = op[c].old,
         UNCHANGED <<rec, busy>>
  PROVE  InTurn'
<1>1. /\ op[c].result = "none" /\ op[c].from <= op[c].to /\ busy
      /\ op[c].old = rec
      /\ op[c].path = "full" <=> ~Recorded(rec)
      /\ op[c].path = "heal" => Covers(rec, op[c].from, op[c].to)
  BY DEF InTurn, Turns, Working
<1>2. \A d \in Calls \ {c} : ~Working(op[d]) /\ op'[d] = op[d]
  BY Others DEF Moved
<1>3. \A d \in Calls : Working(op'[d]) => d = c
  BY <1>2
<1>4. Turns(c)'
  BY <1>1, <1>3 DEF Turns, Working
<1>5. ASSUME NEW d \in Calls \ {c} PROVE Turns(d)'
  BY <1>2, <1>5, TurnKept
<1> QED
  BY <1>4, <1>5 DEF InTurn

LEMMA TurnStarts ==
  ASSUME CacheShape, InTurn, NEW c \in Calls, Begin(c)
  PROVE  InTurn'
<1>1. BeginCases(c) /\ op[c].pc = "waiting" /\ ~busy /\ rec' = rec
  BY BeginMoves DEF Begin, KeyFree
<1>2. \A d \in Calls : ~Working(op[d])
  BY <1>1 DEF InTurn, Turns
<1>3. op[c].result = "none" /\ op[c].from <= op[c].to
  BY <1>1 DEF InTurn, Turns
<1>4. op[c] \in Ops
  BY CallTyped DEF CacheShape
<1>5. ASSUME NEW path, NEW todo, FetchStarts(c, path, todo),
             path = "full" <=> ~Recorded(rec),
             path = "heal" => Covers(rec, op[c].from, op[c].to)
      PROVE  InTurn'
  <2>1. /\ op'[c].pc = "fetch" /\ op'[c].result = op[c].result
        /\ op'[c].from = op[c].from /\ op'[c].to = op[c].to
        /\ op'[c].path = path /\ op'[c].old = rec
    BY <1>4, <1>5 DEF FetchStarts, Fetching, Ops
  <2>2. Moved(c) /\ busy' = TRUE
    BY <1>5 DEF FetchStarts
  <2>3. \A d \in Calls \ {c} : ~Working(op'[d])
    BY <1>2, <2>2 DEF Moved
  <2>4. Turns(c)'
    BY <1>1, <1>3, <1>5, <2>1, <2>2, <2>3 DEF Turns, Working
  <2>5. ASSUME NEW d \in Calls \ {c} PROVE Turns(d)'
    BY <1>2, <2>2, <2>5, TurnKept DEF Moved
  <2> QED
    BY <2>4, <2>5 DEF InTurn
<1>6. ASSUME Moved(c), op'[c].pc = "idle" PROVE InTurn'
  BY <1>2, <1>6, TurnEnds
<1> QED
  BY <1>1, <1>5, <1>6 DEF BeginCases

LEMMA InitTurn == CacheInit => InTurn
<1>1. NoOp.pc = "idle"
  BY DEF NoOp
<1> QED
  BY <1>1 DEF CacheInit, InTurn, Turns, Working

LEMMA NextTurns == CacheShape /\ InTurn /\ [CacheNext]_cacheVars => InTurn'
<1> SUFFICES ASSUME CacheShape, InTurn, [CacheNext]_cacheVars PROVE InTurn'
  OBVIOUS
<1> USE DEF CacheShape
<1>1. CASE UNCHANGED cacheVars
  BY <1>1 DEF InTurn, Turns, cacheVars
<1>2. ASSUME NEW c \in Calls, NEW r \in Requests, Call(c, r[1], r[2]) PROVE InTurn'
  <2>1. /\ Moved(c) /\ op'[c].pc = "waiting" /\ op'[c].result = "none"
        /\ op'[c].from <= op'[c].to /\ op'[c].got = {} /\ op'[c].cut = FALSE
    BY <1>2, CallMoves
  <2>2. op[c].pc = "idle" /\ UNCHANGED <<rec, busy>>
    BY <1>2 DEF Call
  <2>3. Turns(c)'
    BY <2>1 DEF Turns, Working
  <2>4. ASSUME NEW d \in Calls \ {c} PROVE Turns(d)'
    <3>1. op'[d] = op[d] /\ ~Working(op'[c])
      BY <2>1, <2>4 DEF Moved, Working
    <3>2. Turns(d)
      BY <2>4 DEF InTurn
    <3>3. \A e \in Calls : Working(op'[e]) => Working(op[e])
      BY <2>1, <3>1 DEF Moved
    <3> QED
      BY <2>2, <3>1, <3>2, <3>3 DEF Turns
  <2> QED
    BY <2>3, <2>4 DEF InTurn
<1>3. ASSUME NEW c \in Calls, Begin(c) PROVE InTurn'
  BY <1>3, TurnStarts
<1>4. ASSUME NEW c \in Calls, NEW yield \in BOOLEAN,
             ChunkAnswered(c, yield) \/ Skip(c, yield)
      PROVE InTurn'
  <2>1. Moved(c) /\ Advances(c, op[c]) /\ UNCHANGED <<rec, busy>>
    BY <1>4, AdvanceQuiet DEF ChunkAnswered, Skip
  <2>2. Working(op[c]) /\ Working(op'[c])
    BY <2>1 DEF Advances, Working
  <2> QED
    BY <2>1, <2>2, TurnGoesOn DEF Advances
<1>5. ASSUME NEW c \in Calls, Fail(c) PROVE InTurn'
  <2>1. Moved(c) /\ op'[c].pc = "idle" /\ op[c].pc = "fetch"
    BY <1>5, FailQuiet DEF Fail
  <2>2. Working(op[c])
    BY <2>1 DEF Working
  <2> QED
    BY <2>1, <2>2, Others, TurnEnds
<1>6. ASSUME NEW c \in Calls, NoRows(c) PROVE InTurn'
  <2>1. Moved(c) /\ op'[c].pc = "idle" /\ op[c].pc = "fetch"
    BY <1>6, NoRowsMoves DEF NothingCame
  <2>2. Working(op[c])
    BY <2>1 DEF Working
  <2> QED
    BY <2>1, <2>2, Others, TurnEnds
<1>7. ASSUME NEW c \in Calls, Publish(c) PROVE InTurn'
  <2>1. /\ Moved(c) /\ op[c].pc = "fetch" /\ op'[c] = [op[c] EXCEPT !.pc = "record"]
        /\ UNCHANGED <<rec, busy>>
    BY <1>7, PublishMoves DEF Publish
  <2>2. /\ op'[c].pc = "record" /\ op'[c].result = op[c].result
        /\ op'[c].from = op[c].from /\ op'[c].to = op[c].to
        /\ op'[c].path = op[c].path /\ op'[c].old = op[c].old
    BY <2>1, CallTyped DEF Ops
  <2>3. Working(op[c]) /\ Working(op'[c])
    BY <2>1, <2>2 DEF Working
  <2> QED
    BY <2>1, <2>2, <2>3, TurnGoesOn
<1>8. ASSUME NEW c \in Calls, Record(c) PROVE InTurn'
  <2>1. Moved(c) /\ op'[c].pc = "idle" /\ op[c].pc = "record"
    BY <1>8, RecordMoves
  <2>2. Working(op[c])
    BY <2>1 DEF Working
  <2> QED
    BY <2>1, <2>2, Others, TurnEnds
<1>9. ASSUME Crash PROVE InTurn'
  <2>1. \A d \in Calls : op'[d].pc = "idle" /\ op'[d].result = "none"
    BY <1>9, CrashQuiet
  <2> QED
    BY <2>1 DEF InTurn, Turns, Working
<1> QED
  BY <1>1, <1>2, <1>3, <1>4, <1>5, <1>6, <1>7, <1>8, <1>9 DEF CacheNext, Step

\* What a call that ends complete leaves in the record.
Answers == \A c \in Calls : Completes(c) => Covers(rec', op[c].from, op[c].to)

LEMMA NextAnswers == CacheShape /\ InTurn /\ [CacheNext]_cacheVars => Answers
<1> SUFFICES ASSUME CacheShape, InTurn, [CacheNext]_cacheVars,
                    NEW c \in Calls, Completes(c)
             PROVE  Covers(rec', op[c].from, op[c].to)
  BY DEF Answers
<1> USE DEF CacheShape
<1>1. op[c].pc # "idle" /\ op[c].result = "none" /\ op'[c].result = "complete"
  BY DEF Completes, InTurn, Turns
<1>2. ASSUME NEW d \in Calls, Moved(d), d # c PROVE FALSE
  BY <1>1, <1>2 DEF Moved
<1>3. op[c].from \in Nat /\ op[c].to \in Nat
  BY CallTyped
<1>4. CASE UNCHANGED cacheVars
  BY <1>1, <1>4 DEF cacheVars
<1>5. ASSUME NEW d \in Calls, NEW r \in Requests, Call(d, r[1], r[2]) PROVE FALSE
  BY <1>1, <1>2, <1>5, CallMoves
<1>6. ASSUME NEW d \in Calls, Begin(d) PROVE Covers(rec', op[c].from, op[c].to)
  <2>1. BeginCases(d) /\ rec' = rec
    BY <1>6, BeginMoves DEF Begin
  <2>2. Moved(d)
    BY <2>1 DEF BeginCases, FetchStarts
  <2>3. d = c
    BY <1>2, <2>2
  <2>4. ASSUME NEW path, NEW todo, FetchStarts(d, path, todo) PROVE FALSE
    BY <1>1, <2>3, <2>4, CallTyped DEF FetchStarts, Fetching, Ops
  <2> QED
    BY <2>1, <2>3, <2>4 DEF BeginCases
<1>7. ASSUME NEW d \in Calls, NEW yield \in BOOLEAN,
             ChunkAnswered(d, yield) \/ Skip(d, yield)
      PROVE  FALSE
  <2>1. Moved(d) /\ Advances(d, op[d])
    BY <1>7, AdvanceQuiet
  <2> QED
    BY <1>1, <1>2, <2>1 DEF Advances
<1>8. ASSUME NEW d \in Calls, Fail(d) PROVE FALSE
  BY <1>1, <1>2, <1>8, FailQuiet
<1>9. ASSUME NEW d \in Calls, NoRows(d) PROVE Covers(rec', op[c].from, op[c].to)
  <2>1. NothingCame(d)
    BY <1>9, NoRowsMoves
  <2>2. d = c
    BY <1>2, <2>1 DEF NothingCame
  <2>3. op[c].pc = "fetch" /\ op[c].path = "merge" /\ rec' = Widened(op[c])
    BY <1>1, <2>1, <2>2 DEF NothingCame
  <2>4. /\ rec'.first = Min({op[c].old.first, op[c].from})
        /\ rec'.last = Max({op[c].old.last, op[c].to})
    BY <2>3, WidenedTyped
  <2>5. op[c].old.first \in Int /\ op[c].old.last \in Int
    BY CallTyped DEF Records
  <2>6. rec'.first <= op[c].from /\ op[c].to <= rec'.last
    BY <1>3, <2>4, <2>5, MinOfTwo, MaxOfTwo
  <2> QED
    BY <2>6 DEF Covers
<1>10. ASSUME NEW d \in Calls, Publish(d) PROVE FALSE
  <2>1. Moved(d) /\ op'[d] = [op[d] EXCEPT !.pc = "record"]
    BY <1>10, PublishMoves
  <2> QED
    BY <1>1, <1>2, <2>1, CallTyped DEF Ops
<1>11. ASSUME NEW d \in Calls, Record(d) PROVE Covers(rec', op[c].from, op[c].to)
  <2>1. /\ Describes(d) /\ Moved(d) /\ op[d].pc = "record"
        /\ op'[d].result = "complete" => ~(op[d].path = "full" /\ op[d].cut)
    BY <1>11, RecordMoves
  <2>2. d = c
    BY <1>2, <2>1
  <2>3. file \in SUBSET Days /\ file # {}
    BY <2>1, CallTyped
  <2>4. Min(file) \in Int /\ Max(file) \in Int
    BY <2>3, MinOfDays, MaxOfDays, CallTyped
  <2>5. rec'.first = FirstClaimed(op[c]) /\ rec'.last = LastClaimed(op[c])
    BY <2>1, <2>2 DEF Describes
  <2>6. CASE op[c].path = "heal"
    <3>1. Covers(op[c].old, op[c].from, op[c].to)
      BY <2>1, <2>2, <2>6 DEF InTurn, Turns, Working
    <3>2. op[c].old.first \in Int /\ op[c].old.last \in Int
      BY CallTyped DEF Records
    <3>3. /\ rec'.first = Min({Min(file), op[c].old.first})
          /\ rec'.last = Max({Max(file), op[c].old.last})
      BY <2>5, <2>6 DEF FirstClaimed, LastClaimed
    <3>4. rec'.first <= op[c].old.first /\ op[c].old.last <= rec'.last
      BY <2>4, <3>2, <3>3, MinOfTwo, MaxOfTwo
    <3>5. rec'.first \in Int /\ rec'.last \in Int
      BY <2>4, <3>2, <3>3, MinOfTwo, MaxOfTwo
    <3> QED
      BY <1>3, <3>1, <3>2, <3>4, <3>5 DEF Covers
  <2>7. CASE op[c].path # "heal"
    <3>1. ~(op[c].path = "full" /\ op[c].cut)
      BY <1>1, <2>1, <2>2
    <3>2. rec'.first = Min({Min(file), op[c].from}) /\ rec'.last = Max({Max(file), op[c].to})
      BY <2>5, <2>7, <3>1 DEF FirstClaimed, LastClaimed
    <3>3. rec'.first <= op[c].from /\ op[c].to <= rec'.last
      BY <1>3, <2>4, <3>2, MinOfTwo, MaxOfTwo
    <3> QED
      BY <3>3 DEF Covers
  <2> QED
    BY <2>6, <2>7
<1>12. ASSUME Crash PROVE FALSE
  BY <1>1, <1>12, CrashQuiet
<1> QED
  BY <1>4, <1>5, <1>6, <1>7, <1>8, <1>9, <1>10, <1>11, <1>12 DEF CacheNext, Step

LEMMA CacheInTurn == CacheSpec => [](CacheShape /\ InTurn)
<1>1. CacheShape /\ InTurn /\ [CacheNext]_cacheVars => (CacheShape /\ InTurn)'
  BY NextShape, NextTurns
<1> QED
  BY <1>1, InitShape, InitTurn, PTL DEF CacheSpec

\* What was answered once is not downloaded again: after a complete answer the
\* record covers the request, whatever the provider lacks, wherever the process
\* ends and whichever paths are preempted.
THEOREM AnsweredIsCovered == CacheSpec => NotAskedAgain
<1>1. CacheSpec => [][Answers]_cacheVars
  BY CacheInTurn, NextAnswers, PTL DEF CacheSpec
<1> QED
  BY <1>1 DEF NotAskedAgain, Answers

-----------------------------------------------------------------------------
(* The file behind the record.                                             *)

LEMMA Counting ==
  ASSUME NEW T \in SUBSET Days, NEW S \in SUBSET T
  PROVE  /\ Cardinality(S) \in Nat /\ Cardinality(T) \in Nat
         /\ Cardinality(S) <= Cardinality(T)
         /\ Cardinality(S) = Cardinality(T) => S = T
<1>1. IsFiniteSet(T) /\ IsFiniteSet(S)
  BY DaysFinite
<1> QED
  BY <1>1, FS_Subset, FS_CardinalityType

\* What a merge or a heal keeps, at least.
LEMMA WindowCovers ==
  ASSUME CacheShape, InTurn, NEW c \in Calls, Working(op[c]), op[c].path # "full"
  PROVE  /\ Recorded(rec) /\ op[c].old = rec
         /\ {rec.first, rec.last, rec.afirst, rec.alast} \subseteq Days
         /\ Extent(rec) \subseteq Window(op[c])
<1>1. Recorded(rec) /\ op[c].old = rec
  BY DEF InTurn, Turns
<1>2. {rec.first, rec.last, rec.afirst, rec.alast} \subseteq Days
  BY <1>1 DEF CacheShape, InCalendar
<1>3. op[c].from \in Int /\ op[c].to \in Int /\ rec.afirst \in Int /\ rec.alast \in Int
  BY <1>2, CallTyped DEF CacheShape
<1>4. CASE op[c].path = "merge"
  <2>1. Window(op[c]) = Min({rec.afirst, op[c].from})..Max({rec.alast, op[c].to})
    BY <1>1, <1>4 DEF Window
  <2>2. PICK m, n : m = Min({rec.afirst, op[c].from}) /\ n = Max({rec.alast, op[c].to})
    OBVIOUS
  <2>3. m \in Int /\ n \in Int /\ m <= rec.afirst /\ rec.alast <= n
    BY <1>3, <2>2, MinOfTwo, MaxOfTwo
  <2>4. rec.afirst..rec.alast \subseteq m..n
    BY <1>3, <2>3
  <2> QED
    BY <1>1, <1>2, <2>1, <2>2, <2>4 DEF Extent
<1>5. CASE op[c].path # "merge"
  BY <1>1, <1>2, <1>5 DEF Window, Extent
<1> QED
  BY <1>4, <1>5

\* The file after a write.
Written(c) ==
    /\ rec' = rec /\ healed' = healed /\ givenUp' = givenUp
    /\ file' \in SUBSET Days
    /\ op[c].path = "full" => ~Recorded(rec) /\ file' = op[c].got
    /\ op[c].path # "full" =>
         /\ file' = (file \cup op[c].got) \cap Window(op[c])
         /\ Recorded(rec)
         /\ file \cap Extent(rec) \subseteq file'

LEMMA PublishWrites ==
  ASSUME CacheShape, InTurn, NEW c \in Calls, Publish(c)
  PROVE  Written(c)
<1>1. /\ op[c].pc = "fetch" /\ file' = Published(op[c])
      /\ rec' = rec /\ healed' = healed /\ givenUp' = givenUp
  BY DEF Publish
<1>2. Working(op[c])
  BY <1>1 DEF Working
<1>3. file' \in SUBSET Days
  BY PublishedTyped
<1>4. op[c].path = "full" => ~Recorded(rec) /\ file' = op[c].got
  BY <1>1, <1>2 DEF InTurn, Turns, Published
<1>5. op[c].path # "full" =>
         /\ file' = (file \cup op[c].got) \cap Window(op[c])
         /\ Recorded(rec)
         /\ file \cap Extent(rec) \subseteq file'
  BY <1>1, <1>2, WindowCovers DEF Published
<1> QED
  BY <1>1, <1>3, <1>4, <1>5 DEF Written

\* A record spans the file it describes.
LEMMA DescribedExtent ==
  ASSUME CacheShape, NEW c \in Calls, Record(c)
  PROVE  file \cap Extent(rec') = file
<1>1. Describes(c) /\ op[c].pc = "record"
  BY RecordMoves
<1>2. file \in SUBSET Days /\ file # {} /\ Days \subseteq Int
  BY <1>1, CallTyped DEF CacheShape
<1>3. /\ Min(file) \in file /\ \A x \in file : Min(file) <= x
      /\ Max(file) \in file /\ \A x \in file : x <= Max(file)
  BY <1>2, MinOfDays, MaxOfDays
<1>4. Min(file) \in Int /\ Max(file) \in Int
  BY <1>2, <1>3
<1>5. ASSUME NEW x \in file PROVE x \in Min(file)..Max(file)
  <2>1. x \in Int /\ Min(file) <= x /\ x <= Max(file)
    BY <1>2, <1>3
  <2> QED
    BY <1>4, <2>1
<1> QED
  BY <1>1, <1>5 DEF Describes, Extent

LEMMA InitBacked == CacheInit => Backed
  BY DEF CacheInit, Backed, Recorded, NoRec

LEMMA NextBacked ==
  ASSUME CacheShape, InTurn, Backed, [CacheNext]_cacheVars
  PROVE  Backed'
<1>1. ASSUME FileKept PROVE Backed'
  BY <1>1 DEF FileKept, Backed
<1>2. ASSUME NEW c \in Calls, NoRows(c) PROVE Backed'
  <2>1. NothingCame(c)
    BY <1>2, NoRowsMoves DEF CacheShape
  <2>2. CASE rec' = rec
    BY <2>1, <2>2 DEF NothingCame, Backed
  <2>3. CASE op[c].path = "merge" /\ rec' = Widened(op[c])
    <3>1. Working(op[c]) /\ op[c].pc = "fetch" /\ file' = file
      BY <2>1 DEF NothingCame, Working
    <3>2. /\ op[c].old = rec /\ Recorded(rec)
          /\ {rec.first, rec.last, rec.afirst, rec.alast} \subseteq Days
      BY <2>3, <3>1, WindowCovers
    <3>3. /\ rec'.first = Min({rec.first, op[c].from}) /\ rec'.last = Max({rec.last, op[c].to})
          /\ rec'.afirst = rec.afirst /\ rec'.alast = rec.alast /\ rec'.count = rec.count
      BY <2>3, <3>1, <3>2, WidenedTyped DEF Same
    <3>4. op[c].from \in Int /\ op[c].to \in Int /\ Days \subseteq Int
      BY CallTyped DEF CacheShape
    <3>5. rec.first \in Int /\ rec.last \in Int /\ rec.afirst \in Int /\ rec.alast \in Int
      BY <3>2, <3>4
    <3>6. /\ rec'.first <= rec.first /\ rec.last <= rec'.last /\ rec'.first \in Int
          /\ rec'.last \in Int
      BY <3>3, <3>4, <3>5, MinOfTwo, MaxOfTwo
    <3>7. /\ rec.afirst \in file /\ rec.alast \in file
          /\ rec.first <= rec.afirst /\ rec.afirst <= rec.alast /\ rec.alast <= rec.last
          /\ rec.count <= Cardinality(file \cap Extent(rec))
      BY <3>2 DEF Backed
    <3>8. rec'.first <= rec'.afirst /\ rec'.afirst <= rec'.alast /\ rec'.alast <= rec'.last
      BY <3>3, <3>6, <3>7, <3>5
    <3>9. Extent(rec') = Extent(rec)
      BY <3>3 DEF Extent
    <3> QED
      BY <3>1, <3>3, <3>7, <3>8, <3>9 DEF Backed
  <2> QED
    BY <2>1, <2>2, <2>3 DEF NothingCame
<1>3. ASSUME NEW c \in Calls, Publish(c) PROVE Backed'
  <2>1. Written(c)
    BY <1>3, PublishWrites
  <2>2. SUFFICES ASSUME Recorded(rec) PROVE Backed'
    BY <2>1 DEF Written, Backed
  <2>3. /\ rec.afirst \in file /\ rec.alast \in file
        /\ rec.first <= rec.afirst /\ rec.afirst <= rec.alast /\ rec.alast <= rec.last
        /\ rec.count <= Cardinality(file \cap Extent(rec))
    BY <2>2 DEF Backed
  <2>4. file \cap Extent(rec) \subseteq file' /\ file' \in SUBSET Days /\ rec' = rec
    BY <2>1, <2>2 DEF Written
  <2>5. rec.afirst \in Extent(rec) /\ rec.alast \in Extent(rec)
    BY <2>3, CallTyped DEF CacheShape, CacheTypeOK, Records, Extent
  <2>6. /\ Cardinality(file \cap Extent(rec)) <= Cardinality(file' \cap Extent(rec))
        /\ Cardinality(file \cap Extent(rec)) \in Nat
        /\ Cardinality(file' \cap Extent(rec)) \in Nat
    BY <2>4, Counting
  <2>7. rec.count \in Nat
    BY CacheAssumption DEF CacheShape, CacheTypeOK, Records
  <2>8. rec.count <= Cardinality(file' \cap Extent(rec))
    BY <2>3, <2>6, <2>7
  <2> QED
    BY <2>3, <2>4, <2>5, <2>8 DEF Backed
<1>4. ASSUME NEW c \in Calls, Record(c) PROVE Backed'
  <2>1. Describes(c) /\ file' = file /\ op[c].pc = "record"
    BY <1>4, RecordMoves
  <2>2. file \in SUBSET Days /\ file # {} /\ Days \subseteq Int
    BY <2>1, CallTyped DEF CacheShape
  <2>3. /\ Min(file) \in file /\ \A x \in file : Min(file) <= x
        /\ Max(file) \in file /\ \A x \in file : x <= Max(file)
    BY <2>2, MinOfDays, MaxOfDays
  <2>4. op[c].from \in Int /\ op[c].to \in Int
        /\ op[c].old.first \in Int /\ op[c].old.last \in Int
    BY CallTyped DEF CacheShape, Records
  <2>5. Min(file) \in Int /\ Max(file) \in Int
    BY <2>2, <2>3
  <2>6. FirstClaimed(op[c]) <= Min(file)
    BY <2>4, <2>5, MinOfTwo DEF FirstClaimed
  <2>7. Max(file) <= LastClaimed(op[c])
    <3>1. /\ Max(file) <= Max({Max(file), op[c].old.last})
          /\ Max(file) <= Max({Max(file), op[c].to})
          /\ Max(file) <= Max(file)
      BY <2>4, <2>5, MaxOfTwo
    <3> QED
      BY <3>1 DEF LastClaimed
  <2>8. file \cap Extent(rec') = file
    BY <1>4, DescribedExtent
  <2>9. Cardinality(file) <= Cardinality(file)
    BY <2>2, Counting
  <2> QED
    BY <2>1, <2>3, <2>6, <2>7, <2>8, <2>9 DEF Describes, Backed
<1> QED
  BY <1>1, <1>2, <1>3, <1>4, StepKinds

-----------------------------------------------------------------------------
(* What a fetch writes.                                                    *)

LEMMA WriteKept ==
  ASSUME NEW d \in Calls, Writes(d), op'[d] = op[d], UNCHANGED <<file, rec>>
  PROVE  Writes(d)'
<1>1. Asked(op[d])' = Asked(op[d])
  BY DEF Asked, Lacking
<1>2. Window(op[d])' = Window(op[d])
  BY DEF Window
<1> QED
  BY <1>1, <1>2 DEF Writes

\* The step of a call is the only one to look at.
LEMMA WritesOfOne ==
  ASSUME NEW c \in Calls, Working(op'[c]) => Writes(c)', Moved(c),
         \A d \in Calls \ {c} : ~Working(op[d])
  PROVE  AllWrites'
<1>1. ASSUME NEW d \in Calls, d # c PROVE Writes(d)'
  BY <1>1 DEF Writes, Moved
<1>2. Writes(c)'
  BY DEF Writes
<1> QED
  BY <1>1, <1>2 DEF AllWrites

LEMMA LackingInWindow ==
  ASSUME CacheShape, InTurn, Backed, NEW c \in Calls, Working(op[c]), op[c].path = "merge",
         op[c].from <= op[c].to
  PROVE  Lacking(op[c]) \subseteq Window(op[c])
<1>1. /\ Recorded(rec) /\ op[c].old = rec
      /\ {rec.first, rec.last, rec.afirst, rec.alast} \subseteq Days
  BY WindowCovers
<1>2. /\ op[c].from \in Int /\ op[c].to \in Int /\ rec.first \in Int /\ rec.last \in Int
      /\ rec.afirst \in Int /\ rec.alast \in Int
  BY <1>1, CallTyped DEF CacheShape
<1>3. rec.first <= rec.afirst /\ rec.afirst <= rec.alast /\ rec.alast <= rec.last
  BY <1>1 DEF Backed
<1>4. PICK m, n : m = Min({rec.afirst, op[c].from}) /\ n = Max({rec.alast, op[c].to})
  OBVIOUS
<1>5. /\ m \in Int /\ n \in Int /\ m <= rec.afirst /\ m <= op[c].from
      /\ rec.alast <= n /\ op[c].to <= n
  BY <1>2, <1>4, MinOfTwo, MaxOfTwo
<1>6. Window(op[c]) = m..n
  BY <1>1, <1>4 DEF Window
<1>7. op[c].from..rec.first \subseteq m..n
  BY <1>2, <1>3, <1>5
<1>8. rec.last..op[c].to \subseteq m..n
  BY <1>2, <1>3, <1>5
<1> QED
  BY <1>6, <1>7, <1>8 DEF Lacking

\* The start of a fetch: nothing has come yet.
Started(c) ==
    /\ Moved(c) /\ op'[c].pc = "fetch" /\ op'[c].old = rec /\ rec' = rec
    /\ op'[c].got = {} /\ op'[c].cut = FALSE
    /\ op'[c].from = op[c].from /\ op'[c].to = op[c].to
    /\ op'[c].todo \subseteq Asked(op[c])'
    /\ op'[c].path = "merge" => op'[c].todo \in ToFetch(op[c])
    /\ op'[c].path # "merge" => op'[c].todo = Asked(op[c])'
    /\ op'[c].path = "merge" => Lacking(op[c]) = Asked(op[c])'
    /\ op'[c].path = "heal" => HealNeeded(rec)

LEMMA BeginStarts ==
  ASSUME CacheShape, InTurn, NEW c \in Calls, Begin(c)
  PROVE  /\ Started(c) \/ (Moved(c) /\ op'[c].pc = "idle")
         /\ \A d \in Calls : ~Working(op[d])
<1>1. BeginCases(c) /\ op[c].pc = "waiting" /\ ~busy /\ rec' = rec
  BY BeginMoves DEF Begin, KeyFree
<1>2. \A d \in Calls : ~Working(op[d])
  BY <1>1 DEF InTurn, Turns
<1>3. op[c].got = {} /\ op[c].cut = FALSE
  BY <1>1, CallTyped DEF CacheShape, InTurn, Turns
<1>4. op[c] \in Ops
  BY CallTyped DEF CacheShape
<1>5. ASSUME NEW path, NEW todo, FetchStarts(c, path, todo)
      PROVE  /\ Moved(c) /\ op'[c].pc = "fetch" /\ op'[c].old = rec
             /\ op'[c].got = {} /\ op'[c].cut = FALSE
             /\ op'[c].from = op[c].from /\ op'[c].to = op[c].to
             /\ op'[c].path = path /\ op'[c].todo = todo
  BY <1>3, <1>4, <1>5 DEF FetchStarts, Fetching, Ops
<1>6. CASE ~Recorded(rec) /\ FetchStarts(c, "full", op[c].from..op[c].to)
  <2>1. /\ Moved(c) /\ op'[c].pc = "fetch" /\ op'[c].old = rec
        /\ op'[c].got = {} /\ op'[c].cut = FALSE
        /\ op'[c].from = op[c].from /\ op'[c].to = op[c].to
        /\ op'[c].path = "full" /\ op'[c].todo = op[c].from..op[c].to
    BY <1>5, <1>6
  <2>2. Asked(op[c])' = op[c].from..op[c].to
    BY <2>1 DEF Asked
  <2> QED
    BY <1>1, <1>2, <2>1, <2>2 DEF Started
<1>7. ASSUME NEW todo \in ToFetch(op[c]), FetchStarts(c, "merge", todo)
      PROVE  Started(c)
  <2>1. /\ Moved(c) /\ op'[c].pc = "fetch" /\ op'[c].old = rec
        /\ op'[c].got = {} /\ op'[c].cut = FALSE
        /\ op'[c].from = op[c].from /\ op'[c].to = op[c].to
        /\ op'[c].path = "merge" /\ op'[c].todo = todo
    BY <1>5, <1>7
  <2>2. Asked(op[c])' = Lacking(op[c])'
    BY <2>1 DEF Asked
  <2>3. Lacking(op[c])' = Lacking(op[c])
    BY <1>1, <2>1 DEF Lacking
  <2>4. todo \subseteq Lacking(op[c])
    BY DEF ToFetch
  <2> QED
    BY <1>1, <1>7, <2>1, <2>2, <2>3, <2>4 DEF Started
<1>8. CASE HealNeeded(rec) /\ FetchStarts(c, "heal", Extent(rec))
  <2>1. /\ Moved(c) /\ op'[c].pc = "fetch" /\ op'[c].old = rec
        /\ op'[c].got = {} /\ op'[c].cut = FALSE
        /\ op'[c].from = op[c].from /\ op'[c].to = op[c].to
        /\ op'[c].path = "heal" /\ op'[c].todo = Extent(rec)
    BY <1>5, <1>8
  <2>2. Asked(op[c])' = Extent(rec)
    BY <2>1 DEF Asked, Extent
  <2> QED
    BY <1>1, <1>2, <1>8, <2>1, <2>2 DEF Started
<1> QED
  BY <1>1, <1>2, <1>6, <1>7, <1>8 DEF BeginCases

\* A chunk is a day of what was asked for.
LEMMA ChunkDay ==
  ASSUME CacheTypeOK, NEW c \in Calls, NEW yield \in BOOLEAN,
         ChunkAnswered(c, yield) \/ Skip(c, yield)
  PROVE  /\ Moved(c) /\ Advances(c, op[c])
         /\ UNCHANGED <<file, rec, healed>>
         /\ op[c].todo # {} /\ op[c].todo \in SUBSET Days
         /\ Min(op[c].todo) \in op[c].todo
         /\ \A x \in op[c].todo : Min(op[c].todo) <= x
         /\ op'[c].todo = (IF yield THEN {} ELSE op[c].todo \ {Min(op[c].todo)})
         /\ op'[c].cut = yield
         /\ yield => op[c].path \in PreemptedIn
         /\ \/ /\ op'[c].got = op[c].got \cup ({Min(op[c].todo)} \cap Provided)
               /\ givenUp' = givenUp
            \/ /\ op'[c].got = op[c].got
               /\ givenUp' = givenUp \cup {Min(op[c].todo)}
         /\ Asked(op[c])' = Asked(op[c])
<1>1. op[c].todo # {} /\ op[c].todo \in SUBSET Days
  BY CallTyped DEF ChunkAnswered, Skip
<1>2. /\ Min(op[c].todo) \in op[c].todo
      /\ \A x \in op[c].todo : Min(op[c].todo) <= x
  BY <1>1, MinOfDays
<1>3. Moved(c) /\ Advances(c, op[c]) /\ UNCHANGED <<file, rec, healed>>
  BY AdvanceQuiet DEF FileKept
<1>4. /\ op'[c].todo = (IF yield THEN {} ELSE op[c].todo \ {Min(op[c].todo)})
      /\ op'[c].cut = yield
  BY AnsweredMoves, SkipMoves
<1>5. yield => op[c].path \in PreemptedIn
  BY DEF ChunkAnswered, Skip
<1>6. \/ /\ op'[c].got = op[c].got \cup ({Min(op[c].todo)} \cap Provided)
         /\ givenUp' = givenUp
      \/ /\ op'[c].got = op[c].got
         /\ givenUp' = givenUp \cup {Min(op[c].todo)}
  <2>1. CASE ChunkAnswered(c, yield)
    BY <2>1, AnsweredMoves DEF ChunkAnswered
  <2>2. CASE Skip(c, yield)
    BY <2>2, SkipMoves DEF Skip
  <2> QED
    BY <2>1, <2>2
<1>7. Asked(op[c])' = Asked(op[c])
  BY <1>3 DEF Advances, Asked, Lacking
<1> QED
  BY <1>1, <1>2, <1>3, <1>4, <1>5, <1>6, <1>7

LEMMA InitWrites == CacheInit => AllWrites
<1>1. NoOp.pc = "idle"
  BY DEF NoOp
<1> QED
  BY <1>1 DEF CacheInit, AllWrites, Writes, Working

LEMMA NextWrites ==
  ASSUME CacheShape, InTurn, Backed, AllWrites, [CacheNext]_cacheVars
  PROVE  AllWrites'
<1> USE DEF CacheShape
<1>1. CASE UNCHANGED cacheVars
  BY <1>1, WriteKept DEF AllWrites, cacheVars
<1>2. ASSUME NEW c \in Calls, NEW r \in Requests, Call(c, r[1], r[2]) PROVE AllWrites'
  <2>1. Moved(c) /\ op'[c].pc = "waiting" /\ UNCHANGED <<file, rec>>
    BY <1>2, CallMoves DEF Call
  <2>2. ASSUME NEW d \in Calls, d # c PROVE Writes(d)'
    BY <2>1, <2>2, WriteKept DEF Moved, AllWrites
  <2>3. Writes(c)'
    BY <2>1 DEF Writes, Working
  <2> QED
    BY <2>2, <2>3 DEF AllWrites
<1>3. ASSUME NEW c \in Calls, Begin(c) PROVE AllWrites'
  <2>1. /\ Started(c) \/ (Moved(c) /\ op'[c].pc = "idle")
        /\ \A d \in Calls : ~Working(op[d])
    BY <1>3, BeginStarts
  <2>2. Moved(c)
    BY <2>1 DEF Started
  <2>3. Working(op'[c]) => Writes(c)'
    BY <2>1 DEF Started, Working, Writes
  <2> QED
    BY <2>1, <2>2, <2>3, WritesOfOne
<1>4. ASSUME NEW c \in Calls, NEW yield \in BOOLEAN,
             ChunkAnswered(c, yield) \/ Skip(c, yield)
      PROVE  AllWrites'
  <2>1. PICK d : d = Min(op[c].todo)
    OBVIOUS
  <2>2. /\ Moved(c) /\ op[c].pc = "fetch" /\ op'[c].pc = "fetch"
        /\ d \in op[c].todo
        /\ op'[c].todo \subseteq op[c].todo
        /\ op'[c].got \subseteq op[c].got \cup ({d} \cap Provided)
        /\ Asked(op[c])' = Asked(op[c])
    BY <1>4, <2>1, ChunkDay DEF Advances
  <2>3. Working(op[c])
    BY <2>2 DEF Working
  <2>4. op[c].todo \subseteq Asked(op[c]) /\ op[c].got \subseteq Asked(op[c]) \cap Provided
    BY <2>3 DEF AllWrites, Writes
  <2>5. Writes(c)'
    BY <2>2, <2>4 DEF Writes
  <2> QED
    BY <2>2, <2>3, <2>5, Others, WritesOfOne
<1>5. ASSUME NEW c \in Calls, Moved(c), op'[c].pc = "idle", Working(op[c]) PROVE AllWrites'
  <2>1. ~Working(op'[c])
    BY <1>5 DEF Working
  <2> QED
    BY <1>5, <2>1, Others, WritesOfOne
<1>6. ASSUME NEW c \in Calls, Publish(c) PROVE AllWrites'
  <2>1. /\ Moved(c) /\ op[c].pc = "fetch" /\ op'[c] = [op[c] EXCEPT !.pc = "record"]
        /\ op[c].todo = {} /\ Written(c)
    BY <1>6, PublishMoves, PublishWrites DEF Publish
  <2>2. /\ op'[c].pc = "record" /\ op'[c].todo = {} /\ op'[c].got = op[c].got
        /\ op'[c].from = op[c].from /\ op'[c].to = op[c].to
        /\ op'[c].path = op[c].path /\ op'[c].old = op[c].old
    BY <2>1, CallTyped DEF Ops
  <2>3. Working(op[c])
    BY <2>1 DEF Working
  <2>4. op[c].got \subseteq Asked(op[c]) \cap Provided /\ op[c].from <= op[c].to
        /\ op[c].path \in Paths
    BY <2>1, <2>3, CallTyped DEF AllWrites, Writes, InTurn, Turns
  <2>5. Asked(op[c])' = Asked(op[c]) /\ Window(op[c])' = Window(op[c])
    BY <2>1, <2>2 DEF Asked, Lacking, Window, Written
  <2>6. op[c].path # "full" => op[c].got \subseteq Window(op[c])
    <3>1. CASE op[c].path = "merge"
      BY <2>3, <2>4, <3>1, LackingInWindow DEF Asked
    <3>2. CASE op[c].path = "heal"
      <4>1. Asked(op[c]) = Window(op[c])
        BY <3>2 DEF Asked, Window, Extent
      <4> QED
        BY <2>4, <4>1
    <3> QED
      BY <2>4, <3>1, <3>2 DEF Paths
  <2>7. op[c].got \subseteq file'
    BY <2>1, <2>6 DEF Written
  <2>8. op[c].path = "full" => file' = op[c].got
    BY <2>1 DEF Written
  <2>9. op[c].path # "full" => file' \subseteq Window(op[c])
    BY <2>1 DEF Written
  <2>10. Writes(c)'
    BY <2>2, <2>4, <2>5, <2>7, <2>8, <2>9 DEF Writes
  <2> QED
    BY <2>1, <2>3, <2>10, Others, WritesOfOne
<1>7. ASSUME Crash PROVE AllWrites'
  BY <1>7, CrashQuiet DEF AllWrites, Writes, Working
<1>8. ASSUME NEW c \in Calls, Fail(c) PROVE AllWrites'
  BY <1>5, <1>8, FailQuiet DEF Fail, Working
<1>9. ASSUME NEW c \in Calls, NoRows(c) PROVE AllWrites'
  BY <1>5, <1>9, NoRowsMoves DEF NothingCame, Working
<1>10. ASSUME NEW c \in Calls, Record(c) PROVE AllWrites'
  BY <1>5, <1>10, RecordMoves DEF Working
<1> QED
  BY <1>1, <1>2, <1>3, <1>4, <1>6, <1>7, <1>8, <1>9, <1>10 DEF CacheNext, Step

-----------------------------------------------------------------------------
(* Healing.                                                                *)

\* What the last heal said is no reason to heal again.
LEMMA NoNeed ==
  ASSUME CacheShape, Backed, HealDone, Settled
  PROVE  ~HealNeeded(rec)
<1>1. Recorded(rec) /\ ~TooFewRows(rec) /\ rec.known = Extent(rec) \ file
  BY DEF Settled, HealDone
<1>2. rec.afirst \in file /\ rec.alast \in file /\ file \in SUBSET Days
  BY <1>1 DEF Backed, CacheShape, CacheTypeOK
<1>3. Missing(file, rec.afirst, rec.alast) = rec.known
  BY <1>1, <1>2, MissingBetween DEF Extent
<1>4. ~UnknownGap(rec)
  BY <1>3 DEF UnknownGap
<1> QED
  BY <1>1, <1>4 DEF HealNeeded

LEMMA RecordsTyped ==
  ASSUME CacheShape, NEW r \in {rec, healed}
  PROVE  /\ r.first \in Nat /\ r.last \in Nat /\ r.afirst \in Nat /\ r.alast \in Nat
         /\ r.count \in Nat
  BY CacheAssumption DEF CacheShape, CacheTypeOK, Records

LEMMA HealedInRecord ==
  ASSUME CacheShape, HealKept, Recorded(healed)
  PROVE  /\ Extent(healed) \subseteq Extent(rec)
         /\ healed.afirst \in Extent(healed) /\ healed.alast \in Extent(healed)
<1>1. /\ rec.afirst <= healed.afirst /\ healed.alast <= rec.alast
      /\ healed.afirst <= healed.alast
  BY DEF HealKept
<1>2. /\ rec.afirst \in Nat /\ rec.alast \in Nat
      /\ healed.afirst \in Nat /\ healed.alast \in Nat
  BY RecordsTyped
<1> QED
  BY <1>1, <1>2 DEF Extent

LEMMA PublishKeepsHeal ==
  ASSUME CacheShape, InTurn, HealKept, NEW c \in Calls, Publish(c)
  PROVE  HealKept'
<1>1. Written(c)
  BY PublishWrites
<1>2. SUFFICES ASSUME Recorded(healed) PROVE HealKept'
  BY <1>1 DEF Written, HealKept
<1>3. Recorded(rec) /\ file \cap Extent(rec) \subseteq file' /\ file' \in SUBSET Days
      /\ rec' = rec /\ healed' = healed
  BY <1>1, <1>2 DEF Written, HealKept
<1>4. /\ Extent(healed) \subseteq Extent(rec)
      /\ healed.afirst \in Extent(healed) /\ healed.alast \in Extent(healed)
  BY <1>2, HealedInRecord
<1>5. PICK S, T : S = file \cap Extent(healed) /\ T = file' \cap Extent(healed)
  OBVIOUS
<1>6. S \subseteq T /\ T \in SUBSET Days
  BY <1>3, <1>4, <1>5
<1>7. /\ Cardinality(S) \in Nat /\ Cardinality(T) \in Nat
      /\ Cardinality(S) <= Cardinality(T)
      /\ Cardinality(S) = Cardinality(T) => S = T
  BY <1>6, Counting
<1>8. /\ rec.afirst <= healed.afirst /\ healed.alast <= rec.alast
      /\ healed.afirst \in file /\ healed.alast \in file
      /\ healed.afirst <= healed.alast
      /\ healed.count <= Cardinality(S)
      /\ healed.count = Cardinality(S) => healed.known = Extent(healed) \ file
  BY <1>2, <1>5 DEF HealKept
<1>9. healed.count \in Nat
  BY RecordsTyped
<1>10. healed.count <= Cardinality(T)
  BY <1>7, <1>8, <1>9
<1>11. ASSUME healed.count = Cardinality(T) PROVE healed.known = Extent(healed) \ file'
  <2>1. Cardinality(S) = Cardinality(T)
    BY <1>7, <1>8, <1>9, <1>11
  <2>2. S = T /\ healed.known = Extent(healed) \ file
    BY <1>7, <1>8, <1>11, <2>1
  <2>3. Extent(healed) \ file = Extent(healed) \ file'
    BY <1>5, <2>2
  <2> QED
    BY <2>2, <2>3
<1>12. healed.afirst \in file' /\ healed.alast \in file'
  BY <1>3, <1>4, <1>8
<1> QED
  BY <1>3, <1>5, <1>8, <1>10, <1>11, <1>12 DEF HealKept

\* The record of a heal spans what the one before it did.
LEMMA HealSpans ==
  ASSUME CacheShape, InTurn, Backed, AllWrites, NEW c \in Calls, Record(c), op[c].path = "heal"
  PROVE  rec'.known = Extent(rec') \ file
<1>1. Describes(c) /\ op[c].pc = "record"
  BY RecordMoves
<1>2. Working(op[c])
  BY <1>1 DEF Working
<1>3. Recorded(rec) /\ op[c].old = rec
  BY <1>2, WindowCovers
<1>4. rec.afirst \in file /\ rec.alast \in file /\ file \in SUBSET Days /\ file # {}
  BY <1>3 DEF Backed, CacheShape, CacheTypeOK
<1>5. file \subseteq rec.afirst..rec.alast
  BY <1>1, <1>2, <1>3 DEF AllWrites, Writes, Window
<1>6. /\ Min(file) \in file /\ Max(file) \in file
      /\ Min(file) <= rec.afirst /\ rec.alast <= Max(file)
  BY <1>4, MinOfDays, MaxOfDays
<1>7. /\ Min(file) \in Int /\ Max(file) \in Int /\ rec.afirst \in Int /\ rec.alast \in Int
      /\ rec.afirst <= Min(file) /\ Max(file) <= rec.alast
  <2>1. rec.afirst \in Nat /\ rec.alast \in Nat
    BY RecordsTyped
  <2>2. \A x \in file : x \in Int /\ rec.afirst <= x /\ x <= rec.alast
    BY <1>5, <2>1
  <2> QED
    BY <1>6, <2>1, <2>2
<1>8. Min(file) = rec.afirst /\ Max(file) = rec.alast
  BY <1>6, <1>7
<1>9. rec'.known = Missing(file, rec.afirst, rec.alast)
  BY <1>1, <1>3 DEF Describes, KnownMissing
<1>10. rec'.known = (rec.afirst..rec.alast) \ file
  BY <1>4, <1>9, MissingBetween
<1> QED
  BY <1>1, <1>8, <1>10 DEF Describes, Extent

LEMMA RecordKeepsHeal ==
  ASSUME CacheShape, InTurn, Backed, Backed', AllWrites, HealKept, NEW c \in Calls, Record(c)
  PROVE  HealKept'
<1>1. /\ Describes(c) /\ op[c].pc = "record" /\ file' = file
      /\ healed' = IF op[c].path = "heal" THEN rec' ELSE healed
  BY RecordMoves
<1>2. file \in SUBSET Days /\ file # {}
  BY <1>1 DEF CacheShape, CacheTypeOK
<1>3. /\ Recorded(rec') /\ rec'.count = Cardinality(file) /\ rec'.afirst = Min(file)
      /\ rec'.alast = Max(file)
  BY <1>1 DEF Describes
<1>4. CASE op[c].path = "heal"
  <2>1. healed' = rec'
    BY <1>1, <1>4
  <2>2. rec'.known = Extent(rec') \ file
    BY <1>4, HealSpans
  <2>3. /\ rec'.afirst \in file' /\ rec'.alast \in file' /\ rec'.afirst <= rec'.alast
        /\ rec'.count <= Cardinality(file' \cap Extent(rec'))
    BY <1>3 DEF Backed
  <2>4. rec'.afirst <= rec'.afirst /\ rec'.alast <= rec'.alast
    BY <1>1 DEF Describes, Records
  <2> QED
    BY <1>1, <1>3, <2>1, <2>2, <2>3, <2>4 DEF HealKept
<1>5. CASE op[c].path # "heal"
  <2>1. healed' = healed
    BY <1>1, <1>5
  <2>2. SUFFICES ASSUME Recorded(healed) PROVE HealKept'
    BY <2>1 DEF HealKept
  <2>3. /\ healed.afirst \in file /\ healed.alast \in file
        /\ healed.afirst <= healed.alast
        /\ healed.count <= Cardinality(file \cap Extent(healed))
        /\ healed.count = Cardinality(file \cap Extent(healed))
             => healed.known = Extent(healed) \ file
    BY <2>2 DEF HealKept
  <2>4. Min(file) <= healed.afirst /\ healed.alast <= Max(file)
    BY <1>2, <2>3, MinOfDays, MaxOfDays
  <2> QED
    BY <1>1, <1>3, <2>1, <2>3, <2>4 DEF HealKept
<1> QED
  BY <1>4, <1>5

LEMMA InitHealKept == CacheInit => HealKept /\ HealDone
  BY DEF CacheInit, HealKept, HealDone, Settled, Recorded, NoRec

LEMMA WidensOnly ==
  ASSUME CacheShape, InTurn, NEW c \in Calls, NoRows(c)
  PROVE  /\ file' = file /\ healed' = healed
         /\ \A d \in Calls : ~Working(op'[d])
         /\ \/ rec' = rec
            \/ Recorded(rec') /\ Recorded(rec) /\ Same(rec', rec) /\ op[c].path = "merge"
<1>1. NothingCame(c)
  BY NoRowsMoves DEF CacheShape
<1>2. Working(op[c]) /\ op[c].pc = "fetch" /\ file' = file /\ healed' = healed
      /\ Moved(c) /\ op'[c].pc = "idle"
  BY <1>1 DEF NothingCame, Working
<1>3. \A d \in Calls : ~Working(op'[d])
  BY <1>2, Others DEF Moved, Working
<1>4. CASE op[c].path = "merge" /\ rec' = Widened(op[c])
  <2>1. op[c].old = rec
    BY <1>2, <1>4, WindowCovers
  <2>2. Recorded(rec') /\ Recorded(rec) /\ Same(rec', rec)
    BY <1>2, <1>4, <2>1, WidenedTyped
  <2> QED
    BY <1>2, <1>3, <1>4, <2>2
<1> QED
  BY <1>1, <1>2, <1>3, <1>4 DEF NothingCame

LEMMA NextHealKept ==
  ASSUME CacheShape, InTurn, Backed, AllWrites, HealKept, [CacheNext]_cacheVars
  PROVE  HealKept'
<1>1. ASSUME FileKept PROVE HealKept'
  BY <1>1 DEF FileKept, HealKept
<1>2. ASSUME NEW c \in Calls, NoRows(c) PROVE HealKept'
  <2>1. /\ file' = file /\ healed' = healed
        /\ rec' = rec \/ (Recorded(rec') /\ Recorded(rec) /\ Same(rec', rec))
    BY <1>2, WidensOnly
  <2>2. /\ Recorded(rec') = Recorded(rec)
        /\ rec'.afirst = rec.afirst /\ rec'.alast = rec.alast
    BY <2>1 DEF Same, Recorded
  <2> QED
    BY <2>1, <2>2 DEF HealKept
<1>3. ASSUME NEW c \in Calls, Publish(c) PROVE HealKept'
  BY <1>3, PublishKeepsHeal
<1>4. ASSUME NEW c \in Calls, Record(c) PROVE HealKept'
  BY <1>4, RecordKeepsHeal, NextBacked
<1> QED
  BY <1>1, <1>2, <1>3, <1>4, StepKinds

\* A merge asks for no day between those of the record but its ends.
LEMMA MergeBeside ==
  ASSUME CacheShape, InTurn, Backed, NEW c \in Calls, Working(op[c]), op[c].path = "merge"
  PROVE  Lacking(op[c]) \cap Extent(rec) \subseteq file
<1>1. Recorded(rec)
  BY WindowCovers
<1>2. /\ rec.afirst \in file /\ rec.alast \in file
      /\ rec.first <= rec.afirst /\ rec.alast <= rec.last
  BY <1>1 DEF Backed
<1>3. /\ rec.first \in Int /\ rec.last \in Int /\ rec.afirst \in Int /\ rec.alast \in Int
      /\ op[c].from \in Int /\ op[c].to \in Int
  BY RecordsTyped, CallTyped DEF CacheShape
<1>4. ASSUME NEW x \in Lacking(op[c]) \cap Extent(rec) PROVE x = rec.afirst \/ x = rec.alast
  <2>1. x \in Int /\ rec.afirst <= x /\ x <= rec.alast
    BY <1>3, <1>4 DEF Extent
  <2>2. x <= rec.first \/ rec.last <= x
    BY <1>3, <1>4 DEF Lacking
  <2> QED
    BY <1>2, <1>3, <2>1, <2>2
<1> QED
  BY <1>2, <1>4

LEMMA NextHealDone ==
  ASSUME CacheShape, InTurn, Backed, AllWrites, HealKept, HealDone, [CacheNext]_cacheVars
  PROVE  HealDone'
<1>1. ASSUME FileKept PROVE HealDone'
  <2>1. SUFFICES ASSUME Settled PROVE HealDone'
    BY <1>1 DEF FileKept, HealDone, Settled, TooFewRows
  <2>2. ~HealNeeded(rec) /\ rec.known = Extent(rec) \ file
        /\ \A d \in Calls : Working(op[d]) => op[d].path # "heal"
    BY <2>1, NoNeed DEF HealDone
  <2> QED
    BY <1>1, <2>2 DEF FileKept, HealDone
<1>2. ASSUME NEW c \in Calls, NoRows(c) PROVE HealDone'
  <2>1. /\ file' = file /\ healed' = healed
        /\ \A d \in Calls : ~Working(op'[d])
        /\ rec' = rec \/ (Recorded(rec') /\ Recorded(rec) /\ Same(rec', rec))
    BY <1>2, WidensOnly
  <2>2. Settled' => Settled
    BY <2>1 DEF Settled, Same, TooFewRows
  <2>3. rec'.known = rec.known /\ Extent(rec') = Extent(rec)
    BY <2>1 DEF Same, Extent
  <2> QED
    BY <2>1, <2>2, <2>3 DEF HealDone
<1>3. ASSUME NEW c \in Calls, Publish(c) PROVE HealDone'
  <2>1. Written(c) /\ op[c].pc = "fetch" /\ op[c].path \in Paths
    BY <1>3, PublishWrites, CallTyped DEF Publish, CacheShape
  <2>2. Working(op[c])
    BY <2>1 DEF Working
  <2>3. SUFFICES ASSUME Settled PROVE HealDone'
    BY <2>1 DEF Written, HealDone, Settled, TooFewRows
  <2>4. op[c].path = "merge" /\ rec.known = Extent(rec) \ file
    <3>1. op[c].path # "heal" /\ rec.known = Extent(rec) \ file
      BY <2>2, <2>3 DEF HealDone
    <3>2. op[c].path # "full"
      BY <2>1, <2>3 DEF Written, Settled
    <3> QED
      BY <2>1, <3>1, <3>2 DEF Paths
  <2>5. op[c].got \subseteq Lacking(op[c])
    BY <2>2, <2>4 DEF AllWrites, Writes, Asked
  <2>6. op[c].got \cap Extent(rec) \subseteq file
    BY <2>2, <2>4, <2>5, MergeBeside
  <2>7. /\ file' = (file \cup op[c].got) \cap Window(op[c])
        /\ file \cap Extent(rec) \subseteq file' /\ rec' = rec
    BY <2>1, <2>4 DEF Written
  <2>8. Extent(rec) \ file' = Extent(rec) \ file
    BY <2>6, <2>7
  <2>9. \A d \in Calls : Working(op'[d]) => op'[d].path # "heal"
    <3>1. Moved(c) /\ op'[c].path = op[c].path
      BY <1>3, PublishMoves, CallTyped DEF CacheShape, Ops
    <3> QED
      BY <2>2, <2>4, <3>1, Others DEF Moved
  <2> QED
    BY <2>4, <2>7, <2>8, <2>9 DEF HealDone
<1>4. ASSUME NEW c \in Calls, Record(c) PROVE HealDone'
  <2>1. /\ Describes(c) /\ Moved(c) /\ op[c].pc = "record" /\ op'[c].pc = "idle" /\ file' = file
    BY <1>4, RecordMoves
  <2>2. Working(op[c])
    BY <2>1 DEF Working
  <2>3. \A d \in Calls : ~Working(op'[d])
    BY <2>1, <2>2, Others DEF Moved, Working
  <2>4. HealKept'
    BY NextHealKept
  <2>5. SUFFICES ASSUME Settled' PROVE rec'.known = Extent(rec') \ file'
    BY <2>3 DEF HealDone
  <2>6. Same(rec', healed') /\ Recorded(rec')
    BY <2>5 DEF Settled
  <2>7. Recorded(healed') /\ Extent(healed') = Extent(rec')
    BY <2>6 DEF Same, Recorded, Extent
  <2>8. file \cap Extent(rec') = file
    BY <1>4, DescribedExtent
  <2>9. healed'.count = Cardinality(file' \cap Extent(healed'))
    BY <2>1, <2>6, <2>7, <2>8 DEF Describes, Same
  <2>10. healed'.known = Extent(healed') \ file'
    BY <2>4, <2>7, <2>9 DEF HealKept
  <2> QED
    BY <2>6, <2>7, <2>10 DEF Same
<1> QED
  BY <1>1, <1>2, <1>3, <1>4, StepKinds

\* A call that starts to heal does so for a reason the last heal left.
HealsAnew ==
    \A c \in Calls :
      op[c].pc = "waiting" /\ op'[c].pc = "fetch" /\ op'[c].path = "heal"
        => rec # healed \/ TooFewRows(rec)

LEMMA NextHealsAnew ==
  ASSUME CacheShape, InTurn, Backed, HealDone, [CacheNext]_cacheVars
  PROVE  HealsAnew
<1> SUFFICES ASSUME NEW c \in Calls,
                    op[c].pc = "waiting", op'[c].pc = "fetch", op'[c].path = "heal",
                    rec = healed, ~TooFewRows(rec)
             PROVE  FALSE
  BY DEF HealsAnew
<1>1. ~Working(op[c]) /\ Working(op'[c])
  BY DEF Working
<1>2. CASE FileKept
  <2>1. Recorded(rec) /\ HealNeeded(rec)
    BY <1>1, <1>2 DEF FileKept
  <2>2. Settled
    BY <2>1 DEF Settled, Same
  <2> QED
    BY <2>1, <2>2, NoNeed
<1>3. ASSUME NEW d \in Calls, NoRows(d) \/ Publish(d) \/ Record(d) PROVE FALSE
  <2>1. Moved(d) /\ op[d].pc \in {"fetch", "record"}
    BY <1>3, NoRowsMoves, PublishMoves, RecordMoves DEF CacheShape, NothingCame
  <2> QED
    BY <2>1 DEF Moved
<1> QED
  BY <1>2, <1>3, StepKinds

HealInv == CacheShape /\ InTurn /\ Backed /\ AllWrites /\ HealKept /\ HealDone

LEMMA CacheHeals == CacheSpec => []HealInv
<1>1. CacheInit => HealInv
  BY InitShape, InitTurn, InitBacked, InitWrites, InitHealKept DEF HealInv
<1>2. HealInv /\ [CacheNext]_cacheVars => HealInv'
  BY NextShape, NextTurns, NextBacked, NextWrites, NextHealKept, NextHealDone DEF HealInv
<1> QED
  BY <1>1, <1>2, PTL DEF CacheSpec

\* The types are right, and whatever is preempted and wherever the process ends
\* the rows the record counts, and the first and the last of them, are in the file.
THEOREM FileBehindRecord == CacheSpec => [](CacheTypeOK /\ Backed)
<1>1. HealInv => CacheTypeOK /\ Backed
  BY DEF HealInv, CacheShape
<1> QED
  BY <1>1, CacheHeals, PTL

\* Days the provider lacks are asked for once: no call heals the record the last
\* heal wrote unless it has too few rows, wherever the process ends and whatever
\* merges have extended the record since.
THEOREM HealedOnce == CacheSpec => HealsOnce
<1>1. HealInv /\ [CacheNext]_cacheVars => HealsAnew
  BY NextHealsAnew DEF HealInv
<1>2. CacheSpec => [][HealsAnew]_cacheVars
  BY <1>1, CacheHeals, PTL DEF CacheSpec
<1> QED
  BY <1>2 DEF HealsOnce, HealsAnew

-----------------------------------------------------------------------------
(* What the record claims.                                                 *)

LEMMA FetchedKept ==
  ASSUME NEW d \in Calls, Fetched(d), op'[d] = op[d], UNCHANGED <<rec, givenUp>>
  PROVE  Fetched(d)'
<1>1. Asked(op[d])' = Asked(op[d])
  BY DEF Asked, Lacking
<1> QED
  BY <1>1 DEF Fetched

LEMMA FetchedOfOne ==
  ASSUME NEW c \in Calls, Working(op'[c]) => Fetched(c)', Moved(c),
         \A d \in Calls \ {c} : ~Working(op[d])
  PROVE  AllFetched'
<1>1. ASSUME NEW d \in Calls, d # c PROVE Fetched(d)'
  BY <1>1 DEF Fetched, Moved
<1>2. Fetched(c)'
  BY DEF Fetched
<1> QED
  BY <1>1, <1>2 DEF AllFetched

\* A chunk: the first of the days still to come.
LEMMA ChunkFetched ==
  ASSUME CacheTypeOK, AllFetched, NEW c \in Calls, NEW yield \in BOOLEAN,
         ChunkAnswered(c, yield) \/ Skip(c, yield)
  PROVE  Fetched(c)'
<1>1. PICK n, D : n = Min(op[c].todo) /\ D = Asked(op[c]) \cap Provided
  OBVIOUS
<1>2. /\ Working(op[c]) /\ op'[c].path = op[c].path
      /\ n \in op[c].todo /\ op[c].todo \in SUBSET Days
      /\ \A x \in op[c].todo : n <= x
      /\ op'[c].todo = (IF yield THEN {} ELSE op[c].todo \ {n})
      /\ op'[c].cut = yield
      /\ yield => op[c].path \in PreemptedIn
      /\ (Asked(op[c]) \cap Provided)' = D
  BY <1>1, ChunkDay DEF Advances, Working
<1>3. \/ op'[c].got = op[c].got \cup ({n} \cap Provided) /\ givenUp' = givenUp
      \/ op'[c].got = op[c].got /\ givenUp' = givenUp \cup {n}
  BY <1>1, ChunkDay
<1>4. /\ ~op[c].cut
      /\ D \subseteq op[c].todo \cup op[c].got \cup givenUp
      /\ \A g \in op[c].got, x \in op[c].todo : g < x
      /\ \A g \in op[c].got, x \in D : x <= g => x \in op[c].got \cup givenUp
  BY <1>1, <1>2 DEF AllFetched, Fetched
<1>5. \A x \in op[c].todo : x \in Int
  BY <1>2, CacheAssumption DEF Days
<1>6. op[c].got \subseteq op'[c].got /\ givenUp \subseteq givenUp'
      /\ op'[c].got \subseteq op[c].got \cup {n}
  BY <1>3
<1>7. n \in Provided => n \in op'[c].got \cup givenUp'
  BY <1>3
<1>8. D \subseteq Provided
  BY <1>1
<1>9. op'[c].cut => op'[c].todo = {} /\ op'[c].path \in PreemptedIn
  BY <1>2
<1>10. ~op'[c].cut => D \subseteq op'[c].todo \cup op'[c].got \cup givenUp'
  BY <1>2, <1>4, <1>6, <1>7, <1>8
<1>11. ASSUME NEW g \in op'[c].got, NEW x \in op'[c].todo PROVE g < x
  <2>1. x \in op[c].todo /\ x # n
    BY <1>2, <1>11
  <2>2. CASE g \in op[c].got
    BY <1>4, <2>1, <2>2
  <2>3. CASE g = n
    <3>1. n <= x /\ n \in Int /\ x \in Int
      BY <1>2, <1>5, <2>1
    <3> QED
      BY <2>1, <2>3, <3>1
  <2> QED
    BY <1>6, <2>2, <2>3
<1>12. ASSUME NEW g \in op'[c].got, NEW x \in D, x <= g PROVE x \in op'[c].got \cup givenUp'
  <2>1. CASE g \in op[c].got
    BY <1>4, <1>6, <1>12, <2>1
  <2>2. CASE g = n
    <3>1. CASE x \in op[c].todo
      <4>1. n <= x /\ n \in Int /\ x \in Int
        BY <1>2, <1>5, <3>1
      <4>2. x = n
        BY <1>12, <2>2, <4>1
      <4> QED
        BY <1>7, <1>8, <4>2
    <3> QED
      BY <1>4, <1>6, <3>1
  <2> QED
    BY <1>6, <2>1, <2>2
<1> QED
  BY <1>2, <1>9, <1>10, <1>11, <1>12 DEF Fetched

LEMMA InitFetched == CacheInit => AllFetched /\ Claims
<1>1. NoOp.pc = "idle"
  BY DEF NoOp
<1> QED
  BY <1>1 DEF CacheInit, AllFetched, Fetched, Working, Claims, Recorded, NoRec

LEMMA NextFetched ==
  ASSUME "merge" \notin PreemptedIn, CacheShape, InTurn, AllFetched, [CacheNext]_cacheVars
  PROVE  AllFetched'
<1> USE DEF CacheShape
<1>1. CASE UNCHANGED cacheVars
  BY <1>1, FetchedKept DEF AllFetched, cacheVars
<1>2. ASSUME NEW c \in Calls, NEW r \in Requests, Call(c, r[1], r[2]) PROVE AllFetched'
  <2>1. Moved(c) /\ op'[c].pc = "waiting" /\ UNCHANGED <<rec, givenUp>>
    BY <1>2, CallMoves DEF Call
  <2>2. ASSUME NEW d \in Calls, d # c PROVE Fetched(d)'
    BY <2>1, <2>2, FetchedKept DEF Moved, AllFetched
  <2>3. Fetched(c)'
    BY <2>1 DEF Fetched, Working
  <2> QED
    BY <2>2, <2>3 DEF AllFetched
<1>3. ASSUME NEW c \in Calls, Begin(c) PROVE AllFetched'
  <2>1. /\ Started(c) \/ (Moved(c) /\ op'[c].pc = "idle")
        /\ \A d \in Calls : ~Working(op[d])
    BY <1>3, BeginStarts
  <2>2. Moved(c)
    BY <2>1 DEF Started
  <2>3. ASSUME Started(c) PROVE Fetched(c)'
    <3>1. op'[c].got = {} /\ op'[c].cut = FALSE /\ op'[c].todo = Asked(op[c])'
      BY <2>3 DEF Started, ToFetch
    <3> QED
      BY <3>1 DEF Fetched
  <2>4. Working(op'[c]) => Fetched(c)'
    BY <2>1, <2>3 DEF Working
  <2> QED
    BY <2>1, <2>2, <2>4, FetchedOfOne
<1>4. ASSUME NEW c \in Calls, NEW yield \in BOOLEAN,
             ChunkAnswered(c, yield) \/ Skip(c, yield)
      PROVE  AllFetched'
  <2>1. Moved(c) /\ Advances(c, op[c])
    BY <1>4, ChunkDay
  <2>2. Working(op[c])
    BY <2>1 DEF Advances, Working
  <2> QED
    BY <1>4, <2>1, <2>2, ChunkFetched, Others, FetchedOfOne
<1>5. ASSUME NEW c \in Calls, Moved(c), op'[c].pc = "idle", Working(op[c]) PROVE AllFetched'
  <2>1. ~Working(op'[c])
    BY <1>5 DEF Working
  <2> QED
    BY <1>5, <2>1, Others, FetchedOfOne
<1>6. ASSUME NEW c \in Calls, Publish(c) PROVE AllFetched'
  <2>1. /\ Moved(c) /\ op[c].pc = "fetch" /\ op'[c] = [op[c] EXCEPT !.pc = "record"]
        /\ UNCHANGED <<rec, givenUp>>
    BY <1>6, PublishMoves DEF Publish
  <2>2. /\ op'[c].todo = op[c].todo /\ op'[c].got = op[c].got /\ op'[c].cut = op[c].cut
        /\ op'[c].from = op[c].from /\ op'[c].to = op[c].to
        /\ op'[c].path = op[c].path /\ op'[c].old = op[c].old
    BY <2>1, CallTyped DEF Ops
  <2>3. Working(op[c])
    BY <2>1 DEF Working
  <2>4. Asked(op[c])' = Asked(op[c])
    BY <2>1, <2>2 DEF Asked, Lacking
  <2>5. Fetched(c)
    BY DEF AllFetched
  <2>6. Fetched(c)'
    BY <2>1, <2>2, <2>3, <2>4, <2>5 DEF Fetched
  <2> QED
    BY <2>1, <2>3, <2>6, Others, FetchedOfOne
<1>7. ASSUME Crash PROVE AllFetched'
  BY <1>7, CrashQuiet DEF AllFetched, Fetched, Working
<1>8. ASSUME NEW c \in Calls, Fail(c) PROVE AllFetched'
  BY <1>5, <1>8, FailQuiet DEF Fail, Working
<1>9. ASSUME NEW c \in Calls, NoRows(c) PROVE AllFetched'
  BY <1>5, <1>9, NoRowsMoves DEF NothingCame, Working
<1>10. ASSUME NEW c \in Calls, Record(c) PROVE AllFetched'
  BY <1>5, <1>10, RecordMoves DEF Working
<1> QED
  BY <1>1, <1>2, <1>3, <1>4, <1>6, <1>7, <1>8, <1>9, <1>10 DEF CacheNext, Step

\* A merge left out nothing it asked for but what was skipped.
LEMMA MergeComplete ==
  ASSUME "merge" \notin PreemptedIn, CacheShape, InTurn, AllFetched,
         NEW c \in Calls, Working(op[c]), op[c].path = "merge", op[c].todo = {}
  PROVE  Lacking(op[c]) \cap Provided \subseteq op[c].got \cup givenUp
<1>1. /\ op[c].cut => op[c].path \in PreemptedIn
      /\ ~op[c].cut => Asked(op[c]) \cap Provided \subseteq op[c].todo \cup op[c].got \cup givenUp
  BY DEF AllFetched, Fetched
<1>2. Asked(op[c]) = Lacking(op[c])
  BY DEF Asked
<1> QED
  BY <1>1, <1>2

LEMMA ClaimsWidened ==
  ASSUME "merge" \notin PreemptedIn, CacheShape, InTurn, Backed, AllFetched, Claims,
         NEW c \in Calls, NoRows(c)
  PROVE  Claims'
<1>1. NothingCame(c) /\ givenUp' = givenUp
  BY NoRowsMoves DEF CacheShape
<1>2. Working(op[c]) /\ op[c].pc = "fetch" /\ op[c].todo = {} /\ op[c].got = {} /\ file' = file
  BY <1>1 DEF NothingCame, Working
<1>3. CASE rec' = rec
  BY <1>1, <1>2, <1>3 DEF Claims
<1>4. CASE op[c].path = "merge" /\ rec' = Widened(op[c])
  <2>1. Recorded(rec) /\ op[c].old = rec
    BY <1>2, <1>4, WindowCovers
  <2>2. /\ rec'.first = Min({rec.first, op[c].from}) /\ rec'.last = Max({rec.last, op[c].to})
        /\ Same(rec', rec)
    BY <1>2, <1>4, <2>1, WidenedTyped
  <2>3. /\ rec.first \in Int /\ rec.last \in Int /\ op[c].from \in Int /\ op[c].to \in Int
        /\ Provided \subseteq Int
    BY RecordsTyped, CallTyped, CacheAssumption DEF CacheShape
  <2>4. Lacking(op[c]) \cap Provided \subseteq givenUp
    BY <1>2, <1>4, MergeComplete
  <2>5. Extent(rec') = Extent(rec)
    BY <2>2 DEF Same, Extent
  <2>6. ASSUME NEW x \in Provided, x \in rec'.first..rec'.last, x \notin givenUp
        PROVE  x \in file \cap Extent(rec)
    <3>1. x \in Int /\ rec'.first <= x /\ x <= rec'.last
      BY <2>3, <2>6
    <3>2. x \notin Lacking(op[c])
      BY <2>4, <2>6
    <3>3. x \in rec.first..rec.last
      <4>1. ASSUME x < rec.first PROVE FALSE
        <5>1. op[c].from <= x /\ op[c].from < rec.first
          BY <2>2, <2>3, <3>1, <4>1, MinOfTwo
        <5> QED
          BY <2>3, <3>1, <3>2, <4>1, <5>1 DEF Lacking
      <4>2. ASSUME rec.last < x PROVE FALSE
        <5>1. x <= op[c].to /\ rec.last < op[c].to
          BY <2>2, <2>3, <3>1, <4>2, MaxOfTwo
        <5> QED
          BY <2>3, <3>1, <3>2, <4>2, <5>1 DEF Lacking
      <4> QED
        BY <2>3, <3>1, <4>1, <4>2
    <3> QED
      BY <2>1, <2>6, <3>3 DEF Claims
  <2> QED
    BY <1>1, <1>2, <2>5, <2>6 DEF Claims
<1> QED
  BY <1>1, <1>3, <1>4 DEF NothingCame

\* What the new record claims is in the file, on each path.
LEMMA ClaimsRecorded ==
  ASSUME "merge" \notin PreemptedIn, CacheShape, InTurn, Backed, AllWrites, AllFetched, Claims,
         NEW c \in Calls, Record(c),
         NEW x \in Provided, FirstClaimed(op[c]) <= x, x <= LastClaimed(op[c]),
         x \notin givenUp
  PROVE  x \in file
<1>1. op[c].pc = "record"
  BY RecordMoves
<1>2. Working(op[c])
  BY <1>1 DEF Working
<1>3. /\ op[c].todo = {} /\ op[c].got \subseteq file /\ op[c].got \subseteq Asked(op[c])
      /\ op[c].path = "full" => file = op[c].got
      /\ op[c].path # "full" => file \subseteq Window(op[c])
  BY <1>1, <1>2 DEF AllWrites, Writes
<1>4. /\ op[c].from \in Int /\ op[c].to \in Int /\ op[c].path \in Paths
      /\ x \in Int /\ op[c].from <= op[c].to
  BY <1>1, CallTyped, CacheAssumption DEF CacheShape, InTurn, Turns
<1>5. file \in SUBSET Days /\ file # {} /\ Days \subseteq Int
  BY <1>1, CallTyped DEF CacheShape
<1>6. /\ Min(file) \in file /\ Max(file) \in file
      /\ Min(file) \in Int /\ Max(file) \in Int
  BY <1>5, MinOfDays, MaxOfDays
<1>7. CASE op[c].path = "full"
  <2>1. Asked(op[c]) = op[c].from..op[c].to /\ file = op[c].got
    BY <1>3, <1>7 DEF Asked
  <2>2. \A y \in file : op[c].from <= y /\ y <= op[c].to
    BY <1>3, <1>4, <2>1
  <2>3. op[c].from <= Min(file) /\ Max(file) <= op[c].to
    BY <1>6, <2>2
  <2>4. op[c].from <= x
    BY <1>4, <1>6, <1>7, <2>3, MinOfTwo DEF FirstClaimed
  <2>5. CASE op[c].cut
    <3>1. x <= Max(file)
      BY <1>7, <2>5 DEF LastClaimed
    <3>2. x \in op[c].from..op[c].to
      BY <1>4, <1>6, <2>3, <2>4, <3>1
    <3>3. x \in op[c].got \cup givenUp
      BY <1>2, <1>6, <2>1, <3>1, <3>2 DEF AllFetched, Fetched
    <3> QED
      BY <2>1, <3>3
  <2>6. CASE ~op[c].cut
    <3>1. LastClaimed(op[c]) = Max({Max(file), op[c].to})
      BY <1>7, <2>6 DEF LastClaimed
    <3>2. x <= op[c].to
      BY <1>4, <1>6, <2>3, <3>1, MaxOfTwo
    <3>3. x \in op[c].from..op[c].to
      BY <1>4, <2>4, <3>2
    <3>4. x \in op[c].todo \cup op[c].got \cup givenUp
      BY <1>2, <2>1, <2>6, <3>3 DEF AllFetched, Fetched
    <3> QED
      BY <1>3, <3>4
  <2> QED
    BY <2>5, <2>6
<1>8. ASSUME op[c].path # "full", x \in rec.first..rec.last PROVE x \in file
  <2>1. Recorded(rec)
    BY <1>2, <1>8, WindowCovers
  <2> QED
    BY <1>8, <2>1 DEF Claims
<1>9. ASSUME op[c].path # "full"
      PROVE  /\ op[c].old = rec /\ rec.first \in Int /\ rec.last \in Int
             /\ rec.afirst \in Int /\ rec.alast \in Int
             /\ rec.first <= rec.afirst /\ rec.alast <= rec.last
  BY <1>2, <1>9, WindowCovers, RecordsTyped DEF Backed
<1>10. CASE op[c].path = "heal"
  <2>1. file \subseteq rec.afirst..rec.alast
    BY <1>3, <1>9, <1>10 DEF Window
  <2>2. rec.afirst <= Min(file) /\ Max(file) <= rec.alast
    BY <1>6, <1>9, <1>10, <2>1
  <2>3. rec.first <= Min(file) /\ Max(file) <= rec.last
    BY <1>6, <1>9, <1>10, <2>2
  <2>4. FirstClaimed(op[c]) = Min({Min(file), rec.first})
        /\ LastClaimed(op[c]) = Max({Max(file), rec.last})
    BY <1>9, <1>10 DEF FirstClaimed, LastClaimed
  <2>5. rec.first <= x /\ x <= rec.last
    BY <1>4, <1>6, <1>9, <1>10, <2>3, <2>4, MinOfTwo, MaxOfTwo
  <2> QED
    BY <1>4, <1>8, <1>9, <1>10, <2>5
<1>11. CASE op[c].path = "merge"
  <2>1. PICK m, n : m = Min({rec.afirst, op[c].from}) /\ n = Max({rec.alast, op[c].to})
    OBVIOUS
  <2>2. m = (IF rec.afirst <= op[c].from THEN rec.afirst ELSE op[c].from)
        /\ n = (IF rec.alast <= op[c].to THEN op[c].to ELSE rec.alast)
    BY <1>4, <1>9, <1>11, <2>1, MinOfTwo, MaxOfTwo
  <2>3. file \subseteq m..n
    BY <1>3, <1>9, <1>11, <2>1 DEF Window
  <2>4. m \in Int /\ n \in Int
    BY <1>4, <1>9, <1>11, <2>2
  <2>5. m <= Min(file) /\ Max(file) <= n
    BY <1>6, <2>3, <2>4
  <2>6. FirstClaimed(op[c]) = Min({Min(file), op[c].from})
        /\ LastClaimed(op[c]) = Max({Max(file), op[c].to})
    BY <1>11 DEF FirstClaimed, LastClaimed
  <2>7. FirstClaimed(op[c]) = (IF Min(file) <= op[c].from THEN Min(file) ELSE op[c].from)
        /\ LastClaimed(op[c]) = (IF Max(file) <= op[c].to THEN op[c].to ELSE Max(file))
    BY <1>4, <1>6, <2>6, MinOfTwo, MaxOfTwo
  <2>8. Lacking(op[c]) \cap Provided \subseteq op[c].got \cup givenUp
    BY <1>2, <1>3, <1>11, MergeComplete
  <2>9. CASE x < rec.first
    <3>1. op[c].from <= x /\ op[c].from < rec.first
      BY <1>4, <1>6, <1>9, <1>11, <2>2, <2>5, <2>7, <2>9
    <3>2. x \in Lacking(op[c])
      BY <1>4, <1>9, <1>11, <2>9, <3>1 DEF Lacking
    <3> QED
      BY <1>3, <2>8, <3>2
  <2>10. CASE rec.last < x
    <3>1. x <= op[c].to /\ rec.last < op[c].to
      BY <1>4, <1>6, <1>9, <1>11, <2>2, <2>5, <2>7, <2>10
    <3>2. x \in Lacking(op[c])
      BY <1>4, <1>9, <1>11, <2>10, <3>1 DEF Lacking
    <3> QED
      BY <1>3, <2>8, <3>2
  <2>11. CASE rec.first <= x /\ x <= rec.last
    BY <1>4, <1>8, <1>9, <1>11, <2>11
  <2> QED
    BY <1>4, <1>9, <1>11, <2>9, <2>10, <2>11
<1> QED
  BY <1>4, <1>7, <1>10, <1>11 DEF Paths

LEMMA NextClaims ==
  ASSUME "merge" \notin PreemptedIn, CacheShape, InTurn, Backed, AllWrites, AllFetched, Claims,
         [CacheNext]_cacheVars
  PROVE  Claims'
<1>1. ASSUME FileKept, Counters PROVE Claims'
  BY <1>1 DEF FileKept, Counters, Claims
<1>2. ASSUME NEW c \in Calls, NoRows(c) PROVE Claims'
  BY <1>2, ClaimsWidened
<1>3. ASSUME NEW c \in Calls, Publish(c) PROVE Claims'
  <2>1. Written(c)
    BY <1>3, PublishWrites
  <2>2. CASE ~Recorded(rec)
    BY <2>1, <2>2 DEF Written, Claims
  <2>3. CASE Recorded(rec)
    BY <2>1, <2>3 DEF Written, Claims
  <2> QED
    BY <2>2, <2>3
<1>4. ASSUME NEW c \in Calls, Record(c) PROVE Claims'
  <2>1. /\ Describes(c) /\ op[c].pc = "record" /\ file' = file /\ givenUp' = givenUp \ file
    BY <1>4, RecordMoves
  <2>2. file \cap Extent(rec') = file
    BY <1>4, DescribedExtent
  <2>3. FirstClaimed(op[c]) \in Int /\ LastClaimed(op[c]) \in Int
    BY <2>1, ClaimedDays, CallTyped DEF CacheShape
  <2>4. ASSUME NEW x \in Provided, x \in rec'.first..rec'.last, x \notin givenUp'
        PROVE  x \in file
    <3>1. FirstClaimed(op[c]) <= x /\ x <= LastClaimed(op[c])
      BY <2>1, <2>3, <2>4 DEF Describes
    <3>2. CASE x \in givenUp
      BY <2>1, <2>4, <3>2
    <3>3. CASE x \notin givenUp
      BY <1>4, <3>1, <3>3, ClaimsRecorded
    <3> QED
      BY <3>2, <3>3
  <2> QED
    BY <2>1, <2>2, <2>4 DEF Claims
<1> QED
  BY <1>1, <1>2, <1>3, <1>4, StepKinds

ClaimInv == CacheShape /\ InTurn /\ Backed /\ AllWrites /\ AllFetched /\ Claims

LEMMA ClaimsAreTrue == CacheShape /\ Backed /\ Claims => RecordIsTrue
<1> SUFFICES ASSUME CacheShape, Backed, Claims PROVE RecordIsTrue
  OBVIOUS
<1>1. CacheTypeOK
  BY DEF CacheShape
<1>2. ClaimsHold
  BY DEF Claims, ClaimsHold
<1>3. ASSUME Recorded(rec)
      PROVE  /\ rec.count <= Cardinality(file)
             /\ Min(file) <= rec.afirst /\ rec.alast <= Max(file)
  <2>1. /\ rec.afirst \in file /\ rec.alast \in file /\ file \in SUBSET Days
        /\ rec.count <= Cardinality(file \cap Extent(rec))
    BY <1>1, <1>3 DEF Backed, CacheTypeOK
  <2>2. Min(file) <= rec.afirst /\ rec.alast <= Max(file)
    BY <2>1, MinOfDays, MaxOfDays
  <2>3. /\ Cardinality(file \cap Extent(rec)) <= Cardinality(file)
        /\ Cardinality(file \cap Extent(rec)) \in Nat /\ Cardinality(file) \in Nat
    BY <2>1, Counting
  <2>4. rec.count \in Nat
    BY RecordsTyped
  <2> QED
    BY <2>1, <2>2, <2>3, <2>4
<1> QED
  BY <1>1, <1>2, <1>3 DEF RecordIsTrue

\* What the record claims is in the file, for every calendar, provider and set of
\* callers: each day of the coverage that the provider has and that was not
\* skipped, wherever the process ended between the write of the file and that of
\* the record, and although full downloads and heals are preempted.
THEOREM RecordsAreTrue ==
  ASSUME "merge" \notin PreemptedIn
  PROVE  CacheSpec => []RecordIsTrue
<1>1. CacheInit => ClaimInv
  BY InitShape, InitTurn, InitBacked, InitWrites, InitFetched DEF ClaimInv
<1>2. ClaimInv /\ [CacheNext]_cacheVars => ClaimInv'
  BY NextShape, NextTurns, NextBacked, NextWrites, NextFetched, NextClaims DEF ClaimInv
<1>3. ClaimInv => RecordIsTrue
  BY ClaimsAreTrue DEF ClaimInv
<1> QED
  BY <1>1, <1>2, <1>3, PTL DEF CacheSpec

=============================================================================
