--------------------------- MODULE DownloadQueue ---------------------------
(***************************************************************************)
(* The data download queue of the desktop main process                     *)
(* (data-download-queue.ts): requests for market data, joined into one     *)
(* task when they ask for the same series, run under a concurrency limit   *)
(* in order of priority and age, cancelled, cleared, and restored from the *)
(* download_queue table after a restart.                                   *)
(*                                                                         *)
(* A download is the asynchronous call ensureData; here it only ends in    *)
(* one of the ways executeTask tells apart (DataCache models what it       *)
(* does).  A task ends in two ticks of the event loop: executeTask's       *)
(* finally block writes the row and answers the subscribers (Settle), and  *)
(* the callback attached by processNext frees the slot (Finally).  Between *)
(* the two only continuations of answered callers run, which may enqueue.  *)
(***************************************************************************)
EXTENDS Integers, FiniteSets

CONSTANTS
    Callers,            \* callerIds
    Awaiting,           \* those that pass resolve and reject
    Priority,           \* callerId -> CALLER_PRIORITY, as PRIORITY_RANK
    Keys,               \* coalescing keys: symbol, interval and provider
    MaxTasks,           \* bound: tasks created
    MaxReqs,            \* bound: promises handed out
    MaxRestarts,        \* bound: crashes and restarts
    MAX_CONCURRENT,
    MAX_TASK_RETRIES,
    ForceChoices,       \* values of forceDownload
    SameCallerTwice,    \* TRUE: a caller asks again before it is answered
    ClearAllUsed,       \* TRUE: data:cancelDownload and data:clearAll occur
    ShutdownUsed        \* TRUE: the shutdown method is called

ASSUME ConstantsAssumption ==
    /\ Callers # {} /\ Keys # {}
    /\ Awaiting \subseteq Callers
    /\ Priority \in [Callers -> 1..3]
    /\ MaxTasks \in Nat \ {0}
    /\ MaxReqs \in Nat \ {0}
    /\ MaxRestarts \in Nat
    /\ MAX_CONCURRENT \in Nat \ {0}
    /\ MAX_TASK_RETRIES \in Nat \ {0}
    /\ ForceChoices \subseteq BOOLEAN
    /\ {SameCallerTwice, ClearAllUsed, ShutdownUsed} \subseteq BOOLEAN

VARIABLES
    ntask,          \* taskCounter: tasks are numbered as created
    tasks,          \* keys of the tasks Map
    key, status, prio, subs, retry, signal,   \* fields of the tasks
    boost,          \* task -> levels its age adds to its priority
    exec,           \* task -> progress of its executeTask
    due,            \* finally callbacks of processNext that are due
    activeCount,
    shuttingDown,
    row,            \* the download_queue table
    nreq,           \* promises handed out
    answer,         \* promise -> what became of it
    restarts

fields == <<key, status, prio, subs, retry, signal>>
vars == <<ntask, tasks, fields, boost, exec, due, activeCount, shuttingDown,
          row, nreq, answer, restarts>>

Ids  == 1..MaxTasks
Reqs == 1..MaxReqs

Waitable == {"queued", "yielded"}
Live     == Waitable \cup {"downloading"}
Status   == Live \cup {"complete", "error", "none"}

\* abortController: null, live, or abort() called on it.
Signals == {"null", "live", "aborted"}

\* "running": the provider is asked chunk by chunk; "yielding": shouldYield()
\* was seen true and what there is gets written.
Executing == {"running", "yielding"}

\* A subscriber; req is 0 for a caller without resolve and reject.
Subs == [prio : 0..3, req : 0..MaxReqs]
NoSub == [prio |-> 0, req |-> 0]
NoSubs == [c \in Callers |-> NoSub]

Rows == [status : Status, prio : 1..3, by : Callers, retry : 0..MAX_TASK_RETRIES]
NoRow(r) == r.status = "none"
Gone == [status |-> "none", prio |-> 1, by |-> CHOOSE c \in Callers : TRUE,
         retry |-> 0]

Init ==
    /\ ntask = 0
    /\ tasks = {}
    /\ key = [t \in Ids |-> CHOOSE k \in Keys : TRUE]
    /\ status = [t \in Ids |-> "none"]
    /\ prio = [t \in Ids |-> 1]
    /\ subs = [t \in Ids |-> NoSubs]
    /\ retry = [t \in Ids |-> 0]
    /\ signal = [t \in Ids |-> "null"]
    /\ boost = [t \in Ids |-> 0]
    /\ exec = [t \in Ids |-> "none"]
    /\ due = 0
    /\ activeCount = 0
    /\ shuttingDown = FALSE
    /\ row = [t \in Ids |-> Gone]
    /\ nreq = 0
    /\ answer = [r \in Reqs |-> "none"]
    /\ restarts = 0

-----------------------------------------------------------------------------
(* Priorities.                                                             *)

AtMost3(n) == IF n > 3 THEN 3 ELSE n
\* getEffectivePriorityRank, of a task with effectivePriority p.
RankOf(p, t) == AtMost3(p + boost[t])

\* recalculateEffectivePriority, for the subscribers s: background at least.
Recalculated(s) ==
    CHOOSE p \in 1..3 :
      /\ \A c \in Callers : s[c].prio <= p
      /\ p = 1 \/ \E c \in Callers : s[c].prio = p

\* hasHigherPriorityPending: a task that yielded does not count.
HigherPending(t) ==
    \E u \in tasks \ {t} :
      status[u] = "queued" /\ RankOf(prio[u], u) > RankOf(prio[t], t)

\* A waiting task grows older by one AGING_THRESHOLD_MS; whoever has waited
\* longer has grown as much before.
Age(t) ==
    /\ t \in tasks
    /\ status[t] \in Live
    /\ boost[t] < 2
    /\ \A u \in tasks : u < t /\ status[u] \in Live => boost[u] > boost[t]
    /\ boost' = [boost EXCEPT ![t] = @ + 1]
    /\ UNCHANGED <<ntask, tasks, fields, exec, due, activeCount, shuttingDown,
                   row, nreq, answer, restarts>>

-----------------------------------------------------------------------------
(* dbUpdateStatus writes nothing once shuttingDown is set, and updates no   *)
(* row that has been deleted.                                               *)
Saved_Always(rows, t, st, p, n) ==
    IF NoRow(rows[t]) THEN rows
    ELSE [rows EXCEPT ![t].status = st, ![t].prio = p, ![t].retry = n]
Saved(rows, t, st, p, n) ==
    IF shuttingDown' \/ NoRow(rows[t]) THEN rows
    ELSE [rows EXCEPT ![t].status = st, ![t].prio = p, ![t].retry = n]

(* processNext: start ONE waiting task, of the highest rank, the oldest     *)
(* among equals.  Its callers set tasks', prio' and shuttingDown' before    *)
(* it; the arguments are the other values they have written: statuses,      *)
(* signals, executions, rows and the active count.  (retryCount has not     *)
(* changed since the row of a waiting task was written.)                    *)
Picked(W, ps) ==
    CHOOSE t \in W : \A u \in W \ {t} :
      \/ RankOf(ps[t], t) > RankOf(ps[u], u)
      \/ RankOf(ps[t], t) = RankOf(ps[u], u) /\ t < u

Full(active) == active >= MAX_CONCURRENT

ProcessNext(st, sig, ex, rows, active) ==
    LET W == {t \in tasks' : st[t] \in Waitable}
        t == Picked(W, prio')
    IN IF Full(active) \/ W = {}
       THEN /\ status' = st
            /\ signal' = sig
            /\ exec' = ex
            /\ row' = rows
            /\ activeCount' = active
       ELSE /\ status' = [st EXCEPT ![t] = "downloading"]
            /\ signal' = [sig EXCEPT ![t] = "live"]
            /\ exec' = [ex EXCEPT ![t] = "running"]
            /\ row' = Saved(rows, t, "downloading", prio'[t], rows[t].retry)
            /\ activeCount' = active + 1

-----------------------------------------------------------------------------
(* Requests.                                                               *)

\* findTaskByKey: the first live task of the series, in Map order.
Matching(k) == {t \in tasks : key[t] = k /\ status[t] \in Live}
First(S) == CHOOSE t \in S : \A u \in S : t <= u

\* notifySubscribers: the callers of t that still wait, and what each outcome
\* of the download tells them.
Told(t) == {r \in Reqs : answer[r] = "waiting" /\ \E c \in Callers : subs[t][c].req = r}
Answered(S, o) == [r \in Reqs |-> IF r \in S THEN o ELSE answer[r]]

Notified_NotOnError(t, st) ==
    IF st = "complete" THEN Answered(Told(t), "resolved") ELSE answer
Notified(t, st) == CASE st = "complete" -> Answered(Told(t), "resolved")
                     [] st = "error"    -> Answered(Told(t), "rejected")
                     [] st = "yielded"  -> answer

\* The promise a caller gets, 0 for a caller that passes no callbacks.
Promise(c) == IF c \in Awaiting THEN nreq + 1 ELSE 0
Ask(c) ==
    /\ Promise(c) <= MaxReqs
    /\ nreq' = IF c \in Awaiting THEN nreq + 1 ELSE nreq

\* enqueue, cache hit: the promise is resolved at once, no task is made.
CacheHit(c) ==
    /\ c \in Awaiting
    /\ Ask(c)
    /\ answer' = Answered({Promise(c)}, "resolved")
    /\ UNCHANGED <<ntask, tasks, fields, boost, exec, due, activeCount,
                   shuttingDown, row, restarts>>

\* enqueue, coalescing: the subscriber of the same callerId is replaced.
Joined_NoEscalation(t, c) ==
    LET s == [subs[t] EXCEPT ![c] = [prio |-> Priority[c], req |-> Promise(c)]]
    IN subs' = [subs EXCEPT ![t] = s] /\ prio' = prio
Joined(t, c) ==
    LET s == [subs[t] EXCEPT ![c] = [prio |-> Priority[c], req |-> Promise(c)]]
    IN subs' = [subs EXCEPT ![t] = s] /\ prio' = [prio EXCEPT ![t] = Recalculated(s)]

Coalesce(k, c) ==
    /\ Joined(First(Matching(k)), c)
    /\ UNCHANGED <<ntask, tasks, key, status, retry, signal, exec, activeCount, row>>

\* enqueue, new task: dbInsert, tasks.set, processNext.
NewTask(k, c) ==
    LET t == ntask + 1
        st == [status EXCEPT ![t] = "queued"]
        new == [status |-> "queued", prio |-> Priority[c], by |-> c, retry |-> 0]
    IN /\ ntask < MaxTasks
       /\ ntask' = t
       /\ tasks' = tasks \cup {t}
       /\ key' = [key EXCEPT ![t] = k]
       /\ prio' = [prio EXCEPT ![t] = Priority[c]]
       /\ subs' = [subs EXCEPT ![t][c] = [prio |-> Priority[c], req |-> Promise(c)]]
       /\ ProcessNext(st, signal, exec, [row EXCEPT ![t] = new], activeCount)
       /\ UNCHANGED retry

Joins_QueuedOnly(k, force) == ~force /\ \E t \in Matching(k) : status[t] = "queued"
Joins(k, force) == ~force /\ Matching(k) # {}

Enqueue(c, k, force) ==
    /\ \/ SameCallerTwice
       \/ \A t \in Ids : key[t] = k => subs[t][c].req \notin Told(t)
    /\ Ask(c)
    /\ answer' = IF c \in Awaiting THEN Answered({nreq + 1}, "waiting") ELSE answer
    /\ UNCHANGED <<boost, due, shuttingDown, restarts>>
    /\ IF Joins(k, force) THEN Coalesce(k, c) ELSE NewTask(k, c)

-----------------------------------------------------------------------------
(* Cancelling.  These are calls of the renderer: they find no microtask due. *)

Quiet == due = 0

\* dbDelete
Deleted_Not(t) == row
Deleted(t) == [row EXCEPT ![t] = Gone]

\* cancel, the last subscriber or no subscriberId given.
CancelTask(t) ==
    /\ answer' = Answered(Told(t), "rejected")
    /\ IF status[t] = "downloading" /\ signal[t] # "null"
       THEN /\ signal' = [signal EXCEPT ![t] = "aborted"]
            /\ UNCHANGED <<tasks, boost, row>>
       ELSE /\ tasks' = tasks \ {t}
            /\ boost' = [boost EXCEPT ![t] = 0]
            /\ row' = Deleted(t)
            /\ UNCHANGED signal
    /\ UNCHANGED <<subs, prio>>

\* cancel with a subscriberId while others subscribe too.
Leave(t, c) ==
    LET s == [subs[t] EXCEPT ![c] = NoSub]
    IN /\ answer' = Answered({subs[t][c].req} \cap Told(t), "rejected")
       /\ subs' = [subs EXCEPT ![t] = s]
       /\ prio' = [prio EXCEPT ![t] = Recalculated(s)]
       /\ UNCHANGED <<tasks, signal, boost, row>>

Cancel(t) ==
    /\ Quiet
    /\ t \in tasks
    /\ \/ CancelTask(t)
       \/ \E c \in Callers :
            IF Cardinality({d \in Callers : subs[t][d] # NoSub}) > 1
            THEN Leave(t, c) ELSE CancelTask(t)
    /\ UNCHANGED <<ntask, key, status, retry, exec, due, activeCount,
                   shuttingDown, nreq, restarts>>

\* clearAll: abort what has a controller, purge the table and the Map.
ClearAll ==
    /\ ClearAllUsed
    /\ Quiet
    /\ tasks # {}
    /\ signal' = [t \in Ids |-> IF t \in tasks /\ signal[t] = "live"
                                THEN "aborted" ELSE signal[t]]
    /\ row' = [t \in Ids |-> Gone]
    /\ tasks' = {}
    /\ activeCount' = 0
    /\ UNCHANGED <<ntask, key, status, prio, subs, retry, boost, exec, due,
                   shuttingDown, nreq, answer, restarts>>

\* shutdown: abort what is downloading; rows are left for the next start.
Shutdown ==
    /\ ShutdownUsed
    /\ ~shuttingDown
    /\ Quiet
    /\ signal' = [t \in Ids |-> IF t \in tasks /\ signal[t] = "live"
                                THEN "aborted" ELSE signal[t]]
    /\ shuttingDown' = TRUE
    /\ UNCHANGED <<ntask, tasks, key, status, prio, subs, retry, boost, exec,
                   due, activeCount, row, nreq, answer, restarts>>

-----------------------------------------------------------------------------
(* A download and its end.                                                 *)

\* The check after a chunk: shouldYield() is true, the fetch stops here.
ShouldYield(t) ==
    /\ exec[t] = "running"
    /\ HigherPending(t)
    /\ exec' = [exec EXCEPT ![t] = "yielding"]
    /\ UNCHANGED <<ntask, tasks, fields, boost, due, activeCount, shuttingDown,
                   row, nreq, answer, restarts>>

\* executeTask up to the end of its finally block, with the outcome st.
\* The signal is looked at before a chunk and by the file writer only, so a
\* download that was aborted may still end in any way; and ensureData asks
\* shouldYield() once more at its end, so one that stopped early may complete.
Settle(t, st) ==
    LET n == IF st = "error" THEN retry[t] + 1 ELSE retry[t]
    IN /\ \/ st = "error" /\ exec[t] \in Executing
          \/ st = "yielded" /\ exec[t] = "yielding"
          \/ st = "complete" /\ exec[t] = "running"
          \/ st = "complete" /\ exec[t] = "yielding" /\ ~HigherPending(t)
       /\ UNCHANGED <<ntask, tasks, key, prio, subs, activeCount,
                      shuttingDown, nreq, restarts>>
       /\ exec' = [exec EXCEPT ![t] = "none"]
       /\ due' = due + 1
       /\ status' = [status EXCEPT ![t] = st]
       /\ boost' = [boost EXCEPT ![t] = IF st = "yielded" THEN @ ELSE 0]
       /\ retry' = [retry EXCEPT ![t] = n]
       /\ signal' = [signal EXCEPT ![t] = "null"]
       /\ row' = Saved(row, t, st, prio[t], n)
       /\ answer' = Notified(t, st)

\* The finally callback of processNext, whichever task it was attached to.
Finally_NoNext ==
    /\ due > 0
    /\ due' = due - 1
    /\ activeCount' = activeCount - 1
    /\ UNCHANGED <<ntask, tasks, fields, boost, exec, shuttingDown, row, nreq,
                   answer, restarts>>
Finally ==
    /\ due > 0
    /\ due' = due - 1
    /\ UNCHANGED <<ntask, tasks, key, prio, subs, retry, boost, shuttingDown,
                   nreq, answer, restarts>>
    /\ ProcessNext(status, signal, exec, row, activeCount - 1)

-----------------------------------------------------------------------------
(* The process ends, by a crash or not, and starts again.                   *)

\* restoreAndResume on one row: F1 purges what has ended, the rows in old are
\* past the time limit of their status (F2, F4), an interrupted download is
\* queued once more and counted, and F3 drops what was counted too often.
Restored(r, old) ==
    LET n == IF r.status = "queued" THEN r.retry ELSE r.retry + 1
    IN IF r.status \notin Live \/ old \/ n >= MAX_TASK_RETRIES THEN Gone
       ELSE [r EXCEPT !.status = "queued", !.retry = n]

Restart(old) ==
    LET rows == [t \in Ids |-> Restored(row[t], t \in old)]
        kept == {t \in Ids : ~NoRow(rows[t])}
    IN /\ restarts < MaxRestarts
       /\ restarts' = restarts + 1
       /\ shuttingDown' = FALSE
       /\ answer' = Answered({r \in Reqs : answer[r] = "waiting"}, "lost")
       /\ tasks' = kept
       /\ prio' = [t \in Ids |-> rows[t].prio]
       /\ subs' = [t \in Ids |-> IF t \in kept
              THEN [NoSubs EXCEPT ![rows[t].by] = [prio |-> rows[t].prio, req |-> 0]]
              ELSE NoSubs]
       /\ retry' = [t \in Ids |-> rows[t].retry]
       /\ due' = 0
       /\ boost' = [t \in Ids |-> IF t \in kept THEN boost[t] ELSE 0]
       /\ ProcessNext([t \in Ids |-> rows[t].status], [t \in Ids |-> "null"],
                      [t \in Ids |-> "none"], rows, 0)
       /\ UNCHANGED <<ntask, key, nreq>>

-----------------------------------------------------------------------------
Next ==
    \/ \E c \in Callers : CacheHit(c)
    \/ \E c \in Callers, k \in Keys, force \in ForceChoices : Enqueue(c, k, force)
    \/ \E t \in Ids : Cancel(t) \/ Age(t) \/ ShouldYield(t)
    \/ \E t \in Ids, st \in {"complete", "yielded", "error"} : Settle(t, st)
    \/ Finally
    \/ ClearAll
    \/ Shutdown
    \/ \E old \in SUBSET Ids : Restart(old)

\* A provider answers or fails, and the event loop runs what is due.
Fairness ==
    /\ \A t \in Ids : WF_vars(\E st \in {"complete", "yielded", "error"} : Settle(t, st))
    /\ WF_vars(Finally)

Spec == Init /\ [][Next]_vars /\ Fairness

-----------------------------------------------------------------------------
TypeOK ==
    /\ ntask \in 0..MaxTasks
    /\ tasks \subseteq Ids
    /\ key \in [Ids -> Keys]
    /\ status \in [Ids -> Status]
    /\ prio \in [Ids -> 1..3]
    /\ subs \in [Ids -> [Callers -> Subs]]
    /\ retry \in [Ids -> 0..MAX_TASK_RETRIES]
    /\ signal \in [Ids -> Signals]
    /\ boost \in [Ids -> 0..2]
    /\ exec \in [Ids -> Executing \cup {"none"}]
    /\ due \in Nat
    /\ activeCount \in Int
    /\ shuttingDown \in BOOLEAN
    /\ row \in [Ids -> Rows]
    /\ nreq \in 0..MaxReqs
    /\ answer \in [Reqs -> {"none", "waiting", "resolved", "rejected", "lost"}]
    /\ restarts \in 0..MaxRestarts

Downloading == {t \in Ids : exec[t] \in Executing}

\* Requests that do not force a download share one task per series, and a caller
\* that still waits for its promise is among the subscribers of a task that is
\* going to answer it.
OneTaskPerSeries ==
    /\ \A k \in Keys : Cardinality(Matching(k)) <= 1
    /\ \A r \in Reqs : answer[r] = "waiting" =>
         \E t \in Ids, c \in Callers :
           /\ subs[t][c].req = r
           /\ (t \in tasks /\ status[t] \in Live) \/ t \in Downloading

\* The queue is a pool of slots: a download is started into a free slot only, none
\* is left waiting beside one, and none that ended or was cancelled runs again.
Waiting == {t \in tasks : status[t] \in Waitable}
Pool == INSTANCE SlotPool WITH
    Jobs <- Ids,
    waiting <- Waiting,
    running <- Downloading,
    retiring <- due,
    ended <- (1..ntask) \ (Waiting \cup Downloading),
    limit <- MAX_CONCURRENT
ImplementsPool == Pool!Spec

\* What is started is what its subscribers, and the time it has waited, rank
\* highest: the cached effectivePriority is never out of date.
TrueRank(t) == RankOf(Recalculated(subs[t]), t)
HighestStartsFirst ==
    [][\A t \in Ids : exec[t] = "none" /\ exec'[t] = "running" =>
         \A u \in tasks' : status'[u] \in Waitable => TrueRank(u)' <= TrueRank(t)']_vars

\* A task is in the table exactly while it is in the Map, with its status and
\* retry count: a restart restores what was there and nothing that was
\* cancelled or cleared.
RowsMatchTasks ==
    ~shuttingDown =>
      \A t \in Ids :
        /\ ~NoRow(row[t]) <=> t \in tasks
        /\ t \in tasks => row[t].status = status[t] /\ row[t].retry = retry[t]

\* The table and the Map agree, and a task whose download was interrupted by
\* MAX_TASK_RETRIES restarts is not downloaded again.
RestoresWhatWas ==
    /\ TypeOK
    /\ RowsMatchTasks
    /\ \A t \in tasks : status[t] \in Live => retry[t] < MAX_TASK_RETRIES

\* After shutdown the row of an aborted download keeps its status, so that
\* the next start resumes it.
ShutdownKeepsRows ==
    [][shuttingDown /\ shuttingDown' =>
         \A t \in Ids : row[t].status = "downloading" =>
           row'[t].status \in {"downloading", "none"}]_vars

\* Every caller is answered in the end.
EveryCallerAnswered ==
    \A r \in Reqs : answer[r] = "waiting" ~> answer[r] # "waiting"
=============================================================================
