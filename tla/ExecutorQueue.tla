--------------------------- MODULE ExecutorQueue ---------------------------
(***************************************************************************)
(* The backtest queue of the desktop main process                          *)
(* (executor-queue-service.ts) together with the part of the executor      *)
(* service it drives (executor-service.ts) and the API calls that reach it *)
(* (api/backtest-api.ts).                                                  *)
(*                                                                         *)
(* The code runs on one JavaScript event loop.  A macrotask (an IPC call,  *)
(* a child-process event, a timer) runs to its end, then the microtasks it *)
(* queued run in order, and only then does the next macrotask start.  The  *)
(* model keeps that order: emit holds the listeners the current emitter    *)
(* call has still to invoke, jobs the microtasks due, and every macrotask  *)
(* waits for both to be empty (Idle).                                      *)
(*                                                                         *)
(* A QueuedTask is an object that closures keep alive after the Map entry  *)
(* of its id was overwritten or deleted, so objects are numbered in order  *)
(* of creation and the Map holds numbers.                                  *)
(***************************************************************************)
EXTENDS Integers, FiniteSets, Sequences

CONSTANTS
    TaskIds,             \* backtest ids
    NoTask,              \* no id
    MaxObjs,             \* bound: QueuedTask objects created in a behaviour
    MAX_QUEUE_DEPTH,     \* 100 in shared/constants/hardware.ts
    Limits,              \* values performance.maxBacktestTasks takes
    CancelAllAtRunTime,  \* TRUE: the "cancel all" API is in use
    ResumeUnsettled,     \* TRUE: resume is called while an older run lingers
    RunnerMissing        \* TRUE: executeTask may throw before its first await

ASSUME ConstantsAssumption ==
    /\ NoTask \notin TaskIds
    /\ MaxObjs \in Nat \ {0}
    /\ MAX_QUEUE_DEPTH \in Nat \ {0}
    /\ Limits \subseteq Nat
    /\ Limits # {}
    /\ CancelAllAtRunTime \in BOOLEAN
    /\ ResumeUnsettled \in BOOLEAN
    /\ RunnerMissing \in BOOLEAN

VARIABLES
    nobj,           \* objects created so far
    qtask,          \* object -> its taskId
    qstat,          \* object -> QueuedTask.status
    tasks,          \* the Map: taskId -> object, 0 when absent
    pos,            \* taskId -> position of its key in the Map
    activeCount,
    maxConcurrent,
    retain,         \* objects whose retention timer is running
    listening,      \* objects with executorTaskId set and listeners attached
    emit,           \* the emitter call in progress
    jobs,           \* microtasks due, in order
    xstat           \* object -> state of the executor task started for it

vars == <<nobj, qtask, qstat, tasks, pos, activeCount, maxConcurrent,
          retain, listening, emit, jobs, xstat>>

Objs     == 1..MaxObjs
Pending  == {"preparing", "queued", "running"}
Terminal == {"completed", "failed", "cancelled"}

\* "dropped": the object was replaced in the Map and nothing refers to it.
QStatus == Pending \cup Terminal \cup {"none", "dropped"}

\* "pending": executeTask awaits the access token; "stopping": SIGTERM sent;
\* "aborted": no process ever ran; "exited": the process is gone.
XStatus == {"none", "pending", "running", "stopping", "exited", "aborted"}

\* "attach": runTask resumes after runBacktest and attaches its listeners.
\* "early": the same, but executeTask has already rejected and the handler
\*   of that rejection runs first.
\* "reject", "catch": the two ticks from reject() to the handler.
JobKinds == {"attach", "early", "reject", "catch"}
Job(k, o) == [kind |-> k, obj |-> o]

\* An emitter call with the listeners still to call; rej is the object whose
\* promise is rejected right after the call, 0 when none is.
Emitting(who, st, rej) ==
    [who |-> who, st |-> IF who = {} THEN "failed" ELSE st, rej |-> rej]
Silent == Emitting({}, "failed", 0)

Running == {o \in Objs : qstat[o] = "running"}
\* Objects behind which a runner process is being launched or is alive.
Live == {o \in Objs : xstat[o] \in {"pending", "running", "stopping"}}
InMap == {tasks[t] : t \in TaskIds} \ {0}
EntryStatus(t) == IF tasks[t] = 0 THEN "absent" ELSE qstat[tasks[t]]
PendingTasks == {t \in TaskIds : EntryStatus(t) \in Pending}

HasRoom == Cardinality(PendingTasks) < MAX_QUEUE_DEPTH

Idle == emit = Silent /\ jobs = <<>>

AtLeastOne(l) == IF l > 1 THEN l ELSE 1

Init ==
    /\ nobj = 0
    /\ qtask = [o \in Objs |-> NoTask]
    /\ qstat = [o \in Objs |-> "none"]
    /\ tasks = [t \in TaskIds |-> 0]
    /\ pos = [t \in TaskIds |-> 0]
    /\ activeCount = 0
    /\ maxConcurrent \in {AtLeastOne(l) : l \in Limits}
    /\ retain = {}
    /\ listening = {}
    /\ emit = Silent
    /\ jobs = <<>>
    /\ xstat = [o \in Objs |-> "none"]

-----------------------------------------------------------------------------
(* processNext: start the first queued tasks of the Map, in its order, while *)
(* activeCount is below the limit.  The arguments are the values its caller  *)
(* has already written: the Map ts with key positions ps, statuses qs,       *)
(* active tasks, the limit and the microtasks js.                            *)

Queued(ts, qs) == {t \in TaskIds : ts[t] # 0 /\ qs[ts[t]] = "queued"}

Picked(ts, ps, qs, free) ==
    LET W == Queued(ts, qs)
    IN {ts[t] : t \in {u \in W : Cardinality({v \in W : ps[v] < ps[u]}) < free}}

ProcessNext(ts, ps, qs, active, limit, js) ==
    LET S == Picked(ts, ps, qs, limit - active)
        N == Cardinality(S)
        Rank(o) == ps[CHOOSE t \in TaskIds : ts[t] = o]
    IN /\ tasks' = ts
       /\ pos' = ps
       /\ qstat' = [o \in Objs |-> IF o \in S THEN "running" ELSE qs[o]]
       /\ activeCount' = active + N
       /\ \E order \in [1..N -> S], thrown \in SUBSET S :
            /\ \A i, j \in 1..N : i < j => Rank(order[i]) < Rank(order[j])
            /\ thrown # {} => RunnerMissing
            /\ xstat' = [o \in Objs |-> IF o \in thrown THEN "aborted"
                                        ELSE IF o \in S THEN "pending"
                                        ELSE xstat[o]]
            /\ jobs' = js \o [i \in 1..N |->
                 Job(IF order[i] \in thrown THEN "early" ELSE "attach", order[i])]

-----------------------------------------------------------------------------
(* Calls that reach the queue.                                             *)

NewPos(t, n) == IF tasks[t] = 0 THEN [pos EXCEPT ![t] = n] ELSE pos

RegisterPreparing(t) ==
    LET n == nobj + 1 IN
    /\ Idle
    /\ nobj < MaxObjs
    /\ \A o \in 1..nobj : qtask[o] # t          \* ids are fresh UUIDs
    /\ HasRoom
    /\ nobj' = n
    /\ qtask' = [qtask EXCEPT ![n] = t]
    /\ qstat' = [qstat EXCEPT ![n] = "preparing"]
    /\ tasks' = [tasks EXCEPT ![t] = n]
    /\ pos' = NewPos(t, n)
    /\ UNCHANGED <<activeCount, maxConcurrent, retain, listening, emit, jobs,
                   xstat>>

Refused_Never(t) == FALSE
Refused(t) == EntryStatus(t) = "cancelled"

\* enqueue(config): a task object of its own, stored over whatever the Map
\* holds for the id; refused when that is cancelled, and when the queue is
\* full, which is only asked about ids the Map does not hold.
enqueue(t) ==
    LET n == nobj + 1 IN
    /\ nobj < MaxObjs
    /\ ~Refused(t)
    /\ tasks[t] = 0 => HasRoom
    /\ nobj' = n
    /\ qtask' = [qtask EXCEPT ![n] = t]
    /\ ProcessNext([tasks EXCEPT ![t] = n],
                   NewPos(t, n),
                   [o \in Objs |->
                      IF o = n THEN "queued"
                      ELSE IF qtask[o] = t /\ qstat[o] \in {"preparing", "queued"}
                      THEN "dropped"
                      ELSE qstat[o]],
                   activeCount, maxConcurrent, jobs)
    /\ UNCHANGED <<maxConcurrent, retain, listening, emit>>

\* The caller that registered t goes on to enqueue it, once.
EnqueuePrepared(t) ==
    /\ Idle
    /\ Cardinality({o \in Objs : qtask[o] = t}) = 1
    /\ enqueue(t)

\* A checkpoint outlives its run unless the run completed.
HasCheckpoint(t) ==
    /\ \E o \in Objs : qtask[o] = t /\ xstat[o] \in {"running", "stopping", "exited"}
    /\ \A o \in Objs : qtask[o] = t => qstat[o] # "completed"

Settled(t) ==
    /\ tasks[t] = 0
    /\ \A o \in Objs : qtask[o] = t => o \notin retain /\ qstat[o] \notin Pending

Resume(t) ==
    /\ Idle
    /\ HasCheckpoint(t)
    /\ ResumeUnsettled \/ Settled(t)
    /\ enqueue(t)

\* ExecutorService.cancelTask(t): SIGTERM to the process of the last executor
\* task registered under t, if it is running.
XTasks(t) == {o \in Objs : qtask[o] = t /\ xstat[o] # "none"}
Signalled(t) == {o \in XTasks(t) : xstat[o] \in {"running", "stopping"}
                                   /\ \A p \in XTasks(t) : p <= o}
Signal(ts) == [o \in Objs |-> IF \E t \in ts : o \in Signalled(t)
                              THEN "stopping" ELSE xstat[o]]

CancelPreparing(t) ==
    /\ Idle
    /\ EntryStatus(t) = "preparing"
    /\ qstat' = [qstat EXCEPT ![tasks[t]] = "cancelled"]
    /\ UNCHANGED <<nobj, qtask, tasks, pos, activeCount, maxConcurrent, retain,
                   listening, emit, jobs, xstat>>

CancelQueued_StatusKept(t) ==
    /\ Idle
    /\ EntryStatus(t) = "queued"
    /\ tasks' = [tasks EXCEPT ![t] = 0]
    /\ pos' = [pos EXCEPT ![t] = 0]
    /\ UNCHANGED <<nobj, qtask, qstat, activeCount, maxConcurrent, retain,
                   listening, emit, jobs, xstat>>
CancelQueued(t) ==
    /\ Idle
    /\ EntryStatus(t) = "queued"
    /\ qstat' = [qstat EXCEPT ![tasks[t]] = "cancelled"]
    /\ tasks' = [tasks EXCEPT ![t] = 0]
    /\ pos' = [pos EXCEPT ![t] = 0]
    /\ UNCHANGED <<nobj, qtask, activeCount, maxConcurrent, retain, listening,
                   emit, jobs, xstat>>

\* cancelBacktest on an id that is running, or that the queue does not know:
\* either way the call ends in cancelTask.
CancelRunning(t) ==
    /\ Idle
    /\ EntryStatus(t) \in {"absent", "running"}
    /\ xstat' = Signal({t})
    /\ UNCHANGED <<nobj, qtask, qstat, tasks, pos, activeCount, maxConcurrent,
                   retain, listening, emit, jobs>>

CancelAll ==
    /\ CancelAllAtRunTime
    /\ Idle
    /\ qstat' = [o \in Objs |-> IF o \in InMap /\ qstat[o] = "queued"
                                THEN "cancelled" ELSE qstat[o]]
    /\ xstat' = Signal({t \in TaskIds : tasks[t] \in Running \cap listening})
    /\ tasks' = [t \in TaskIds |-> 0]
    /\ pos' = [t \in TaskIds |-> 0]
    /\ activeCount' = 0
    /\ UNCHANGED <<nobj, qtask, maxConcurrent, retain, listening, emit, jobs>>

SetMaxConcurrent_NoStart(l) ==
    /\ Idle
    /\ maxConcurrent' = AtLeastOne(l)
    /\ UNCHANGED <<nobj, qtask, qstat, tasks, pos, activeCount, retain,
                   listening, emit, jobs, xstat>>
\* A change of performance.maxBacktestTasks; raising it starts waiting tasks.
SetMaxConcurrent(l) ==
    /\ Idle
    /\ maxConcurrent' = AtLeastOne(l)
    /\ ProcessNext(tasks, pos, qstat, activeCount, AtLeastOne(l), jobs)
    /\ UNCHANGED <<nobj, qtask, retain, listening, emit>>

\* FINISHED_TASK_RETENTION_MS after o finished.
RetentionTimer(o) ==
    /\ Idle
    /\ o \in retain
    /\ retain' = retain \ {o}
    /\ tasks' = [tasks EXCEPT ![qtask[o]] = 0]
    /\ pos' = [pos EXCEPT ![qtask[o]] = 0]
    /\ UNCHANGED <<nobj, qtask, qstat, activeCount, maxConcurrent, listening,
                   emit, jobs, xstat>>

-----------------------------------------------------------------------------
(* The executor service.                                                   *)

\* emit(event, t): the listeners registered for t are called one after the
\* other, and each detaches itself.
Emit(t, st, rej) ==
    LET who == {o \in listening : qtask[o] = t}
    IN /\ emit' = Emitting(who, st, rej)
       /\ listening' = listening \ who

\* executeTask goes on after its await: the process is spawned.
SpawnRunner(o) ==
    /\ Idle
    /\ xstat[o] = "pending"
    /\ xstat' = [xstat EXCEPT ![o] = "running"]
    /\ UNCHANGED <<nobj, qtask, qstat, tasks, pos, activeCount, maxConcurrent,
                   retain, listening, emit, jobs>>

\* Writing the config file or spawning fails: no process, and executeTask
\* rejects.  A spawn failure is reported after the call, by an 'error' event.
SpawnFails_Silently(o) ==
    /\ Idle
    /\ xstat[o] \in {"pending", "running", "stopping"}
    /\ xstat' = [xstat EXCEPT ![o] = "aborted"]
    /\ UNCHANGED <<nobj, qtask, qstat, tasks, pos, activeCount, maxConcurrent,
                   retain, listening, emit, jobs>>
SpawnFails(o) ==
    /\ Idle
    /\ xstat[o] \in {"pending", "running", "stopping"}
    /\ xstat' = [xstat EXCEPT ![o] = "aborted"]
    /\ jobs' = <<Job("catch", o)>>
    /\ UNCHANGED <<nobj, qtask, qstat, tasks, pos, activeCount, maxConcurrent,
                   retain, listening, emit>>

\* The 'exit' event of the runner: a result, an error (non-zero code, no
\* usable result, success = false) or the end by SIGTERM.
RunnerExit(o, st) ==
    /\ Idle
    /\ xstat[o] \in {"running", "stopping"}
    /\ st = "cancelled" => xstat[o] = "stopping"
    /\ xstat' = [xstat EXCEPT ![o] = "exited"]
    /\ Emit(qtask[o], st, IF st = "failed" THEN o ELSE 0)
    /\ UNCHANGED <<nobj, qtask, qstat, tasks, pos, activeCount, maxConcurrent,
                   retain, jobs>>

-----------------------------------------------------------------------------
(* What runs before the next macrotask.                                    *)

Freed_Kept == activeCount
Freed == IF activeCount > 0 THEN activeCount - 1 ELSE 0

\* onCompleted / onFailed / onCancelled, then onTaskFinished.
Listener ==
    \E o \in emit.who :
      /\ \A p \in emit.who : o <= p
      /\ emit' = Emitting(emit.who \ {o}, emit.st, emit.rej)
      /\ retain' = retain \cup {o}
      /\ ProcessNext(tasks, pos, [qstat EXCEPT ![o] = emit.st],
                     Freed, maxConcurrent, jobs)
      /\ UNCHANGED <<nobj, qtask, maxConcurrent, listening>>

\* emit returned, and the exit handler calls reject().
EmitReturns ==
    /\ emit.who = {}
    /\ emit.rej # 0
    /\ emit' = Silent
    /\ jobs' = Append(jobs, Job("reject", emit.rej))
    /\ UNCHANGED <<nobj, qtask, qstat, tasks, pos, activeCount, maxConcurrent,
                   retain, listening, xstat>>

RunJob(k) ==
    /\ emit = Silent
    /\ jobs # <<>>
    /\ Head(jobs).kind = k
    /\ UNCHANGED <<nobj, qtask, qstat, tasks, pos, activeCount, maxConcurrent,
                   retain, xstat>>

Attach ==
    /\ RunJob("attach")
    /\ listening' = listening \cup {Head(jobs).obj}
    /\ jobs' = Tail(jobs)
    /\ UNCHANGED emit

\* The handler in runBacktest emits task:failed before anyone listens for it.
CatchEarly ==
    /\ RunJob("early")
    /\ Emit(qtask[Head(jobs).obj], "failed", 0)
    /\ jobs' = <<Job("attach", Head(jobs).obj)>> \o Tail(jobs)

Reject ==
    /\ RunJob("reject")
    /\ jobs' = Append(Tail(jobs), Job("catch", Head(jobs).obj))
    /\ UNCHANGED <<listening, emit>>

Catch ==
    /\ RunJob("catch")
    /\ Emit(qtask[Head(jobs).obj], "failed", 0)
    /\ jobs' = Tail(jobs)

-----------------------------------------------------------------------------
Request(t) ==
    \/ RegisterPreparing(t)
    \/ EnqueuePrepared(t)
    \/ Resume(t)
    \/ CancelPreparing(t)
    \/ CancelQueued(t)
    \/ CancelRunning(t)

EventLoop == Listener \/ EmitReturns \/ Attach \/ CatchEarly \/ Reject \/ Catch

Next ==
    \/ \E t \in TaskIds : Request(t)
    \/ CancelAll
    \/ \E l \in Limits : SetMaxConcurrent(l)
    \/ \E o \in Objs : RetentionTimer(o) \/ SpawnRunner(o) \/ SpawnFails(o)
    \/ \E o \in Objs, st \in Terminal : RunnerExit(o, st)
    \/ EventLoop

\* The event loop runs what is due, a timer fires, the access token arrives
\* or its request fails, and a runner ends.
Fairness ==
    /\ WF_vars(EventLoop)
    /\ \A o \in Objs :
         /\ WF_vars(RetentionTimer(o))
         /\ WF_vars(SpawnRunner(o) \/ SpawnFails(o))
         /\ WF_vars(\E st \in Terminal : RunnerExit(o, st))

Spec == Init /\ [][Next]_vars /\ Fairness

-----------------------------------------------------------------------------
TypeOK ==
    /\ nobj \in 0..MaxObjs
    /\ qtask \in [Objs -> TaskIds \cup {NoTask}]
    /\ qstat \in [Objs -> QStatus]
    /\ tasks \in [TaskIds -> 0..MaxObjs]
    /\ pos \in [TaskIds -> 0..MaxObjs]
    /\ activeCount \in Nat
    /\ maxConcurrent \in Nat \ {0}
    /\ retain \subseteq Objs
    /\ listening \subseteq Objs
    /\ emit \in [who : SUBSET Objs, st : Terminal, rej : 0..MaxObjs]
    /\ jobs \in Seq([kind : JobKinds, obj : Objs])
    /\ xstat \in [Objs -> XStatus]

Attaches(job) == job.kind \in {"attach", "early"}

AttachesRunning(js, running, heard) ==
    \A i \in 1..Len(js) : Attaches(js[i]) => js[i].obj \in running \ heard

AttachesOnce(js) ==
    \A i, j \in 1..Len(js) :
      Attaches(js[i]) /\ Attaches(js[j]) /\ js[i].obj = js[j].obj => i = j

\* onTaskFinished is called once for every start: activeCount is the number
\* of tasks the queue has running.  A "cancel all" resets it early, and even
\* then it never counts a task too many (which would block a slot for good).
SlotAccounting ==
    IF CancelAllAtRunTime THEN activeCount <= Cardinality(Running)
                          ELSE activeCount = Cardinality(Running)

\* The inductive form of SlotAccounting: a running task is waited for by at most
\* one of its attached listeners, a listener about to be called, and one
\* microtask that will attach it.
SlotInv ==
    /\ \A o \in Objs : o > nobj => qstat[o] = "none"
    /\ emit.who \subseteq Running
    /\ listening \subseteq Running
    /\ emit.who \cap listening = {}
    /\ AttachesRunning(jobs, Running, emit.who \cup listening)
    /\ AttachesOnce(jobs)
    /\ SlotAccounting

\* Whatever calls are made, and in any order: the types and the slots.
SlotsCounted == TypeOK /\ SlotAccounting

\* The slots taken, the tasks shown as running and the runners agree.  Between
\* two macrotasks the tasks shown as running are exactly those with a
\* runner behind them: none waits for an event that will not come, and no
\* process is left that the queue takes for finished.  At any time a runner
\* whose task is no longer in the Map has been told to stop.
QueueKnowsRunners ==
    /\ SlotAccounting
    /\ Idle => Running = Live
    /\ \A o \in Live : o \notin InMap => xstat[o] = "stopping"

\* A task cancelled while it was prepared is not run by the enqueue that
\* follows.
CancelledInPreparationNeverRuns ==
    \A o, p \in Objs :
      /\ qstat[o] = "cancelled"
      /\ qtask[p] = qtask[o]
      /\ \A r \in Objs : qtask[r] = qtask[o] => o <= r
      => xstat[p] = "none"

\* The queue is a pool of slots, for its tasks in the Map and their limit: a step
\* starts a task into a free slot only, and leaves none waiting beside one.
Pool == INSTANCE SlotPool WITH
    Jobs <- Objs,
    waiting <- {o \in Objs : qstat[o] = "queued"},
    running <- Running,
    retiring <- 0,
    ended <- {o \in Objs : qstat[o] \in Terminal \cup {"dropped"}},
    limit <- maxConcurrent
ImplementsPool == Pool!Spec

\* A queued task leaves the Map by starting or by a cancel, by nothing else.
QueuedLeavesProperly ==
    [][\A t \in TaskIds : EntryStatus(t) = "queued" =>
         \/ tasks'[t] = tasks[t] /\ qstat'[tasks[t]] \in {"queued", "running"}
         \/ qstat'[tasks[t]] = "cancelled"]_vars

\* A queued task is started or cancelled in the end, and a started one reaches
\* a final status.
EveryTaskEnds ==
    /\ \A t \in TaskIds : EntryStatus(t) = "queued" ~> EntryStatus(t) # "queued"
    /\ \A o \in Objs : qstat[o] = "running" ~> qstat[o] \in Terminal
=============================================================================
