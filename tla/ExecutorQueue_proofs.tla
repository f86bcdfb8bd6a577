----------------------- MODULE ExecutorQueue_proofs -----------------------
(* The backtest queue: types and slot accounting for every number of ids,  *)
(* objects and limits and with every call allowed; and, with the calls used *)
(* as intended (Ordinary), what the queue knows of its runners, what becomes *)
(* of queued and of cancelled tasks, and that the queue is a pool of slots. *)
EXTENDS ExecutorQueue, FiniteSetTheorems, WellFoundedInduction, TLAPS

Jobs == [kind : JobKinds, obj : Objs]

\* What ProcessNext is given by each of its callers.
ArgsOK(ts, ps, qs, active, limit, js) ==
    /\ ts \in [TaskIds -> 0..MaxObjs]
    /\ ps \in [TaskIds -> 0..MaxObjs]
    /\ qs \in [Objs -> QStatus]
    /\ active \in Nat
    /\ limit \in Nat
    /\ js \in Seq(Jobs)

LEMMA ObjsFinite == IsFiniteSet(Objs) /\ Objs \subseteq Nat
  BY FS_Interval, ConstantsAssumption DEF Objs

\* The tasks ProcessNext starts are queued objects of the Map.
LEMMA PickedQueued ==
  ASSUME NEW ts \in [TaskIds -> 0..MaxObjs], NEW ps, NEW qs, NEW free
  PROVE  \A o \in Picked(ts, ps, qs, free) :
           o \in Objs /\ qs[o] = "queued" /\ \E t \in TaskIds : ts[t] = o
<1>1. ASSUME NEW o \in Picked(ts, ps, qs, free)
      PROVE  o \in Objs /\ qs[o] = "queued" /\ \E t \in TaskIds : ts[t] = o
  <2>1. PICK t \in Queued(ts, qs) : o = ts[t]
    BY <1>1, Zenon DEF Picked
  <2>2. t \in TaskIds /\ ts[t] # 0 /\ qs[ts[t]] = "queued"
    BY <2>1 DEF Queued
  <2>3. ts[t] \in Objs
    BY <2>2, ConstantsAssumption DEF Objs
  <2> QED
    BY <2>1, <2>2, <2>3
<1> QED
  BY <1>1

LEMMA PickedFinite ==
  ASSUME NEW ts \in [TaskIds -> 0..MaxObjs], NEW ps, NEW qs, NEW free
  PROVE  /\ IsFiniteSet(Picked(ts, ps, qs, free))
         /\ Cardinality(Picked(ts, ps, qs, free)) \in Nat
<1>1. Picked(ts, ps, qs, free) \subseteq Objs
  BY PickedQueued
<1> QED
  BY <1>1, ObjsFinite, FS_Subset, FS_CardinalityType

\* ProcessNext keeps the types of what it writes.
LEMMA ProcessNextType ==
  ASSUME NEW ts, NEW ps, NEW qs, NEW active, NEW limit, NEW js,
         ArgsOK(ts, ps, qs, active, limit, js),
         xstat \in [Objs -> XStatus],
         ProcessNext(ts, ps, qs, active, limit, js)
  PROVE  /\ tasks' \in [TaskIds -> 0..MaxObjs]
         /\ pos' \in [TaskIds -> 0..MaxObjs]
         /\ qstat' \in [Objs -> QStatus]
         /\ activeCount' \in Nat
         /\ jobs' \in Seq(Jobs)
         /\ xstat' \in [Objs -> XStatus]
<1> DEFINE S == Picked(ts, ps, qs, limit - active)
           N == Cardinality(S)
           Rank(o) == ps[CHOOSE t \in TaskIds : ts[t] = o]
<1>1. S \subseteq Objs /\ N \in Nat
  BY PickedQueued, PickedFinite DEF ArgsOK
<1>2. tasks' = ts /\ pos' = ps /\ activeCount' = active + N
  BY DEF ProcessNext
<1>3. qstat' \in [Objs -> QStatus]
  BY DEF ProcessNext, ArgsOK, QStatus, Pending
<1>4. PICK order \in [1..N -> S], thrown \in SUBSET S :
        /\ xstat' = [o \in Objs |-> IF o \in thrown THEN "aborted"
                                    ELSE IF o \in S THEN "pending"
                                    ELSE xstat[o]]
        /\ jobs' = js \o [i \in 1..N |->
             Job(IF order[i] \in thrown THEN "early" ELSE "attach", order[i])]
  BY DEF ProcessNext
<1>5. xstat' \in [Objs -> XStatus]
  BY <1>4 DEF XStatus
<1> DEFINE launched ==
      [i \in 1..N |-> Job(IF order[i] \in thrown THEN "early" ELSE "attach", order[i])]
<1>6. launched \in Seq(Jobs)
  <2>1. \A i \in 1..N : order[i] \in Objs
    BY <1>1
  <2>2. \A i \in 1..N :
          Job(IF order[i] \in thrown THEN "early" ELSE "attach", order[i]) \in Jobs
    BY <2>1 DEF Job, Jobs, JobKinds
  <2> QED
    BY <2>2, <1>1
<1>7. jobs' \in Seq(Jobs)
  <2>1. jobs' = js \o launched
    BY <1>4
  <2>2. js \in Seq(Jobs)
    BY DEF ArgsOK
  <2> HIDE DEF launched
  <2> QED
    BY <2>1, <2>2, <1>6
<1>8. activeCount' \in Nat
  BY <1>1, <1>2 DEF ArgsOK
<1>9. tasks' \in [TaskIds -> 0..MaxObjs] /\ pos' \in [TaskIds -> 0..MaxObjs]
  BY <1>2 DEF ArgsOK
<1> QED
  BY <1>3, <1>5, <1>7, <1>8, <1>9

\* enqueue hands ProcessNext well-typed arguments.
LEMMA EnqueueType ==
  ASSUME TypeOK, NEW t \in TaskIds, enqueue(t)
  PROVE  TypeOK'
<1> DEFINE n == nobj + 1
           ts == [tasks EXCEPT ![t] = n]
           qs == [o \in Objs |->
                    IF o = n THEN "queued"
                    ELSE IF qtask[o] = t /\ qstat[o] \in {"preparing", "queued"}
                    THEN "dropped"
                    ELSE qstat[o]]
<1>1. n \in 1..MaxObjs /\ n \in Objs /\ n \in 0..MaxObjs
  BY ConstantsAssumption DEF TypeOK, enqueue, Objs
<1>2. ArgsOK(ts, NewPos(t, n), qs, activeCount, maxConcurrent, jobs)
  <2>1. ts \in [TaskIds -> 0..MaxObjs] /\ NewPos(t, n) \in [TaskIds -> 0..MaxObjs]
    BY <1>1 DEF TypeOK, NewPos
  <2>2. qs \in [Objs -> QStatus]
    BY DEF TypeOK, QStatus, Pending
  <2> QED
    BY <2>1, <2>2 DEF ArgsOK, TypeOK, Jobs
<1>3. ProcessNext(ts, NewPos(t, n), qs, activeCount, maxConcurrent, jobs)
  BY DEF enqueue
<1>4. /\ nobj' = n
      /\ qtask' = [qtask EXCEPT ![n] = t]
      /\ UNCHANGED <<maxConcurrent, retain, listening, emit>>
  BY DEF enqueue
<1>5. xstat \in [Objs -> XStatus]
  BY DEF TypeOK
<1> HIDE DEF ts, qs
<1>6. /\ tasks' \in [TaskIds -> 0..MaxObjs]
      /\ pos' \in [TaskIds -> 0..MaxObjs]
      /\ qstat' \in [Objs -> QStatus]
      /\ activeCount' \in Nat
      /\ jobs' \in Seq(Jobs)
      /\ xstat' \in [Objs -> XStatus]
  BY <1>2, <1>3, <1>5, ProcessNextType
<1> QED
  BY <1>1, <1>4, <1>6 DEF TypeOK, Jobs

\* An emitter call is well typed.
LEMMA EmitType ==
  ASSUME TypeOK, NEW t, NEW st \in Terminal, NEW rej \in 0..MaxObjs,
         Emit(t, st, rej)
  PROVE  /\ emit' \in [who : SUBSET Objs, st : Terminal, rej : 0..MaxObjs]
         /\ listening' \subseteq Objs
BY DEF TypeOK, Emit, Emitting, Terminal

LEMMA EventLoopType == ASSUME TypeOK, EventLoop PROVE TypeOK'
<1>1. CASE Listener
  <2>1. PICK o \in emit.who :
          /\ emit' = Emitting(emit.who \ {o}, emit.st, emit.rej)
          /\ retain' = retain \cup {o}
          /\ ProcessNext(tasks, pos, [qstat EXCEPT ![o] = emit.st],
                         Freed, maxConcurrent, jobs)
          /\ UNCHANGED <<nobj, qtask, maxConcurrent, listening>>
    BY <1>1 DEF Listener
  <2>2. o \in Objs /\ emit.st \in Terminal /\ emit.rej \in 0..MaxObjs
    BY DEF TypeOK
  <2>3. ArgsOK(tasks, pos, [qstat EXCEPT ![o] = emit.st], Freed, maxConcurrent, jobs)
    BY <2>2 DEF TypeOK, ArgsOK, Freed, Jobs, QStatus
  <2>4. /\ tasks' \in [TaskIds -> 0..MaxObjs]
        /\ pos' \in [TaskIds -> 0..MaxObjs]
        /\ qstat' \in [Objs -> QStatus]
        /\ activeCount' \in Nat
        /\ jobs' \in Seq(Jobs)
        /\ xstat' \in [Objs -> XStatus]
    BY <2>1, <2>3, ProcessNextType DEF TypeOK
  <2>5. emit' \in [who : SUBSET Objs, st : Terminal, rej : 0..MaxObjs]
    BY <2>1, <2>2 DEF TypeOK, Emitting, Terminal
  <2>6. retain' \subseteq Objs
    BY <2>1, <2>2 DEF TypeOK
  <2> QED
    BY <2>1, <2>4, <2>5, <2>6 DEF TypeOK, Jobs
<1>2. CASE EmitReturns
  <2>1. emit.rej \in Objs
    BY <1>2, ConstantsAssumption DEF TypeOK, EmitReturns, Objs
  <2>2. Job("reject", emit.rej) \in Jobs
    BY <2>1 DEF Job, Jobs, JobKinds
  <2>3. jobs' \in Seq(Jobs)
    BY <1>2, <2>2 DEF TypeOK, EmitReturns, Jobs
  <2>4. emit' \in [who : SUBSET Objs, st : Terminal, rej : 0..MaxObjs]
    BY <1>2, ConstantsAssumption DEF EmitReturns, Silent, Emitting, Terminal
  <2> QED
    BY <1>2, <2>3, <2>4 DEF TypeOK, EmitReturns, Jobs
<1>3. ASSUME NEW k, RunJob(k)
      PROVE  Head(jobs).obj \in Objs /\ Tail(jobs) \in Seq(Jobs)
  <2>1. jobs \in Seq(Jobs) /\ jobs # <<>>
    BY <1>3 DEF RunJob, TypeOK, Jobs
  <2>2. Head(jobs) \in Jobs /\ Tail(jobs) \in Seq(Jobs)
    BY <2>1
  <2> QED
    BY <2>2 DEF Jobs
<1>4. CASE Attach
  <2>1. Head(jobs).obj \in Objs /\ Tail(jobs) \in Seq(Jobs)
    BY <1>3, <1>4 DEF Attach
  <2> QED
    BY <1>4, <2>1 DEF TypeOK, Attach, RunJob, Jobs
<1>5. CASE CatchEarly
  <2>1. Head(jobs).obj \in Objs /\ Tail(jobs) \in Seq(Jobs)
    BY <1>3, <1>5 DEF CatchEarly
  <2>2. Job("attach", Head(jobs).obj) \in Jobs
    BY <2>1 DEF Job, Jobs, JobKinds
  <2>3. jobs' \in Seq(Jobs)
    BY <1>5, <2>1, <2>2 DEF CatchEarly
  <2>4. Emit(qtask[Head(jobs).obj], "failed", 0)
    BY <1>5 DEF CatchEarly
  <2>5. /\ emit' \in [who : SUBSET Objs, st : Terminal, rej : 0..MaxObjs]
        /\ listening' \subseteq Objs
    BY <2>4, EmitType, ConstantsAssumption DEF Terminal
  <2> QED
    BY <1>5, <2>3, <2>5 DEF TypeOK, CatchEarly, RunJob, Jobs
<1>6. CASE Reject
  <2>1. Head(jobs).obj \in Objs /\ Tail(jobs) \in Seq(Jobs)
    BY <1>3, <1>6 DEF Reject
  <2>2. Job("catch", Head(jobs).obj) \in Jobs
    BY <2>1 DEF Job, Jobs, JobKinds
  <2>3. jobs' \in Seq(Jobs)
    BY <1>6, <2>1, <2>2 DEF Reject
  <2> QED
    BY <1>6, <2>3 DEF TypeOK, Reject, RunJob, Jobs
<1>7. CASE Catch
  <2>1. Head(jobs).obj \in Objs /\ Tail(jobs) \in Seq(Jobs)
    BY <1>3, <1>7 DEF Catch
  <2>2. Emit(qtask[Head(jobs).obj], "failed", 0)
    BY <1>7 DEF Catch
  <2>3. /\ emit' \in [who : SUBSET Objs, st : Terminal, rej : 0..MaxObjs]
        /\ listening' \subseteq Objs
    BY <2>2, EmitType, ConstantsAssumption DEF Terminal
  <2> QED
    BY <1>7, <2>1, <2>3 DEF TypeOK, Catch, RunJob, Jobs
<1> QED
  BY <1>1, <1>2, <1>4, <1>5, <1>6, <1>7 DEF EventLoop

LEMMA InitType == Init => TypeOK
<1> SUFFICES ASSUME Init PROVE TypeOK
  OBVIOUS
<1>1. maxConcurrent \in Nat \ {0}
  BY ConstantsAssumption DEF Init, AtLeastOne
<1>2. emit \in [who : SUBSET Objs, st : Terminal, rej : 0..MaxObjs]
  BY ConstantsAssumption DEF Init, Silent, Emitting, Terminal
<1>3. jobs \in Seq([kind : JobKinds, obj : Objs])
  BY DEF Init
<1> QED
  BY <1>1, <1>2, <1>3, ConstantsAssumption DEF Init, TypeOK, QStatus, XStatus

LEMMA RequestType == ASSUME TypeOK, NEW t \in TaskIds, Request(t) PROVE TypeOK'
<1>1. CASE RegisterPreparing(t)
  <2>1. nobj + 1 \in Objs /\ nobj + 1 \in 0..MaxObjs
    BY <1>1, ConstantsAssumption DEF TypeOK, RegisterPreparing, Objs
  <2> QED
    BY <1>1, <2>1 DEF TypeOK, RegisterPreparing, NewPos, QStatus, Pending
<1>2. CASE EnqueuePrepared(t)
  BY <1>2, EnqueueType DEF EnqueuePrepared
<1>3. CASE Resume(t)
  BY <1>3, EnqueueType DEF Resume
<1>4. CASE CancelPreparing(t)
  BY <1>4 DEF TypeOK, CancelPreparing, QStatus, Terminal
<1>5. CASE CancelQueued(t)
  <2>1. 0 \in 0..MaxObjs
    BY ConstantsAssumption
  <2>2. /\ tasks' \in [TaskIds -> 0..MaxObjs]
        /\ pos' \in [TaskIds -> 0..MaxObjs]
    BY <1>5, <2>1 DEF TypeOK, CancelQueued
  <2>3. qstat' \in [Objs -> QStatus]
    BY <1>5 DEF TypeOK, CancelQueued, QStatus, Terminal
  <2>4. UNCHANGED <<nobj, qtask, activeCount, maxConcurrent, retain, listening,
                    emit, jobs, xstat>>
    BY <1>5 DEF CancelQueued
  <2> QED
    BY <2>2, <2>3, <2>4 DEF TypeOK
<1>6. CASE CancelRunning(t)
  BY <1>6 DEF TypeOK, CancelRunning, Signal, XStatus
<1> QED
  BY <1>1, <1>2, <1>3, <1>4, <1>5, <1>6 DEF Request

LEMMA SetMaxConcurrentType ==
  ASSUME TypeOK, NEW l \in Limits, SetMaxConcurrent(l)
  PROVE  TypeOK'
<1>1. AtLeastOne(l) \in Nat \ {0}
  BY ConstantsAssumption DEF AtLeastOne
<1>2. ArgsOK(tasks, pos, qstat, activeCount, AtLeastOne(l), jobs)
  BY <1>1 DEF TypeOK, ArgsOK, Jobs
<1>3. /\ maxConcurrent' = AtLeastOne(l)
      /\ ProcessNext(tasks, pos, qstat, activeCount, AtLeastOne(l), jobs)
      /\ UNCHANGED <<nobj, qtask, retain, listening, emit>>
  BY DEF SetMaxConcurrent
<1>4. /\ tasks' \in [TaskIds -> 0..MaxObjs]
      /\ pos' \in [TaskIds -> 0..MaxObjs]
      /\ qstat' \in [Objs -> QStatus]
      /\ activeCount' \in Nat
      /\ jobs' \in Seq(Jobs)
      /\ xstat' \in [Objs -> XStatus]
  BY <1>2, <1>3, ProcessNextType DEF TypeOK
<1>5. /\ maxConcurrent' \in Nat \ {0}
      /\ nobj' \in 0..MaxObjs
      /\ qtask' \in [Objs -> TaskIds \cup {NoTask}]
      /\ retain' \subseteq Objs
      /\ listening' \subseteq Objs
      /\ emit' \in [who : SUBSET Objs, st : Terminal, rej : 0..MaxObjs]
  BY <1>1, <1>3 DEF TypeOK
<1> QED
  BY <1>4, <1>5 DEF TypeOK, Jobs

\* Every step of the queue and of the executor service keeps the types.
LEMMA NextType == ASSUME TypeOK, [Next]_vars PROVE TypeOK'
<1>1. ASSUME NEW t \in TaskIds, Request(t) PROVE TypeOK'
  BY <1>1, RequestType
<1>2. CASE CancelAll
  <2>1. 0 \in 0..MaxObjs
    BY ConstantsAssumption
  <2>2. /\ tasks' \in [TaskIds -> 0..MaxObjs]
        /\ pos' \in [TaskIds -> 0..MaxObjs]
        /\ activeCount' \in Nat
    BY <1>2, <2>1 DEF CancelAll
  <2>3. qstat' \in [Objs -> QStatus]
    BY <1>2 DEF TypeOK, CancelAll, QStatus, Terminal
  <2>4. xstat' \in [Objs -> XStatus]
    BY <1>2 DEF TypeOK, CancelAll, Signal, XStatus
  <2>5. UNCHANGED <<nobj, qtask, maxConcurrent, retain, listening, emit, jobs>>
    BY <1>2 DEF CancelAll
  <2> QED
    BY <2>2, <2>3, <2>4, <2>5 DEF TypeOK
<1>3. ASSUME NEW l \in Limits, SetMaxConcurrent(l) PROVE TypeOK'
  BY <1>3, SetMaxConcurrentType
<1>4. ASSUME NEW o \in Objs, RetentionTimer(o) PROVE TypeOK'
  <2>1. 0 \in 0..MaxObjs
    BY ConstantsAssumption
  <2>2. /\ tasks' \in [TaskIds -> 0..MaxObjs]
        /\ pos' \in [TaskIds -> 0..MaxObjs]
        /\ retain' \subseteq Objs
    BY <1>4, <2>1 DEF TypeOK, RetentionTimer
  <2>3. UNCHANGED <<nobj, qtask, qstat, activeCount, maxConcurrent, listening,
                    emit, jobs, xstat>>
    BY <1>4 DEF RetentionTimer
  <2> QED
    BY <2>2, <2>3 DEF TypeOK
<1>5. ASSUME NEW o \in Objs, SpawnRunner(o) PROVE TypeOK'
  BY <1>5 DEF TypeOK, SpawnRunner, XStatus
<1>6. ASSUME NEW o \in Objs, SpawnFails(o) PROVE TypeOK'
  <2>1. Job("catch", o) \in Jobs
    BY <1>6 DEF Job, Jobs, JobKinds
  <2>2. jobs' \in Seq(Jobs)
    BY <1>6, <2>1 DEF SpawnFails
  <2> QED
    BY <1>6, <2>2 DEF TypeOK, SpawnFails, XStatus, Jobs
<1>7. ASSUME NEW o \in Objs, NEW st \in Terminal, RunnerExit(o, st) PROVE TypeOK'
  <2>1. (IF st = "failed" THEN o ELSE 0) \in 0..MaxObjs
    BY ConstantsAssumption DEF Objs
  <2>2. /\ emit' \in [who : SUBSET Objs, st : Terminal, rej : 0..MaxObjs]
        /\ listening' \subseteq Objs
    BY <1>7, <2>1, EmitType DEF RunnerExit
  <2>3. xstat' \in [Objs -> XStatus]
    BY <1>7 DEF TypeOK, RunnerExit, XStatus
  <2>4. UNCHANGED <<nobj, qtask, qstat, tasks, pos, activeCount, maxConcurrent,
                    retain, jobs>>
    BY <1>7 DEF RunnerExit
  <2> QED
    BY <2>2, <2>3, <2>4 DEF TypeOK
<1>8. CASE EventLoop
  BY <1>8, EventLoopType
<1>9. CASE UNCHANGED vars
  BY <1>9 DEF TypeOK, vars
<1> QED
  BY <1>1, <1>2, <1>3, <1>4, <1>5, <1>6, <1>7, <1>8, <1>9 DEF Next

\* Every variable keeps its type: activeCount is a natural number also after
\* a "cancel all", and whatever runners end after it.
THEOREM TypeCorrect == Spec => []TypeOK
<1>1. Init => TypeOK
  BY InitType
<1>2. TypeOK /\ [Next]_vars => TypeOK'
  BY NextType
<1> QED
  BY <1>1, <1>2, PTL DEF Spec

-----------------------------------------------------------------------------
(* Slot accounting.                                                        *)

RunningIn(qs) == {o \in Objs : qs[o] = "running"}

LEMMA RunningFinite ==
  ASSUME NEW qs
  PROVE  IsFiniteSet(RunningIn(qs)) /\ Cardinality(RunningIn(qs)) \in Nat
<1>1. RunningIn(qs) \subseteq Objs
  BY DEF RunningIn
<1> QED
  BY <1>1, ObjsFinite, FS_Subset, FS_CardinalityType

\* The tasks ProcessNext starts join the running ones, are counted once each,
\* and each gets one microtask that will attach its listeners.
LEMMA ProcessNextStarts ==
  ASSUME NEW ts, NEW ps, NEW qs, NEW active, NEW limit, NEW js,
         ArgsOK(ts, ps, qs, active, limit, js),
         ProcessNext(ts, ps, qs, active, limit, js)
  PROVE  \E S \in SUBSET Objs, launched \in Seq(Jobs) :
           /\ S \cap RunningIn(qs) = {}
           /\ Running' = RunningIn(qs) \cup S
           /\ IsFiniteSet(S)
           /\ activeCount' = active + Cardinality(S)
           /\ jobs' = js \o launched
           /\ \A i \in 1..Len(launched) : launched[i].obj \in S
           /\ AttachesOnce(launched)
<1> DEFINE S == Picked(ts, ps, qs, limit - active)
           N == Cardinality(S)
           Rank(o) == ps[CHOOSE t \in TaskIds : ts[t] = o]
<1>1. S \subseteq Objs /\ IsFiniteSet(S) /\ N \in Nat
  BY PickedQueued, PickedFinite DEF ArgsOK
<1>2. \A o \in S : qs[o] = "queued"
  BY PickedQueued DEF ArgsOK
<1>3. S \cap RunningIn(qs) = {}
  BY <1>2 DEF RunningIn
<1>4. Running' = RunningIn(qs) \cup S
  <2>1. qstat' = [o \in Objs |-> IF o \in S THEN "running" ELSE qs[o]]
    BY DEF ProcessNext
  <2> HIDE DEF S
  <2> QED
    BY <1>1, <2>1 DEF Running, RunningIn
<1>5. PICK order \in [1..N -> S], thrown \in SUBSET S :
        /\ \A i, j \in 1..N : i < j => Rank(order[i]) < Rank(order[j])
        /\ jobs' = js \o [i \in 1..N |->
             Job(IF order[i] \in thrown THEN "early" ELSE "attach", order[i])]
  BY DEF ProcessNext
<1> DEFINE launched ==
      [i \in 1..N |-> Job(IF order[i] \in thrown THEN "early" ELSE "attach", order[i])]
<1>6. \A o \in S : Rank(o) \in Int
  <2>1. \A o \in S : \E t \in TaskIds : ts[t] = o
    BY PickedQueued DEF ArgsOK
  <2>2. ps \in [TaskIds -> Int]
    BY DEF ArgsOK
  <2> QED
    BY <2>1, <2>2
<1>7. \A i, j \in 1..N : order[i] = order[j] => i = j
  <2> SUFFICES ASSUME NEW i \in 1..N, NEW j \in 1..N, order[i] = order[j], i < j
               PROVE  FALSE
    BY <1>1
  <2>1. Rank(order[i]) < Rank(order[j]) /\ Rank(order[i]) = Rank(order[j])
    BY <1>5
  <2>2. Rank(order[i]) \in Int
    BY <1>6
  <2> HIDE DEF Rank
  <2> QED
    BY <2>1, <2>2
<1>8. \A i \in 1..N : order[i] \in S /\ order[i] \in Objs
  BY <1>1
<1> HIDE DEF S, Rank
<1>9. \A i \in 1..N : launched[i] \in Jobs /\ launched[i].obj = order[i]
  BY <1>8 DEF Job, Jobs, JobKinds
<1>10. launched \in Seq(Jobs) /\ Len(launched) = N
  BY <1>1, <1>9
<1>11. \A i \in 1..Len(launched) : launched[i].obj \in S
  BY <1>8, <1>9, <1>10
<1>12. jobs' = js \o launched
  BY <1>5
<1>13. activeCount' = active + Cardinality(S)
  BY DEF ProcessNext, S
<1> HIDE DEF launched
<1>14. AttachesOnce(launched)
  <2> SUFFICES ASSUME NEW i \in 1..N, NEW j \in 1..N, launched[i].obj = launched[j].obj
               PROVE  i = j
    BY <1>10 DEF AttachesOnce
  <2> QED
    BY <1>7, <1>9
<1> QED
  BY <1>1, <1>3, <1>4, <1>10, <1>11, <1>12, <1>13, <1>14

LEMMA ProcessNextStatus ==
  ASSUME NEW ts, NEW ps, NEW qs, NEW active, NEW limit, NEW js,
         ArgsOK(ts, ps, qs, active, limit, js),
         ProcessNext(ts, ps, qs, active, limit, js)
  PROVE  \A o \in Objs : qs[o] # "queued" => qstat'[o] = qs[o]
<1>1. \A o \in Picked(ts, ps, qs, limit - active) : qs[o] = "queued"
  BY PickedQueued DEF ArgsOK
<1>2. qstat' = [o \in Objs |-> IF o \in Picked(ts, ps, qs, limit - active)
                               THEN "running" ELSE qs[o]]
  BY DEF ProcessNext
<1> QED
  BY <1>1, <1>2

\* What is known of the microtasks survives ProcessNext.
LEMMA ProcessNextAttaches ==
  ASSUME NEW ts, NEW ps, NEW qs, NEW active, NEW limit, NEW js,
         ArgsOK(ts, ps, qs, active, limit, js),
         ProcessNext(ts, ps, qs, active, limit, js),
         NEW heard \in SUBSET RunningIn(qs),
         AttachesRunning(js, RunningIn(qs), heard),
         AttachesOnce(js)
  PROVE  /\ AttachesRunning(jobs', Running', heard)
         /\ AttachesOnce(jobs')
         /\ RunningIn(qs) \subseteq Running'
<1>1. PICK S \in SUBSET Objs, launched \in Seq(Jobs) :
           /\ S \cap RunningIn(qs) = {}
           /\ Running' = RunningIn(qs) \cup S
           /\ jobs' = js \o launched
           /\ \A i \in 1..Len(launched) : launched[i].obj \in S
           /\ AttachesOnce(launched)
  BY ProcessNextStarts
<1>2. js \in Seq(Jobs)
  BY DEF ArgsOK
<1>3. /\ Len(jobs') = Len(js) + Len(launched)
      /\ Len(js) \in Nat
      /\ Len(launched) \in Nat
      /\ \A i \in 1..Len(jobs') :
           jobs'[i] = IF i <= Len(js) THEN js[i] ELSE launched[i - Len(js)]
  BY <1>1, <1>2
<1>4. AttachesRunning(jobs', Running', heard)
  <2> SUFFICES ASSUME NEW i \in 1..Len(jobs'), Attaches(jobs'[i])
               PROVE  jobs'[i].obj \in Running' \ heard
    BY DEF AttachesRunning
  <2>1. CASE i <= Len(js)
    BY <1>1, <1>3, <2>1 DEF AttachesRunning
  <2>2. CASE i > Len(js)
    BY <1>1, <1>3, <2>2
  <2> QED
    BY <1>3, <2>1, <2>2
<1>5. AttachesOnce(jobs')
  <2> SUFFICES ASSUME NEW i \in 1..Len(jobs'), NEW j \in 1..Len(jobs'),
                      Attaches(jobs'[i]), Attaches(jobs'[j]),
                      jobs'[i].obj = jobs'[j].obj
               PROVE  i = j
    BY DEF AttachesOnce
  <2>1. CASE i <= Len(js) /\ j <= Len(js)
    BY <1>3, <2>1 DEF AttachesOnce
  <2>2. CASE i > Len(js) /\ j > Len(js)
    <3>1. i - Len(js) \in 1..Len(launched) /\ j - Len(js) \in 1..Len(launched)
      BY <1>3, <2>2
    <3>2. i - Len(js) = j - Len(js)
      BY <1>1, <1>3, <2>2, <3>1 DEF AttachesOnce
    <3> QED
      BY <1>3, <3>2
  <2>3. ASSUME NEW k \in 1..Len(jobs'), NEW l \in 1..Len(jobs'),
               k <= Len(js), l > Len(js), Attaches(jobs'[k])
        PROVE  jobs'[k].obj # jobs'[l].obj
    <3>1. jobs'[k].obj \in RunningIn(qs)
      BY <1>3, <2>3 DEF AttachesRunning
    <3>2. jobs'[l].obj \in S
      BY <1>1, <1>3, <2>3
    <3> QED
      BY <1>1, <3>1, <3>2
  <2> QED
    BY <1>3, <2>1, <2>2, <2>3
<1> QED
  BY <1>1, <1>4, <1>5

\* ProcessNext adds to activeCount what it adds to the running tasks.
LEMMA ProcessNextCounts ==
  ASSUME NEW ts, NEW ps, NEW qs, NEW active, NEW limit, NEW js,
         ArgsOK(ts, ps, qs, active, limit, js),
         ProcessNext(ts, ps, qs, active, limit, js),
         IF CancelAllAtRunTime THEN active <= Cardinality(RunningIn(qs))
                               ELSE active = Cardinality(RunningIn(qs))
  PROVE  SlotAccounting'
<1>1. PICK S \in SUBSET Objs, launched \in Seq(Jobs) :
           /\ S \cap RunningIn(qs) = {}
           /\ Running' = RunningIn(qs) \cup S
           /\ IsFiniteSet(S)
           /\ activeCount' = active + Cardinality(S)
  BY ProcessNextStarts
<1>2. Cardinality(S) \in Nat /\ Cardinality(RunningIn(qs)) \in Nat
  BY <1>1, RunningFinite, FS_CardinalityType
<1>3. Cardinality(Running') = Cardinality(RunningIn(qs)) + Cardinality(S)
  <2>1. Cardinality(RunningIn(qs) \cup S) =
          Cardinality(RunningIn(qs)) + Cardinality(S)
            - Cardinality(RunningIn(qs) \cap S)
    BY <1>1, RunningFinite, FS_Union
  <2>2. Cardinality(RunningIn(qs) \cap S) = 0
    BY <1>1, FS_EmptySet
  <2> QED
    BY <1>1, <1>2, <2>1, <2>2
<1> QED
  BY <1>1, <1>2, <1>3, ConstantsAssumption DEF SlotAccounting, ArgsOK

\* A call of ProcessNext that starts from the slots as they are.
LEMMA ProcessNextSlots ==
  ASSUME TypeOK, SlotInv,
         NEW ts, NEW ps, NEW qs, NEW limit,
         ArgsOK(ts, ps, qs, activeCount, limit, jobs),
         ProcessNext(ts, ps, qs, activeCount, limit, jobs),
         RunningIn(qs) = Running,
         UNCHANGED <<listening, emit>>
  PROVE  /\ emit'.who \subseteq Running'
         /\ listening' \subseteq Running'
         /\ emit'.who \cap listening' = {}
         /\ AttachesRunning(jobs', Running', emit'.who \cup listening')
         /\ AttachesOnce(jobs')
         /\ SlotAccounting'
<1>1. (emit.who \cup listening) \in SUBSET RunningIn(qs)
  BY DEF SlotInv
<1>2. AttachesRunning(jobs, RunningIn(qs), emit.who \cup listening) /\ AttachesOnce(jobs)
  BY DEF SlotInv
<1>3. /\ AttachesRunning(jobs', Running', emit.who \cup listening)
      /\ AttachesOnce(jobs')
      /\ RunningIn(qs) \subseteq Running'
  BY <1>1, <1>2, ProcessNextAttaches
<1>4. IF CancelAllAtRunTime THEN activeCount <= Cardinality(RunningIn(qs))
                            ELSE activeCount = Cardinality(RunningIn(qs))
  BY DEF SlotInv, SlotAccounting
<1>5. SlotAccounting'
  BY <1>4, ProcessNextCounts
<1> QED
  BY <1>3, <1>5 DEF SlotInv

LEMMA EnqueueSlots ==
  ASSUME TypeOK, SlotInv, NEW t \in TaskIds, enqueue(t)
  PROVE  SlotInv'
<1> DEFINE n == nobj + 1
           ts == [tasks EXCEPT ![t] = n]
           qs == [o \in Objs |->
                    IF o = n THEN "queued"
                    ELSE IF qtask[o] = t /\ qstat[o] \in {"preparing", "queued"}
                    THEN "dropped"
                    ELSE qstat[o]]
<1>1. n \in 1..MaxObjs /\ n \in Objs /\ n \in 0..MaxObjs /\ nobj \in Nat
  BY ConstantsAssumption DEF TypeOK, enqueue, Objs
<1>2. ArgsOK(ts, NewPos(t, n), qs, activeCount, maxConcurrent, jobs)
  <2>1. ts \in [TaskIds -> 0..MaxObjs] /\ NewPos(t, n) \in [TaskIds -> 0..MaxObjs]
    BY <1>1 DEF TypeOK, NewPos
  <2>2. qs \in [Objs -> QStatus]
    BY DEF TypeOK, QStatus, Pending
  <2> QED
    BY <2>1, <2>2 DEF ArgsOK, TypeOK, Jobs
<1>3. ProcessNext(ts, NewPos(t, n), qs, activeCount, maxConcurrent, jobs)
  BY DEF enqueue
<1>4. nobj' = n /\ UNCHANGED <<listening, emit>>
  BY DEF enqueue
<1>5. RunningIn(qs) = Running
  <2>1. qstat[n] = "none"
    BY <1>1, ObjsFinite DEF SlotInv
  <2> QED
    BY <2>1 DEF RunningIn, Running
<1>6. \A o \in Objs : o > n => qs[o] = "none"
  BY <1>1, ObjsFinite DEF SlotInv
<1> HIDE DEF ts, qs
<1>7. \A o \in Objs : qs[o] # "queued" => qstat'[o] = qs[o]
  BY <1>2, <1>3, ProcessNextStatus
<1>8. \A o \in Objs : o > nobj' => qstat'[o] = "none"
  BY <1>4, <1>6, <1>7
<1>9. /\ emit'.who \subseteq Running'
      /\ listening' \subseteq Running'
      /\ emit'.who \cap listening' = {}
      /\ AttachesRunning(jobs', Running', emit'.who \cup listening')
      /\ AttachesOnce(jobs')
      /\ SlotAccounting'
  BY <1>2, <1>3, <1>4, <1>5, ProcessNextSlots
<1> QED
  BY <1>8, <1>9 DEF SlotInv

\* A step that leaves the running tasks, the listeners and the microtasks.
LEMMA SlotsKept ==
  ASSUME TypeOK, SlotInv, Running' = Running, activeCount' = activeCount,
         UNCHANGED <<listening, emit, jobs>>,
         \A o \in Objs : o > nobj' => qstat'[o] = "none"
  PROVE  SlotInv'
BY DEF SlotInv, SlotAccounting

LEMMA RequestSlots ==
  ASSUME TypeOK, SlotInv, NEW t \in TaskIds, Request(t)
  PROVE  SlotInv'
<1>1. CASE RegisterPreparing(t)
  <2>1. nobj + 1 \in Objs /\ nobj \in Nat /\ qstat[nobj + 1] = "none"
    BY <1>1, ConstantsAssumption DEF TypeOK, RegisterPreparing, Objs, SlotInv
  <2>2. Running' = Running
    BY <1>1, <2>1 DEF RegisterPreparing, Running, TypeOK
  <2>3. \A o \in Objs : o > nobj' => qstat'[o] = "none"
    BY <1>1, <2>1, ObjsFinite DEF RegisterPreparing, SlotInv, TypeOK
  <2> QED
    BY <1>1, <2>2, <2>3, SlotsKept DEF RegisterPreparing
<1>2. CASE EnqueuePrepared(t)
  BY <1>2, EnqueueSlots DEF EnqueuePrepared
<1>3. CASE Resume(t)
  BY <1>3, EnqueueSlots DEF Resume
<1>4. ASSUME UNCHANGED <<nobj, activeCount, listening, emit, jobs>>,
             EntryStatus(t) \in {"preparing", "queued"},
             qstat' = [qstat EXCEPT ![tasks[t]] = "cancelled"]
      PROVE  SlotInv'
  <2>1. tasks[t] \in Objs /\ qstat[tasks[t]] \in {"preparing", "queued"}
    BY <1>4, ConstantsAssumption DEF EntryStatus, TypeOK, Objs
  <2>2. Running' = Running
    BY <1>4, <2>1 DEF Running, TypeOK
  <2>3. \A o \in Objs : o > nobj' => qstat'[o] = "none"
    BY <1>4, <2>1 DEF SlotInv, TypeOK
  <2> QED
    BY <1>4, <2>2, <2>3, SlotsKept
<1>5. CASE CancelPreparing(t)
  BY <1>4, <1>5 DEF CancelPreparing
<1>6. CASE CancelQueued(t)
  BY <1>4, <1>6 DEF CancelQueued
<1>7. CASE CancelRunning(t)
  <2>1. UNCHANGED <<nobj, qstat, activeCount, listening, emit, jobs>>
    BY <1>7 DEF CancelRunning
  <2>2. Running' = Running /\ \A o \in Objs : o > nobj' => qstat'[o] = "none"
    BY <2>1 DEF Running, SlotInv
  <2> QED
    BY <2>1, <2>2, SlotsKept
<1> QED
  BY <1>1, <1>2, <1>3, <1>5, <1>6, <1>7 DEF Request

LEMMA SetMaxConcurrentSlots ==
  ASSUME TypeOK, SlotInv, NEW l \in Limits, SetMaxConcurrent(l)
  PROVE  SlotInv'
<1>1. ArgsOK(tasks, pos, qstat, activeCount, AtLeastOne(l), jobs)
  BY ConstantsAssumption DEF TypeOK, ArgsOK, Jobs, AtLeastOne
<1>2. /\ ProcessNext(tasks, pos, qstat, activeCount, AtLeastOne(l), jobs)
      /\ UNCHANGED <<nobj, listening, emit>>
  BY DEF SetMaxConcurrent
<1>3. RunningIn(qstat) = Running
  BY DEF RunningIn, Running
<1>4. \A o \in Objs : o > nobj' => qstat'[o] = "none"
  <2>1. \A o \in Objs : o > nobj => qstat[o] = "none"
    BY DEF SlotInv
  <2> QED
    BY <1>1, <1>2, <2>1, ProcessNextStatus
<1>5. /\ emit'.who \subseteq Running'
      /\ listening' \subseteq Running'
      /\ emit'.who \cap listening' = {}
      /\ AttachesRunning(jobs', Running', emit'.who \cup listening')
      /\ AttachesOnce(jobs')
      /\ SlotAccounting'
  BY <1>1, <1>2, <1>3, ProcessNextSlots
<1> QED
  BY <1>4, <1>5 DEF SlotInv

\* An emitter call moves listeners from attached to about to be called.
LEMMA EmitMoves ==
  ASSUME NEW t, NEW st, NEW rej, Emit(t, st, rej)
  PROVE  /\ emit'.who \cup listening' = listening
         /\ emit'.who \cap listening' = {}
         /\ emit'.who \subseteq listening
         /\ listening' \subseteq listening
BY DEF Emit, Emitting

LEMMA SilentWho == Silent.who = {}
  BY DEF Silent, Emitting

LEMMA ListenerSlots == ASSUME TypeOK, SlotInv, Listener PROVE SlotInv'
<1>1. PICK o \in emit.who :
        /\ emit' = Emitting(emit.who \ {o}, emit.st, emit.rej)
        /\ ProcessNext(tasks, pos, [qstat EXCEPT ![o] = emit.st],
                       Freed, maxConcurrent, jobs)
        /\ UNCHANGED <<nobj, listening>>
  BY DEF Listener
<1> DEFINE qs == [qstat EXCEPT ![o] = emit.st]
<1>2. o \in Objs /\ emit.st \in Terminal /\ o \in Running
  BY DEF TypeOK, SlotInv
<1>3. ArgsOK(tasks, pos, qs, Freed, maxConcurrent, jobs)
  BY <1>2 DEF TypeOK, ArgsOK, Freed, Jobs, QStatus
<1>4. RunningIn(qs) = Running \ {o}
  BY <1>2 DEF RunningIn, Running, TypeOK, Terminal
<1>5. emit'.who = emit.who \ {o}
  BY <1>1 DEF Emitting
<1>6. \A p \in Objs : p > nobj => qs[p] = "none"
  BY <1>2 DEF SlotInv, Running, TypeOK
<1> HIDE DEF qs
<1>7. (emit'.who \cup listening) \in SUBSET RunningIn(qs)
  BY <1>1, <1>4, <1>5 DEF SlotInv
<1>8. AttachesRunning(jobs, RunningIn(qs), emit'.who \cup listening)
  BY <1>1, <1>4, <1>5 DEF SlotInv, AttachesRunning
<1>9. AttachesOnce(jobs)
  BY DEF SlotInv
<1>10. ProcessNext(tasks, pos, qs, Freed, maxConcurrent, jobs)
  BY <1>1 DEF qs
<1>11. /\ AttachesRunning(jobs', Running', emit'.who \cup listening)
       /\ AttachesOnce(jobs')
       /\ RunningIn(qs) \subseteq Running'
  BY <1>3, <1>7, <1>8, <1>9, <1>10, ProcessNextAttaches
<1>12. SlotAccounting'
  <2>1. /\ IsFiniteSet(Running)
        /\ Cardinality(Running) \in Nat
        /\ Cardinality(Running \ {o}) = Cardinality(Running) - 1
        /\ Cardinality(Running \ {o}) \in Nat
    <3>1. Running = RunningIn(qstat)
      BY DEF Running, RunningIn
    <3>2. IsFiniteSet(Running) /\ Cardinality(Running) \in Nat
      BY <3>1, RunningFinite
    <3> QED
      BY <1>2, <3>2, FS_RemoveElement, FS_CardinalityType
  <2>2. IF CancelAllAtRunTime THEN Freed <= Cardinality(RunningIn(qs))
                              ELSE Freed = Cardinality(RunningIn(qs))
    BY <1>4, <2>1 DEF Freed, SlotInv, SlotAccounting, TypeOK
  <2> QED
    BY <1>3, <1>10, <2>2, ProcessNextCounts
<1>13. \A p \in Objs : p > nobj' => qstat'[p] = "none"
  <2>1. \A p \in Objs : qs[p] # "queued" => qstat'[p] = qs[p]
    BY <1>3, <1>10, ProcessNextStatus
  <2> QED
    BY <1>1, <1>6, <2>1
<1>14. emit'.who \cap listening' = {}
  BY <1>1, <1>5 DEF SlotInv
<1> QED
  BY <1>1, <1>7, <1>11, <1>12, <1>13, <1>14 DEF SlotInv

\* The microtasks that are left after the first one was taken.
LEMMA TailSlots ==
  ASSUME TypeOK, SlotInv, jobs # <<>>
  PROVE  /\ Head(jobs) \in Jobs
         /\ Tail(jobs) \in Seq(Jobs)
         /\ AttachesRunning(Tail(jobs), Running, emit.who \cup listening)
         /\ AttachesOnce(Tail(jobs))
         /\ Attaches(Head(jobs)) =>
              /\ Head(jobs).obj \in Running \ (emit.who \cup listening)
              /\ \A i \in 1..Len(Tail(jobs)) :
                   Attaches(Tail(jobs)[i]) => Tail(jobs)[i].obj # Head(jobs).obj
<1>1. jobs \in Seq(Jobs)
  BY DEF TypeOK, Jobs
<1>2. /\ Head(jobs) \in Jobs
      /\ Tail(jobs) \in Seq(Jobs)
      /\ Head(jobs) = jobs[1]
      /\ Len(jobs) \in Nat \ {0}
      /\ Len(Tail(jobs)) = Len(jobs) - 1
      /\ \A i \in 1..Len(Tail(jobs)) : Tail(jobs)[i] = jobs[i + 1]
  BY <1>1
<1>3. \A i \in 1..Len(Tail(jobs)) : i + 1 \in 1..Len(jobs) /\ i + 1 # 1
  BY <1>2
<1>4. 1 \in 1..Len(jobs)
  BY <1>2
<1>5. AttachesRunning(Tail(jobs), Running, emit.who \cup listening)
  BY <1>2, <1>3 DEF SlotInv, AttachesRunning
<1>6. AttachesOnce(Tail(jobs))
  <2> SUFFICES ASSUME NEW i \in 1..Len(Tail(jobs)), NEW j \in 1..Len(Tail(jobs)),
                      Attaches(Tail(jobs)[i]), Attaches(Tail(jobs)[j]),
                      Tail(jobs)[i].obj = Tail(jobs)[j].obj
               PROVE  i = j
    BY DEF AttachesOnce
  <2>1. i + 1 = j + 1
    BY <1>2, <1>3 DEF SlotInv, AttachesOnce
  <2> QED
    BY <2>1
<1>7. Attaches(Head(jobs)) =>
        /\ Head(jobs).obj \in Running \ (emit.who \cup listening)
        /\ \A i \in 1..Len(Tail(jobs)) :
             Attaches(Tail(jobs)[i]) => Tail(jobs)[i].obj # Head(jobs).obj
  BY <1>2, <1>3, <1>4 DEF SlotInv, AttachesRunning, AttachesOnce
<1> QED
  BY <1>2, <1>5, <1>6, <1>7

\* A microtask that attaches no listener may be added at the end.
LEMMA AppendSlots ==
  ASSUME NEW js \in Seq(Jobs), NEW job \in Jobs, ~Attaches(job),
         NEW running, NEW heard,
         AttachesRunning(js, running, heard), AttachesOnce(js)
  PROVE  /\ AttachesRunning(Append(js, job), running, heard)
         /\ AttachesOnce(Append(js, job))
<1>1. /\ Len(Append(js, job)) = Len(js) + 1
      /\ Len(js) \in Nat
      /\ \A i \in 1..Len(js) : Append(js, job)[i] = js[i]
      /\ Append(js, job)[Len(js) + 1] = job
  OBVIOUS
<1>2. \A i \in 1..Len(Append(js, job)) :
        Attaches(Append(js, job)[i]) => i \in 1..Len(js) /\ Append(js, job)[i] = js[i]
  BY <1>1
<1> QED
  BY <1>2 DEF AttachesRunning, AttachesOnce

LEMMA EventLoopSlots == ASSUME TypeOK, SlotInv, EventLoop PROVE SlotInv'
<1> DEFINE heard == emit.who \cup listening
           None == \A o \in Objs : o > nobj => qstat[o] = "none"
<1>1. CASE Listener
  BY <1>1, ListenerSlots
<1>2. ASSUME UNCHANGED <<nobj, qstat, activeCount>>,
             emit'.who \cup listening' = heard,
             emit'.who \cap listening' = {},
             AttachesRunning(jobs', Running, heard),
             AttachesOnce(jobs')
      PROVE  SlotInv'
  <2>1. Running' = Running
    BY <1>2 DEF Running
  <2>2. heard \subseteq Running
    BY DEF SlotInv
  <2>3. SlotAccounting'
    BY <1>2, <2>1 DEF SlotInv, SlotAccounting
  <2> QED
    BY <1>2, <2>1, <2>2, <2>3 DEF SlotInv
<1>3. CASE EmitReturns
  <2>1. Job("reject", emit.rej) \in Jobs /\ ~Attaches(Job("reject", emit.rej))
    BY <1>3, ConstantsAssumption
       DEF EmitReturns, TypeOK, Objs, Job, Jobs, JobKinds, Attaches
  <2>2. jobs' = Append(jobs, Job("reject", emit.rej)) /\ jobs \in Seq(Jobs)
    BY <1>3 DEF EmitReturns, TypeOK, Jobs
  <2>3. AttachesRunning(jobs', Running, heard) /\ AttachesOnce(jobs')
    BY <2>1, <2>2, AppendSlots DEF SlotInv
  <2>4. emit'.who \cup listening' = heard /\ emit'.who \cap listening' = {}
    BY <1>3, SilentWho DEF EmitReturns
  <2> QED
    BY <1>2, <1>3, <2>3, <2>4 DEF EmitReturns
<1>4. CASE Attach
  <2>1. /\ jobs # <<>>
        /\ Attaches(Head(jobs))
        /\ jobs' = Tail(jobs)
        /\ listening' = listening \cup {Head(jobs).obj}
        /\ UNCHANGED <<nobj, qstat, activeCount, emit>>
    BY <1>4 DEF Attach, RunJob, Attaches
  <2>2. /\ AttachesRunning(Tail(jobs), Running, heard)
        /\ AttachesOnce(Tail(jobs))
        /\ Head(jobs).obj \in Running \ heard
        /\ \A i \in 1..Len(Tail(jobs)) :
             Attaches(Tail(jobs)[i]) => Tail(jobs)[i].obj # Head(jobs).obj
    BY <2>1, TailSlots
  <2>3. AttachesRunning(jobs', Running, emit.who \cup listening')
    BY <2>1, <2>2 DEF AttachesRunning
  <2>4. Running' = Running
    BY <2>1 DEF Running
  <2>5. SlotAccounting'
    BY <2>1, <2>4 DEF SlotInv, SlotAccounting
  <2> QED
    BY <2>1, <2>2, <2>3, <2>4, <2>5 DEF SlotInv
<1>5. ASSUME jobs # <<>>, emit = Silent, NEW t, NEW st, NEW rej, Emit(t, st, rej)
      PROVE  emit'.who \cup listening' = heard /\ emit'.who \cap listening' = {}
  <2>1. heard = listening
    BY <1>5, SilentWho
  <2> QED
    BY <1>5, <2>1, EmitMoves
<1>6. CASE CatchEarly
  <2>1. /\ jobs # <<>>
        /\ emit = Silent
        /\ Attaches(Head(jobs))
        /\ jobs' = <<Job("attach", Head(jobs).obj)>> \o Tail(jobs)
        /\ Emit(qtask[Head(jobs).obj], "failed", 0)
        /\ UNCHANGED <<nobj, qstat, activeCount>>
    BY <1>6 DEF CatchEarly, RunJob, Attaches
  <2>2. /\ Head(jobs) \in Jobs
        /\ Tail(jobs) \in Seq(Jobs)
        /\ AttachesRunning(Tail(jobs), Running, heard)
        /\ AttachesOnce(Tail(jobs))
        /\ Head(jobs).obj \in Running \ heard
        /\ \A i \in 1..Len(Tail(jobs)) :
             Attaches(Tail(jobs)[i]) => Tail(jobs)[i].obj # Head(jobs).obj
    BY <2>1, TailSlots
  <2> DEFINE job == Job("attach", Head(jobs).obj)
             rest == Tail(jobs)
  <2>3. job \in Jobs /\ job.obj = Head(jobs).obj
    BY <2>2 DEF Job, Jobs, JobKinds
  <2>4. jobs' = <<job>> \o rest
    BY <2>1
  <2>5. /\ AttachesRunning(rest, Running, heard)
        /\ AttachesOnce(rest)
        /\ rest \in Seq(Jobs)
        /\ job.obj \in Running \ heard
        /\ \A i \in 1..Len(rest) : Attaches(rest[i]) => rest[i].obj # job.obj
    BY <2>2, <2>3
  <2> HIDE DEF job, rest
  <2>6. /\ Len(jobs') = Len(rest) + 1
        /\ Len(rest) \in Nat
        /\ jobs'[1] = job
        /\ \A i \in 1..Len(jobs') : i # 1 => i - 1 \in 1..Len(rest) /\ jobs'[i] = rest[i - 1]
    BY <2>3, <2>4, <2>5
  <2>7. AttachesRunning(jobs', Running, heard)
    BY <2>5, <2>6 DEF AttachesRunning
  <2>8. AttachesOnce(jobs')
    <3> SUFFICES ASSUME NEW i \in 1..Len(jobs'), NEW j \in 1..Len(jobs'),
                        Attaches(jobs'[i]), Attaches(jobs'[j]),
                        jobs'[i].obj = jobs'[j].obj
                 PROVE  i = j
      BY DEF AttachesOnce
    <3>1. CASE i # 1 /\ j # 1
      <4>1. i - 1 = j - 1
        BY <2>5, <2>6, <3>1 DEF AttachesOnce
      <4> QED
        BY <4>1
    <3>2. CASE i = 1 /\ j # 1
      BY <2>5, <2>6, <3>2
    <3>3. CASE j = 1 /\ i # 1
      BY <2>5, <2>6, <3>3
    <3> QED
      BY <3>1, <3>2, <3>3
  <2>9. emit'.who \cup listening' = heard /\ emit'.who \cap listening' = {}
    BY <1>5, <2>1
  <2> QED
    BY <1>2, <2>1, <2>7, <2>8, <2>9
<1>7. CASE Reject
  <2>1. /\ jobs # <<>>
        /\ jobs' = Append(Tail(jobs), Job("catch", Head(jobs).obj))
        /\ UNCHANGED <<nobj, qstat, activeCount, emit, listening>>
    BY <1>7 DEF Reject, RunJob
  <2>2. /\ Head(jobs) \in Jobs
        /\ Tail(jobs) \in Seq(Jobs)
        /\ AttachesRunning(Tail(jobs), Running, heard)
        /\ AttachesOnce(Tail(jobs))
    BY <2>1, TailSlots
  <2>3. /\ Job("catch", Head(jobs).obj) \in Jobs
        /\ ~Attaches(Job("catch", Head(jobs).obj))
    BY <2>2 DEF Job, Jobs, JobKinds, Attaches
  <2>4. AttachesRunning(jobs', Running, heard) /\ AttachesOnce(jobs')
    BY <2>1, <2>2, <2>3, AppendSlots
  <2>5. emit'.who \cup listening' = heard /\ emit'.who \cap listening' = {}
    BY <2>1 DEF SlotInv
  <2> QED
    BY <1>2, <2>1, <2>4, <2>5
<1>8. CASE Catch
  <2>1. /\ jobs # <<>>
        /\ emit = Silent
        /\ jobs' = Tail(jobs)
        /\ Emit(qtask[Head(jobs).obj], "failed", 0)
        /\ UNCHANGED <<nobj, qstat, activeCount>>
    BY <1>8 DEF Catch, RunJob
  <2>2. AttachesRunning(jobs', Running, heard) /\ AttachesOnce(jobs')
    BY <2>1, TailSlots
  <2>3. emit'.who \cup listening' = heard /\ emit'.who \cap listening' = {}
    BY <1>5, <2>1
  <2> QED
    BY <1>2, <2>1, <2>2, <2>3
<1> QED
  BY <1>1, <1>3, <1>4, <1>6, <1>7, <1>8 DEF EventLoop

LEMMA InitSlots == Init => SlotInv
<1> SUFFICES ASSUME Init PROVE SlotInv
  OBVIOUS
<1>1. Running = {} /\ emit.who = {} /\ listening = {} /\ jobs = <<>> /\ activeCount = 0
  BY SilentWho DEF Init, Running
<1>2. SlotAccounting
  BY <1>1, FS_EmptySet DEF SlotAccounting
<1>3. AttachesRunning(jobs, Running, emit.who \cup listening) /\ AttachesOnce(jobs)
  BY <1>1 DEF AttachesRunning, AttachesOnce
<1> QED
  BY <1>1, <1>2, <1>3 DEF Init, SlotInv

LEMMA NextSlots == ASSUME TypeOK, SlotInv, [Next]_vars PROVE SlotInv'
<1>1. ASSUME NEW t \in TaskIds, Request(t) PROVE SlotInv'
  BY <1>1, RequestSlots
<1>2. CASE CancelAll
  <2>1. /\ UNCHANGED <<nobj, listening, emit, jobs>>
        /\ CancelAllAtRunTime
        /\ activeCount' = 0
    BY <1>2 DEF CancelAll
  <2>2. qstat' = [o \in Objs |-> IF o \in InMap /\ qstat[o] = "queued"
                                 THEN "cancelled" ELSE qstat[o]]
    BY <1>2 DEF CancelAll
  <2>3. Running' = Running
    BY <2>2 DEF Running
  <2>4. \A o \in Objs : o > nobj' => qstat'[o] = "none"
    BY <2>1, <2>2 DEF SlotInv
  <2>5. Running = RunningIn(qstat)
    BY DEF Running, RunningIn
  <2>6. SlotAccounting'
    BY <2>1, <2>3, <2>5, RunningFinite DEF SlotAccounting
  <2> QED
    BY <2>1, <2>3, <2>4, <2>6 DEF SlotInv
<1>3. ASSUME NEW l \in Limits, SetMaxConcurrent(l) PROVE SlotInv'
  BY <1>3, SetMaxConcurrentSlots
<1>4. ASSUME UNCHANGED <<nobj, qstat, activeCount, listening, emit, jobs>>
      PROVE  SlotInv'
  <2>1. Running' = Running /\ \A o \in Objs : o > nobj' => qstat'[o] = "none"
    BY <1>4 DEF Running, SlotInv
  <2> QED
    BY <1>4, <2>1, SlotsKept
<1>5. ASSUME NEW o \in Objs, RetentionTimer(o) PROVE SlotInv'
  BY <1>4, <1>5 DEF RetentionTimer
<1>6. ASSUME NEW o \in Objs, SpawnRunner(o) PROVE SlotInv'
  BY <1>4, <1>6 DEF SpawnRunner
<1>7. ASSUME NEW o \in Objs, SpawnFails(o) PROVE SlotInv'
  <2>1. /\ jobs' = <<Job("catch", o)>>
        /\ UNCHANGED <<nobj, qstat, activeCount, listening, emit>>
    BY <1>7 DEF SpawnFails
  <2>2. \A i \in 1..Len(jobs') : ~Attaches(jobs'[i])
    BY <2>1 DEF Job, Attaches
  <2>3. Running' = Running
    BY <2>1 DEF Running
  <2>4. AttachesRunning(jobs', Running', emit'.who \cup listening') /\ AttachesOnce(jobs')
    BY <2>2 DEF AttachesRunning, AttachesOnce
  <2>5. SlotAccounting'
    BY <2>1, <2>3 DEF SlotInv, SlotAccounting
  <2> QED
    BY <2>1, <2>3, <2>4, <2>5 DEF SlotInv
<1>8. ASSUME NEW o \in Objs, NEW st \in Terminal, RunnerExit(o, st) PROVE SlotInv'
  <2>1. /\ emit = Silent
        /\ jobs = <<>>
        /\ Emit(qtask[o], st, IF st = "failed" THEN o ELSE 0)
        /\ UNCHANGED <<nobj, qstat, activeCount, jobs>>
    BY <1>8 DEF RunnerExit, Idle
  <2>2. /\ emit'.who \subseteq listening
        /\ listening' \subseteq listening
        /\ emit'.who \cap listening' = {}
    BY <2>1, EmitMoves
  <2>3. Running' = Running
    BY <2>1 DEF Running
  <2>4. AttachesRunning(jobs', Running', emit'.who \cup listening') /\ AttachesOnce(jobs')
    BY <2>1 DEF AttachesRunning, AttachesOnce
  <2>5. SlotAccounting'
    BY <2>1, <2>3 DEF SlotInv, SlotAccounting
  <2> QED
    BY <2>1, <2>2, <2>3, <2>4, <2>5 DEF SlotInv
<1>9. CASE EventLoop
  BY <1>9, EventLoopSlots
<1>10. CASE UNCHANGED vars
  BY <1>4, <1>10 DEF vars
<1> QED
  BY <1>1, <1>2, <1>3, <1>5, <1>6, <1>7, <1>8, <1>9, <1>10 DEF Next

\* The slots of the queue are released exactly once for every start, whatever
\* the order of exits, rejections, cancels, resumes and limit changes; a
\* "cancel all" can only make the count too small, never too large.
THEOREM SlotsExact == Spec => []SlotAccounting
<1>1. Init => TypeOK /\ SlotInv
  BY InitType, InitSlots
<1>2. TypeOK /\ SlotInv /\ [Next]_vars => (TypeOK /\ SlotInv)'
  BY NextType, NextSlots
<1>3. SlotInv => SlotAccounting
  BY DEF SlotInv
<1> QED
  BY <1>1, <1>2, <1>3, PTL DEF Spec

\* Types and slots together, for every call in every order.
THEOREM Counted == Spec => []SlotsCounted
BY TypeCorrect, SlotsExact, PTL DEF SlotsCounted

-----------------------------------------------------------------------------
(* What the queue knows of its runners, with the calls used as intended:   *)
(* single cancels, resumes of settled runs, an executor that is there.     *)

Ordinary == ~CancelAllAtRunTime /\ ~ResumeUnsettled /\ ~RunnerMissing

\* The microtasks of js, without their order.
Due(js) == {js[i] : i \in 1..Len(js)}

Ended(o) == xstat[o] \in {"exited", "aborted"}

\* The Map holds o under its own id.
InItsPlace(o) == qtask[o] \in TaskIds /\ tasks[qtask[o]] = o

\* Objects are numbered as they are created.
Numbered ==
  /\ \A o \in Objs : o > nobj => qtask[o] = NoTask /\ qstat[o] = "none"
  /\ \A o \in Objs : o <= nobj => qtask[o] \in TaskIds /\ qstat[o] # "none"

\* The Map holds every task that has not ended, and those it retains.
Placed ==
  /\ \A t \in TaskIds : tasks[t] # 0 => qtask[tasks[t]] = t
  /\ \A o \in Objs : qstat[o] \in Pending \/ o \in retain => InItsPlace(o)
  /\ \A o \in retain : qstat[o] \in Terminal

\* The first object of an id is the one its registration made: it is never
\* started, and it gives way only to the task that is enqueued for it.
First(o) == o <= nobj /\ \A p \in Objs : qtask[p] = qtask[o] => o <= p
Prepared ==
  \A o \in Objs : First(o) =>
    /\ qstat[o] \in {"preparing", "cancelled", "dropped"}
    /\ xstat[o] = "none"
    /\ o \notin retain
    /\ qstat[o] # "dropped" =>
         InItsPlace(o) /\ \A p \in Objs : qtask[p] = qtask[o] => p = o

Unstarted ==
  \A o \in Objs :
    qstat[o] \in {"none", "preparing", "queued", "dropped"} => xstat[o] = "none"

\* A runner belongs to a running task, whose listeners are attached or about
\* to be.
Watched ==
  \A o \in Live : o \in Running /\ (o \in listening \/ Job("attach", o) \in Due(jobs))

\* A running task has a runner, or the end of it is on its way to a listener.
Expected ==
  \A o \in Running :
    o \in Live \cup emit.who \/ (o \in listening /\ Job("catch", o) \in Due(jobs))

\* Whatever is reported or rejected has ended, and the Map holds it still.
Reported ==
  \A o \in Objs :
    /\ \/ o \in emit.who
       \/ o = emit.rej
       \/ \E k \in {"reject", "catch"} : Job(k, o) \in Due(jobs)
       => Ended(o) /\ InItsPlace(o)
    /\ Job("early", o) \notin Due(jobs)

Objects == Numbered /\ Placed /\ Prepared /\ Unstarted
Runners == Watched /\ Expected /\ Reported

\* The inductive invariant, with TypeOK and SlotInv.
Known == Objects /\ Runners

\* What microtasks are due after one was added or taken.
LEMMA DueAppend ==
  ASSUME NEW js \in Seq(Jobs), NEW job \in Jobs
  PROVE  Due(Append(js, job)) = Due(js) \cup {job}
<1>1. /\ Len(js) \in Nat
      /\ Len(Append(js, job)) = Len(js) + 1
      /\ \A i \in 1..Len(js) : Append(js, job)[i] = js[i]
      /\ Append(js, job)[Len(js) + 1] = job
  OBVIOUS
<1>2. \A i \in 1..(Len(js) + 1) : i \in 1..Len(js) \/ i = Len(js) + 1
  BY <1>1
<1>3. \A i \in 1..Len(js) : i \in 1..(Len(js) + 1)
  BY <1>1
<1>4. Len(js) + 1 \in 1..(Len(js) + 1)
  BY <1>1
<1> QED
  BY <1>1, <1>2, <1>3, <1>4 DEF Due

LEMMA DueTail ==
  ASSUME NEW js \in Seq(Jobs), js # <<>>
  PROVE  /\ Head(js) \in Jobs
         /\ Tail(js) \in Seq(Jobs)
         /\ Due(js) = Due(Tail(js)) \cup {Head(js)}
<1>1. /\ Head(js) \in Jobs
      /\ Tail(js) \in Seq(Jobs)
      /\ Head(js) = js[1]
      /\ Len(js) \in Nat \ {0}
      /\ Len(Tail(js)) = Len(js) - 1
      /\ \A i \in 1..Len(Tail(js)) : Tail(js)[i] = js[i + 1]
  OBVIOUS
<1>2. \A i \in 1..Len(js) : i = 1 \/ i - 1 \in 1..Len(Tail(js))
  BY <1>1
<1>3. \A i \in 1..Len(Tail(js)) : i + 1 \in 1..Len(js)
  BY <1>1
<1>4. \A i \in 1..Len(js) : js[i] = js[1] \/ js[i] = Tail(js)[i - 1]
  BY <1>1, <1>2
<1>5. 1 \in 1..Len(js)
  BY <1>1
<1> QED
  BY <1>1, <1>2, <1>3, <1>4, <1>5 DEF Due

LEMMA DueConcat ==
  ASSUME NEW js \in Seq(Jobs), NEW ks \in Seq(Jobs)
  PROVE  Due(js \o ks) = Due(js) \cup Due(ks)
<1>1. /\ Len(js) \in Nat
      /\ Len(ks) \in Nat
      /\ Len(js \o ks) = Len(js) + Len(ks)
      /\ \A i \in 1..(Len(js) + Len(ks)) :
           (js \o ks)[i] = IF i <= Len(js) THEN js[i] ELSE ks[i - Len(js)]
  OBVIOUS
<1>2. \A i \in 1..Len(js) : i \in 1..(Len(js) + Len(ks)) /\ (js \o ks)[i] = js[i]
  BY <1>1
<1>3. \A i \in 1..Len(ks) :
        /\ i + Len(js) \in 1..(Len(js) + Len(ks))
        /\ (js \o ks)[i + Len(js)] = ks[i]
  BY <1>1
<1>4. \A i \in 1..(Len(js) + Len(ks)) :
        \/ i \in 1..Len(js) /\ (js \o ks)[i] = js[i]
        \/ i - Len(js) \in 1..Len(ks) /\ (js \o ks)[i] = ks[i - Len(js)]
  BY <1>1
<1> QED
  BY <1>1, <1>2, <1>3, <1>4 DEF Due

LEMMA NothingDue == Due(<<>>) = {}
  BY DEF Due

\* A job is known by its kind and its object.
LEMMA JobsDiffer ==
  /\ \A k, l, o, p : Job(k, o) = Job(l, p) <=> k = l /\ o = p
  /\ \A k, o : Job(k, o).kind = k /\ Job(k, o).obj = o
  /\ \A job \in Jobs : job = Job(job.kind, job.obj)
<1>1. \A k, l, o, p : Job(k, o) = Job(l, p) <=> k = l /\ o = p
  BY DEF Job
<1>2. \A k, o : Job(k, o).kind = k /\ Job(k, o).obj = o
  BY DEF Job
<1>3. \A job \in Jobs : job = Job(job.kind, job.obj)
  BY DEF Job, Jobs
<1> QED
  BY <1>1, <1>2, <1>3

\* Launch: ProcessNext makes some queued objects of the Map running, with a runner
\* on its way and a microtask that will attach the listeners of each.
Launch(S, qs, js) ==
  /\ \A o \in S : qs[o] = "queued"
  /\ qstat' = [o \in Objs |-> IF o \in S THEN "running" ELSE qs[o]]
  /\ xstat' = [o \in Objs |-> IF o \in S THEN "pending" ELSE xstat[o]]
  /\ Due(jobs') = Due(js) \cup {Job("attach", o) : o \in S}

LEMMA ProcessNextLaunches ==
  ASSUME Ordinary,
         NEW ts, NEW ps, NEW qs, NEW active, NEW limit, NEW js,
         ArgsOK(ts, ps, qs, active, limit, js),
         ProcessNext(ts, ps, qs, active, limit, js)
  PROVE  tasks' = ts /\ \E S \in SUBSET Objs : Launch(S, qs, js)
<1> DEFINE S == Picked(ts, ps, qs, limit - active)
           N == Cardinality(S)
           Rank(o) == ps[CHOOSE t \in TaskIds : ts[t] = o]
<1>1. S \subseteq Objs /\ IsFiniteSet(S) /\ N \in Nat
  BY PickedQueued, PickedFinite DEF ArgsOK
<1>2. \A o \in S : qs[o] = "queued"
  BY PickedQueued DEF ArgsOK
<1>3. PICK order \in [1..N -> S], thrown \in SUBSET S :
        /\ \A i, j \in 1..N : i < j => Rank(order[i]) < Rank(order[j])
        /\ thrown # {} => RunnerMissing
        /\ xstat' = [o \in Objs |-> IF o \in thrown THEN "aborted"
                                    ELSE IF o \in S THEN "pending"
                                    ELSE xstat[o]]
        /\ jobs' = js \o [i \in 1..N |->
             Job(IF order[i] \in thrown THEN "early" ELSE "attach", order[i])]
  BY DEF ProcessNext
<1>4. thrown = {}
  BY <1>3 DEF Ordinary
<1>5. \A o \in S : Rank(o) \in Int
  <2>1. \A o \in S : \E t \in TaskIds : ts[t] = o
    BY PickedQueued DEF ArgsOK
  <2>2. ps \in [TaskIds -> Int]
    BY DEF ArgsOK
  <2> QED
    BY <2>1, <2>2
<1>6. \A i, j \in 1..N : order[i] = order[j] => i = j
  <2> SUFFICES ASSUME NEW i \in 1..N, NEW j \in 1..N, order[i] = order[j], i < j
               PROVE  FALSE
    BY <1>1
  <2>1. Rank(order[i]) < Rank(order[j]) /\ Rank(order[i]) = Rank(order[j])
    BY <1>3
  <2>2. Rank(order[i]) \in Int
    BY <1>5
  <2> HIDE DEF Rank
  <2> QED
    BY <2>1, <2>2
<1>7. /\ tasks' = ts
      /\ qstat' = [o \in Objs |-> IF o \in S THEN "running" ELSE qs[o]]
  BY DEF ProcessNext
<1>8. /\ xstat' = [o \in Objs |-> IF o \in S THEN "pending" ELSE xstat[o]]
      /\ jobs' = js \o [i \in 1..N |-> Job("attach", order[i])]
  BY <1>3, <1>4
<1>9. \A o \in S : \E i \in 1..N : order[i] = o
  <2>1. order \in Injection(1..N, S)
    BY <1>6 DEF Injection, IsInjective
  <2>2. IsFiniteSet(1..N) /\ Cardinality(1..N) = N
    BY <1>1, FS_Interval
  <2>3. order \in Surjection(1..N, S)
    BY <1>1, <2>1, <2>2, FS_Injection
  <2> QED
    BY <2>3 DEF Surjection
<1>10. \A i \in 1..N : order[i] \in S
  OBVIOUS
<1> HIDE DEF S, N, Rank
<1> DEFINE launched == [i \in 1..N |-> Job("attach", order[i])]
<1>11. launched \in Seq(Jobs) /\ Len(launched) = N
  <2>1. \A i \in 1..N : Job("attach", order[i]) \in Jobs
    BY <1>1, <1>10 DEF Job, Jobs, JobKinds
  <2> QED
    BY <1>1, <2>1
<1>12. Due(launched) = {Job("attach", o) : o \in S}
  <2>1. \A i \in 1..N : launched[i] = Job("attach", order[i])
    OBVIOUS
  <2> HIDE DEF launched
  <2>2. Due(launched) = {launched[i] : i \in 1..N}
    BY <1>11 DEF Due
  <2> QED
    BY <1>9, <1>10, <2>1, <2>2
<1>13. Due(jobs') = Due(js) \cup {Job("attach", o) : o \in S}
  <2>1. jobs' = js \o launched /\ js \in Seq(Jobs)
    BY <1>8 DEF ArgsOK
  <2> HIDE DEF launched
  <2> QED
    BY <1>11, <1>12, <2>1, DueConcat
<1>14. Launch(S, qs, js)
  BY <1>2, <1>7, <1>8, <1>13 DEF Launch
<1> QED
  BY <1>1, <1>7, <1>14

-----------------------------------------------------------------------------
(* Objects, the Map and what is retained.                                  *)

\* A step of the executor service or of the event loop leaves them alone.
LEMMA ObjectsKept ==
  ASSUME TypeOK, Objects,
         UNCHANGED <<nobj, qtask, qstat, tasks, retain>>,
         \A o \in Objs : xstat[o] = "none" => xstat'[o] = "none"
  PROVE  Objects'
<1>1. Numbered'
  BY DEF Objects, Numbered
<1>2. Placed'
  BY DEF Objects, Placed, InItsPlace
<1>3. Prepared'
  BY DEF Objects, Prepared, First, InItsPlace
<1>4. Unstarted'
  BY DEF Objects, Unstarted
<1> QED
  BY <1>1, <1>2, <1>3, <1>4 DEF Objects

\* Tasks are started, after at most one running task ended and was retained.
LEMMA ObjectsLaunched ==
  ASSUME TypeOK, Objects,
         UNCHANGED <<nobj, qtask, tasks>>,
         NEW qs \in [Objs -> QStatus], NEW ends \in SUBSET Running,
         retain' = retain \cup ends,
         \A o \in ends : qs[o] \in Terminal /\ xstat[o] # "none",
         \A o \in Objs : o \notin ends => qs[o] = qstat[o],
         NEW S \in SUBSET Objs, NEW js, Launch(S, qs, js)
  PROVE  Objects'
<1>1. /\ \A o \in S : qs[o] = "queued" /\ qstat[o] = "queued" /\ qstat'[o] = "running"
      /\ \A o \in Objs : o \notin S => qstat'[o] = qs[o] /\ xstat'[o] = xstat[o]
  BY DEF Launch, Terminal
<1>2. \A o \in ends : qstat[o] = "running" /\ qstat'[o] \in Terminal
  BY <1>1 DEF Running, Terminal
<1>3. \A o \in Objs : qstat'[o] # qstat[o] => o \in S \cup ends
  BY <1>1
<1>4. Numbered'
  BY <1>1, <1>2, <1>3 DEF Objects, Numbered, Terminal
<1>5. Placed'
  <2>1. \A o \in Objs : qstat'[o] \in Pending \/ o \in retain' => InItsPlace(o)
    BY <1>1, <1>2, <1>3 DEF Objects, Placed, Pending
  <2>2. \A o \in retain' : qstat'[o] \in Terminal
    BY <1>1, <1>2, <1>3 DEF Objects, Placed, Terminal, TypeOK
  <2> QED
    BY <2>1, <2>2 DEF Objects, Placed, InItsPlace
<1>6. Prepared'
  <2>1. \A o \in Objs : First(o) => o \notin S /\ o \notin ends
    BY <1>1, <1>2 DEF Objects, Prepared
  <2>2. \A o \in Objs : First(o) => o \notin retain' /\ qstat'[o] = qstat[o] /\ xstat'[o] = "none"
    BY <1>1, <2>1 DEF Objects, Prepared
  <2> QED
    BY <2>2 DEF Objects, Prepared, First, InItsPlace
<1>7. Unstarted'
  BY <1>1, <1>2 DEF Objects, Unstarted, Terminal
<1> QED
  BY <1>4, <1>5, <1>6, <1>7 DEF Objects

\* An object that is not retained is cancelled, and may leave the Map.
LEMMA ObjectsCancelled ==
  ASSUME TypeOK, Objects, NEW o \in Objs, qstat[o] \in {"preparing", "queued"},
         qstat' = [qstat EXCEPT ![o] = "cancelled"],
         \/ tasks' = tasks
         \/ qstat[o] = "queued" /\ tasks' = [tasks EXCEPT ![qtask[o]] = 0],
         UNCHANGED <<nobj, qtask, retain, xstat>>
  PROVE  Objects'
<1>1. InItsPlace(o) /\ xstat[o] = "none"
  BY DEF Objects, Placed, Unstarted, Pending
<1>10. o \notin retain
  BY DEF Objects, Placed, Terminal
<1>2. Numbered'
  BY DEF Objects, Numbered, TypeOK
<1>3. \A p \in Objs : p # o => qstat'[p] = qstat[p]
  BY DEF TypeOK
<1>4. qstat'[o] = "cancelled"
  BY DEF TypeOK
<1>5. tasks' = tasks \/ (qstat[o] = "queued" /\ ~First(o))
  BY DEF Objects, Prepared
<1>6. \A p \in Objs : p # o /\ InItsPlace(p) => InItsPlace(p)'
  BY <1>1 DEF InItsPlace, TypeOK
<1>7. Placed'
  <2>1. \A t \in TaskIds : tasks'[t] # 0 => qtask'[tasks'[t]] = t
    BY <1>1 DEF Objects, Placed, TypeOK, InItsPlace
  <2>2. \A p \in Objs : qstat'[p] \in Pending \/ p \in retain' => InItsPlace(p)'
    BY <1>3, <1>4, <1>6, <1>10 DEF Objects, Placed, Pending
  <2>3. \A p \in retain' : qstat'[p] \in Terminal
    BY <1>3, <1>10 DEF Objects, Placed, TypeOK
  <2> QED
    BY <2>1, <2>2, <2>3 DEF Placed
<1>8. Prepared'
  <2> SUFFICES ASSUME NEW p \in Objs, First(p)
               PROVE  /\ qstat'[p] \in {"preparing", "cancelled", "dropped"}
                      /\ qstat'[p] # "dropped" => InItsPlace(p)'
    BY DEF Objects, Prepared, First
  <2> QED
    BY <1>1, <1>3, <1>4, <1>5, <1>6 DEF Objects, Prepared, First, InItsPlace
<1>9. Unstarted'
  BY <1>3, <1>4 DEF Objects, Unstarted
<1> QED
  BY <1>2, <1>7, <1>8, <1>9 DEF Objects

\* What a new object finds in its place.
LEMMA NewObject ==
  ASSUME TypeOK, Objects, nobj < MaxObjs
  PROVE  /\ nobj + 1 \in Objs
         /\ qtask[nobj + 1] = NoTask /\ qstat[nobj + 1] = "none" /\ xstat[nobj + 1] = "none"
         /\ nobj + 1 \notin retain
         /\ \A o \in Objs : o <= nobj + 1 <=> o <= nobj \/ o = nobj + 1
         /\ \A o \in Objs : o <= nobj => o # nobj + 1
<1>1. nobj + 1 \in Objs /\ nobj + 1 > nobj /\ nobj \in Nat
  BY ConstantsAssumption DEF TypeOK, Objs
<1>2. qtask[nobj + 1] = NoTask /\ qstat[nobj + 1] = "none"
  BY <1>1 DEF Objects, Numbered
<1>3. xstat[nobj + 1] = "none" /\ nobj + 1 \notin retain
  BY <1>1, <1>2 DEF Objects, Placed, Unstarted, Terminal
<1>4. \A o \in Objs : (o <= nobj + 1 <=> o <= nobj \/ o = nobj + 1)
                      /\ (o <= nobj => o # nobj + 1)
  BY <1>1 DEF Objs
<1> QED
  BY <1>1, <1>2, <1>3, <1>4

LEMMA ObjectsRegistered ==
  ASSUME TypeOK, Objects, NEW t \in TaskIds, RegisterPreparing(t)
  PROVE  Objects'
<1> PICK n : n = nobj + 1
  OBVIOUS
<1>1. /\ n \in Objs
      /\ qtask[n] = NoTask /\ qstat[n] = "none" /\ xstat[n] = "none"
      /\ n \notin retain
      /\ \A o \in Objs : o <= n <=> o <= nobj \/ o = n
      /\ \A o \in Objs : o <= nobj => o # n
  BY NewObject DEF RegisterPreparing
<1>2. /\ nobj' = n
      /\ qtask' = [qtask EXCEPT ![n] = t]
      /\ qstat' = [qstat EXCEPT ![n] = "preparing"]
      /\ tasks' = [tasks EXCEPT ![t] = n]
      /\ UNCHANGED <<retain, xstat>>
      /\ \A o \in 1..nobj : qtask[o] # t
  BY DEF RegisterPreparing
<1>3. \A o \in Objs : qtask[o] # t
  <2>1. \A o \in Objs : o > nobj => qtask[o] # t
    BY ConstantsAssumption DEF Objects, Numbered
  <2>2. \A o \in Objs : o > nobj \/ o \in 1..nobj
    BY DEF Objs, TypeOK
  <2> QED
    BY <1>2, <2>1, <2>2
<1>4. /\ qtask'[n] = t /\ qstat'[n] = "preparing" /\ tasks'[t] = n
      /\ \A o \in Objs : o # n => qtask'[o] = qtask[o] /\ qstat'[o] = qstat[o]
      /\ \A u \in TaskIds : u # t => tasks'[u] = tasks[u]
  BY <1>1, <1>2 DEF TypeOK
<1>5. \A o \in Objs : InItsPlace(o) => o # n /\ InItsPlace(o)'
  BY <1>1, <1>3, <1>4, ConstantsAssumption DEF InItsPlace
<1>6. InItsPlace(n)'
  BY <1>4 DEF InItsPlace
<1>7. Numbered'
  <2>1. \A o \in Objs : o > nobj' => o > nobj /\ o # n
    BY <1>1, <1>2 DEF TypeOK, Objs
  <2> QED
    BY <1>1, <1>2, <1>4, <2>1 DEF Objects, Numbered
<1>8. Placed'
  <2>1. \A o \in Objs : qstat'[o] \in Pending \/ o \in retain' => InItsPlace(o)'
    BY <1>2, <1>4, <1>5, <1>6 DEF Objects, Placed
  <2>2. \A u \in TaskIds : tasks'[u] # 0 => qtask'[tasks'[u]] = u
    <3>1. \A u \in TaskIds : tasks[u] # 0 => tasks[u] \in Objs
      BY ConstantsAssumption DEF TypeOK, Objs
    <3> QED
      BY <1>1, <1>4, <3>1, ConstantsAssumption DEF Objects, Placed
  <2>3. \A o \in retain' : qstat'[o] \in Terminal
    BY <1>1, <1>2, <1>4 DEF Objects, Placed, TypeOK
  <2> QED
    BY <2>1, <2>2, <2>3 DEF Placed
<1>9. Prepared'
  <2>1. \A o \in Objs : o # n /\ First(o)' => First(o)
    BY <1>1, <1>2, <1>3, <1>4 DEF First
  <2>2. \A p \in Objs : qtask'[p] = qtask'[n] => p = n
    BY <1>3, <1>4
  <2>3. \A o \in Objs : o # n => qtask'[n] # qtask'[o]
    BY <1>3, <1>4
  <2>4. n \notin retain' /\ xstat'[n] = "none"
    BY <1>1, <1>2
  <2>5. \A o \in Objs : o # n /\ First(o)' =>
          /\ qstat'[o] \in {"preparing", "cancelled", "dropped"}
          /\ xstat'[o] = "none"
          /\ o \notin retain'
          /\ qstat'[o] # "dropped" =>
               InItsPlace(o)' /\ \A p \in Objs : qtask'[p] = qtask'[o] => p = o
    BY <1>1, <1>2, <1>4, <1>5, <2>1, <2>3 DEF Objects, Prepared
  <2> QED
    BY <1>4, <1>6, <2>2, <2>4, <2>5 DEF Prepared
<1>10. Unstarted'
  BY <1>1, <1>2, <1>4 DEF Objects, Unstarted
<1> QED
  BY <1>7, <1>8, <1>9, <1>10 DEF Objects

\* What enqueue does to the objects: its own is queued, a prepared one of
\* its id is dropped.
Enqueued(t, n, qs) ==
  /\ qs[n] = "queued"
  /\ \A o \in Objs : o # n =>
       qs[o] = IF qtask[o] = t /\ qstat[o] \in {"preparing", "queued"}
               THEN "dropped" ELSE qstat[o]

LEMMA EnqueueLaunches ==
  ASSUME Ordinary, TypeOK, Objects, NEW t \in TaskIds, enqueue(t)
  PROVE  /\ nobj < MaxObjs
         /\ nobj' = nobj + 1
         /\ qtask' = [qtask EXCEPT ![nobj + 1] = t]
         /\ tasks' = [tasks EXCEPT ![t] = nobj + 1]
         /\ UNCHANGED <<maxConcurrent, retain, listening, emit>>
         /\ \E qs \in [Objs -> QStatus], S \in SUBSET Objs :
              Enqueued(t, nobj + 1, qs) /\ Launch(S, qs, jobs)
<1> DEFINE n == nobj + 1
           ts == [tasks EXCEPT ![t] = n]
           qs == [o \in Objs |->
                    IF o = n THEN "queued"
                    ELSE IF qtask[o] = t /\ qstat[o] \in {"preparing", "queued"}
                    THEN "dropped"
                    ELSE qstat[o]]
<1>1. n \in 1..MaxObjs /\ n \in Objs /\ n \in 0..MaxObjs
  BY ConstantsAssumption DEF TypeOK, enqueue, Objs
<1>2. ts \in [TaskIds -> 0..MaxObjs] /\ NewPos(t, n) \in [TaskIds -> 0..MaxObjs]
  BY <1>1 DEF TypeOK, NewPos
<1>3. qs \in [Objs -> QStatus]
  BY DEF TypeOK, QStatus, Pending
<1>4. ArgsOK(ts, NewPos(t, n), qs, activeCount, maxConcurrent, jobs)
  BY <1>2, <1>3 DEF ArgsOK, TypeOK, Jobs
<1>5. ProcessNext(ts, NewPos(t, n), qs, activeCount, maxConcurrent, jobs)
  BY DEF enqueue
<1>6. Enqueued(t, n, qs)
  BY <1>1 DEF Enqueued
<1>7. /\ nobj < MaxObjs
      /\ nobj' = n
      /\ qtask' = [qtask EXCEPT ![n] = t]
      /\ UNCHANGED <<maxConcurrent, retain, listening, emit>>
  BY DEF enqueue
<1> HIDE DEF ts, qs
<1>8. tasks' = ts /\ \E S \in SUBSET Objs : Launch(S, qs, jobs)
  BY <1>4, <1>5, ProcessNextLaunches
<1>9. tasks' = [tasks EXCEPT ![t] = n]
  BY <1>8 DEF ts
<1> QED
  BY <1>3, <1>6, <1>7, <1>8, <1>9

\* The callers of enqueue: an id that was registered, and none of whose objects
\* is queued, runs or is retained.
Ready(t) ==
  /\ \E o \in Objs : o <= nobj /\ qtask[o] = t
  /\ \A o \in Objs : qtask[o] = t => o \notin retain /\ qstat[o] \notin {"queued", "running"}
  /\ ~Refused(t)

LEMMA ReadyToEnqueue ==
  ASSUME Ordinary, TypeOK, Objects, NEW t \in TaskIds, enqueue(t),
         EnqueuePrepared(t) \/ Resume(t)
  PROVE  Ready(t)
<1>1. \A o \in Objs : qtask[o] = t => o <= nobj
  BY ConstantsAssumption DEF Objects, Numbered, TypeOK, Objs
<1>2. CASE EnqueuePrepared(t)
  <2> DEFINE own == {o \in Objs : qtask[o] = t}
  <2>1. Cardinality(own) = 1
    BY <1>2 DEF EnqueuePrepared
  <2>2. IsFiniteSet(own)
    BY ObjsFinite, FS_Subset
  <2>3. PICK o : own = {o}
    BY <2>1, <2>2, FS_Singleton
  <2>4. o \in Objs /\ qtask[o] = t /\ o <= nobj /\ \A p \in Objs : qtask[p] = t => p = o
    BY <1>1, <2>3
  <2>5. First(o)
    BY <2>4 DEF First, Objs
  <2> QED
    BY <2>4, <2>5 DEF Ready, Objects, Prepared, enqueue
<1>3. CASE Resume(t)
  <2>1. Settled(t) /\ \E o \in Objs : qtask[o] = t
    BY <1>3 DEF Resume, Ordinary, HasCheckpoint
  <2> QED
    BY <1>1, <2>1 DEF Ready, Settled, Pending, enqueue
<1> QED
  BY <1>2, <1>3

LEMMA ObjectsEnqueued ==
  ASSUME Ordinary, TypeOK, Objects, NEW t \in TaskIds, enqueue(t), Ready(t)
  PROVE  Objects'
<1> PICK n : n = nobj + 1
  OBVIOUS
<1>1. /\ nobj < MaxObjs
      /\ nobj' = n
      /\ qtask' = [qtask EXCEPT ![n] = t]
      /\ tasks' = [tasks EXCEPT ![t] = n]
      /\ retain' = retain
  BY EnqueueLaunches
<1>2. /\ n \in Objs
      /\ qtask[n] = NoTask /\ qstat[n] = "none" /\ xstat[n] = "none"
      /\ n \notin retain
      /\ \A o \in Objs : o <= n <=> o <= nobj \/ o = n
      /\ \A o \in Objs : o <= nobj => o # n
  BY <1>1, NewObject
<1>3. PICK qs \in [Objs -> QStatus], S \in SUBSET Objs :
        Enqueued(t, n, qs) /\ Launch(S, qs, jobs)
  BY EnqueueLaunches
<1>4. /\ qtask'[n] = t /\ tasks'[t] = n
      /\ \A o \in Objs : o # n => qtask'[o] = qtask[o]
      /\ \A u \in TaskIds : u # t => tasks'[u] = tasks[u]
  BY <1>1, <1>2 DEF TypeOK
<1>5. \A o \in Objs : o # n =>
        \/ /\ qtask[o] = t /\ qstat[o] \in {"preparing", "queued"}
           /\ qstat'[o] = "dropped" /\ xstat'[o] = xstat[o]
        \/ /\ qtask[o] # t /\ qstat[o] = "queued"
           /\ qstat'[o] = "running"
        \/ /\ qstat'[o] = qstat[o] /\ xstat'[o] = xstat[o]
           /\ qtask[o] = t => qstat[o] \notin Pending
  BY <1>3 DEF Enqueued, Launch, Ready, Pending
<1>6. qstat'[n] \in {"queued", "running"} /\ (qstat'[n] = "queued" => xstat'[n] = "none")
  BY <1>2, <1>3 DEF Enqueued, Launch
<1>7. \A o \in Objs : o # n /\ qtask[o] # t =>
        /\ InItsPlace(o) => InItsPlace(o)'
        /\ qstat[o] \in Pending <=> qstat'[o] \in Pending
  BY <1>4, <1>5 DEF InItsPlace, Pending
<1>8. InItsPlace(n)'
  BY <1>4 DEF InItsPlace
<1>9. \A o \in Objs : o # n /\ qtask[o] = t => qstat'[o] \notin Pending /\ o \notin retain
  BY <1>5 DEF Ready, Pending
<1>10. Numbered'
  <2>1. \A o \in Objs : o > nobj' => o > nobj /\ o # n
    BY <1>1, <1>2 DEF TypeOK, Objs
  <2>2. \A o \in Objs : o > nobj' => qtask'[o] = NoTask /\ qstat'[o] = "none"
    BY <1>4, <1>5, <2>1 DEF Objects, Numbered
  <2>3. \A o \in Objs : o <= nobj' => qtask'[o] \in TaskIds /\ qstat'[o] # "none"
    BY <1>1, <1>2, <1>4, <1>5, <1>6 DEF Objects, Numbered
  <2> QED
    BY <2>2, <2>3 DEF Numbered
<1>11. Placed'
  <2>1. \A o \in Objs : qstat'[o] \in Pending \/ o \in retain' => InItsPlace(o)'
    BY <1>1, <1>7, <1>8, <1>9 DEF Objects, Placed
  <2>2. \A u \in TaskIds : tasks'[u] # 0 => qtask'[tasks'[u]] = u
    <3>1. \A u \in TaskIds : tasks[u] # 0 => tasks[u] \in Objs
      BY ConstantsAssumption DEF TypeOK, Objs
    <3> QED
      BY <1>2, <1>4, <3>1, ConstantsAssumption DEF Objects, Placed
  <2>3. \A o \in retain' : o # n /\ qstat'[o] \in Terminal
    BY <1>1, <1>2, <1>5 DEF Objects, Placed, Terminal, TypeOK
  <2> QED
    BY <2>1, <2>2, <2>3 DEF Placed
<1>12. Prepared'
  <2>1. ~First(n)'
    <3>1. PICK o \in Objs : o <= nobj /\ qtask[o] = t
      BY DEF Ready
    <3>2. o # n /\ qtask'[o] = qtask'[n] /\ o < n
      BY <1>2, <1>4, <3>1 DEF TypeOK, Objs
    <3> QED
      BY <1>2, <3>1, <3>2 DEF First, Objs
  <2>2. \A o \in Objs : o # n /\ First(o)' => First(o)
    <3> SUFFICES ASSUME NEW o \in Objs, o # n, First(o)' PROVE First(o)
      OBVIOUS
    <3>1. o <= nobj
      BY <1>1, <1>2 DEF First
    <3>2. \A p \in Objs : qtask[p] = qtask[o] => p # n
      BY <1>2, <3>1, ConstantsAssumption DEF Objects, Numbered
    <3> QED
      BY <1>4, <3>1, <3>2 DEF First
  <2>3. \A o \in Objs : o # n /\ First(o) =>
          /\ qstat'[o] \in {"preparing", "cancelled", "dropped"}
          /\ xstat'[o] = "none"
          /\ o \notin retain'
    BY <1>1, <1>5 DEF Objects, Prepared
  <2>4. \A o \in Objs : First(o) /\ qtask[o] = t => qstat[o] # "cancelled"
    <3>1. \A o \in Objs : InItsPlace(o) /\ qtask[o] = t => EntryStatus(t) = qstat[o]
      BY DEF InItsPlace, EntryStatus, Objs
    <3>2. EntryStatus(t) # "cancelled"
      BY DEF Ready, Refused
    <3> QED
      BY <3>1, <3>2 DEF Objects, Prepared
  <2>5. \A o \in Objs : o # n /\ First(o) /\ qtask[o] = t => qstat'[o] = "dropped"
    BY <1>5, <2>4 DEF Objects, Prepared, Pending
  <2>6. \A o \in Objs : o # n /\ First(o) /\ qtask[o] # t /\ qstat'[o] # "dropped" =>
          InItsPlace(o)' /\ \A p \in Objs : qtask'[p] = qtask'[o] => p = o
    <3> SUFFICES ASSUME NEW o \in Objs, o # n, First(o), qtask[o] # t, qstat'[o] # "dropped"
                 PROVE  InItsPlace(o)' /\ \A p \in Objs : qtask'[p] = qtask'[o] => p = o
      OBVIOUS
    <3>1. qstat[o] \in {"preparing", "cancelled", "dropped"}
      BY DEF Objects, Prepared
    <3>2. qstat[o] # "dropped"
      BY <1>5, <3>1
    <3>3. InItsPlace(o) /\ \A p \in Objs : qtask[p] = qtask[o] => p = o
      BY <3>2 DEF Objects, Prepared
    <3> QED
      BY <1>4, <1>7, <3>3
  <2> QED
    BY <2>1, <2>2, <2>3, <2>5, <2>6 DEF Prepared
<1>13. Unstarted'
  BY <1>5, <1>6 DEF Objects, Unstarted
<1> QED
  BY <1>10, <1>11, <1>12, <1>13 DEF Objects

\* The retention of a task ends: its entry was its own.
LEMMA ObjectsReleased ==
  ASSUME TypeOK, Objects, NEW o \in Objs, RetentionTimer(o)
  PROVE  Objects'
<1>1. /\ o \in retain
      /\ retain' = retain \ {o}
      /\ tasks' = [tasks EXCEPT ![qtask[o]] = 0]
      /\ UNCHANGED <<nobj, qtask, qstat, xstat>>
  BY DEF RetentionTimer
<1>2. InItsPlace(o) /\ qstat[o] \in Terminal /\ ~First(o)
  BY <1>1 DEF Objects, Placed, Prepared
<1>3. \A p \in Objs : p # o /\ InItsPlace(p) => InItsPlace(p)'
  BY <1>1, <1>2 DEF InItsPlace, TypeOK
<1>4. Numbered'
  BY <1>1 DEF Objects, Numbered
<1>5. Placed'
  <2>1. \A p \in Objs : qstat'[p] \in Pending \/ p \in retain' => InItsPlace(p)'
    BY <1>1, <1>2, <1>3 DEF Objects, Placed, Pending, Terminal
  <2>2. \A u \in TaskIds : tasks'[u] # 0 => qtask'[tasks'[u]] = u
    BY <1>1, <1>2 DEF Objects, Placed, TypeOK, InItsPlace
  <2>3. \A p \in retain' : qstat'[p] \in Terminal
    BY <1>1 DEF Objects, Placed
  <2> QED
    BY <2>1, <2>2, <2>3 DEF Placed
<1>6. Prepared'
  <2>1. \A p \in Objs : First(p)' => First(p) /\ p # o
    BY <1>1, <1>2 DEF First
  <2> QED
    BY <1>1, <1>3, <2>1 DEF Objects, Prepared
<1>7. Unstarted'
  BY <1>1 DEF Objects, Unstarted
<1> QED
  BY <1>4, <1>5, <1>6, <1>7 DEF Objects

-----------------------------------------------------------------------------
(* Runners, listeners and the microtasks between them.                     *)

LEMMA Quiet ==
  ASSUME Idle
  PROVE  emit.who = {} /\ emit.rej = 0 /\ jobs = <<>> /\ Due(jobs) = {}
BY NothingDue DEF Idle, Silent, Emitting

LEMMA ObjsPositive == 0 \notin Objs
BY DEF Objs

\* A call that neither starts a task nor ends a runner.
LEMMA RunnersKept ==
  ASSUME TypeOK, Runners, Idle, UNCHANGED <<listening, emit, jobs>>,
         Running' = Running, Live' = Live
  PROVE  Runners'
<1>1. Watched'
  BY DEF Runners, Watched
<1>2. Expected'
  BY DEF Runners, Expected
<1>3. Reported'
  BY Quiet, ObjsPositive DEF Reported
<1> QED
  BY <1>1, <1>2, <1>3 DEF Runners

\* Tasks are started, after those of ends were reported.
LEMMA RunnersLaunched ==
  ASSUME TypeOK, Runners,
         NEW ends \in SUBSET emit.who, NEW S \in SUBSET Objs,
         emit'.who = emit.who \ ends, emit'.rej = emit.rej, listening' = listening,
         Running' = (Running \ ends) \cup S,
         Live' = Live \cup S,
         \A o \in Objs : Ended(o) => Ended(o)',
         Due(jobs') = Due(jobs) \cup {Job("attach", o) : o \in S},
         Idle \/ UNCHANGED <<qtask, tasks>>
  PROVE  Runners'
<1>1. \A o \in ends : o \notin Live
  BY DEF Runners, Reported, Ended, Live, TypeOK
<1>2. Watched'
  BY <1>1 DEF Runners, Watched
<1>3. Expected'
  BY DEF Runners, Expected
<1>4. \A o \in Objs : /\ \A k \in {"reject", "catch", "early"} :
                           Job(k, o) \in Due(jobs') => Job(k, o) \in Due(jobs)
                      /\ o \in emit'.who => o \in emit.who
  BY JobsDiffer
<1>5. Reported'
  <2>1. CASE Idle
    BY <1>4, <2>1, Quiet, ObjsPositive DEF Reported
  <2>2. CASE UNCHANGED <<qtask, tasks>>
    <3>1. \A o \in Objs : InItsPlace(o) => InItsPlace(o)'
      BY <2>2 DEF InItsPlace
    <3> QED
      BY <1>4, <3>1 DEF Runners, Reported
  <2> QED
    BY <2>1, <2>2
<1> QED
  BY <1>2, <1>3, <1>5 DEF Runners

\* What ProcessNext does, seen from the runners.
LEMMA LaunchedRunners ==
  ASSUME TypeOK, Unstarted,
         NEW qs \in [Objs -> QStatus], NEW S \in SUBSET Objs, Launch(S, qs, jobs),
         \A o \in Objs : qs[o] = "queued" => qstat[o] \in {"none", "queued"}
  PROVE  /\ Running' = RunningIn(qs) \cup S
         /\ Live' = Live \cup S
         /\ \A o \in Objs : Ended(o) => Ended(o)'
         /\ Due(jobs') = Due(jobs) \cup {Job("attach", o) : o \in S}
<1>1. \A o \in S : qs[o] = "queued" /\ xstat[o] = "none"
  BY DEF Launch, Unstarted
<1>2. /\ \A o \in S : qstat'[o] = "running" /\ xstat'[o] = "pending"
      /\ \A o \in Objs : o \notin S => qstat'[o] = qs[o] /\ xstat'[o] = xstat[o]
  BY DEF Launch
<1>3. Running' = RunningIn(qs) \cup S
  BY <1>2 DEF Running, RunningIn
<1>4. Live' = Live \cup S
  BY <1>1, <1>2 DEF Live
<1>5. \A o \in Objs : Ended(o) => Ended(o)'
  BY <1>1, <1>2 DEF Ended
<1> QED
  BY <1>3, <1>4, <1>5 DEF Launch

LEMMA SpawnFailsRunners ==
  ASSUME TypeOK, Placed, Runners, NEW o \in Objs, SpawnFails(o)
  PROVE  Runners'
<1>1. /\ Idle
      /\ o \in Live
      /\ xstat' = [xstat EXCEPT ![o] = "aborted"]
      /\ jobs' = <<Job("catch", o)>>
      /\ UNCHANGED <<qtask, qstat, tasks, listening, emit>>
  BY DEF SpawnFails, Live
<1>2. emit.who = {} /\ emit.rej = 0 /\ Due(jobs) = {}
  BY <1>1, Quiet
<1>3. Due(jobs') = {Job("catch", o)}
  <2>1. jobs' = Append(<<>>, Job("catch", o)) /\ <<>> \in Seq(Jobs) /\ Job("catch", o) \in Jobs
    BY <1>1 DEF Job, Jobs, JobKinds
  <2> QED
    BY <2>1, DueAppend, NothingDue
<1>4. Running' = Running /\ Live' = Live \ {o} /\ Ended(o)'
  BY <1>1 DEF Running, Live, Ended, TypeOK
<1>5. o \in Running /\ \A p \in Live : p \in listening
  BY <1>1, <1>2 DEF Runners, Watched
<1>6. InItsPlace(o) /\ InItsPlace(o)'
  BY <1>1, <1>5 DEF Placed, Running, Pending, InItsPlace
<1>7. Watched'
  BY <1>1, <1>4, <1>5 DEF Runners, Watched
<1>8. Expected'
  BY <1>1, <1>2, <1>3, <1>4, <1>5 DEF Runners, Expected
<1>9. Reported'
  BY <1>1, <1>2, <1>3, <1>4, <1>6, JobsDiffer, ObjsPositive DEF Reported
<1> QED
  BY <1>7, <1>8, <1>9 DEF Runners

\* The end of o is reported to the listeners of its id: they are those of o.
LEMMA EmitRunners ==
  ASSUME TypeOK, SlotInv, Placed, Runners, emit = Silent,
         NEW o \in Objs, NEW st, NEW rej \in {0, o},
         Emit(qtask[o], st, rej),
         InItsPlace(o), Ended(o)', o \in Running => o \in listening,
         UNCHANGED <<qtask, qstat, tasks>>,
         Live' = Live \ {o},
         \A p \in Objs : Ended(p) => Ended(p)',
         \A job \in Due(jobs') : job \in Due(jobs),
         \A job \in Due(jobs) : job = Job("catch", o) \/ job \in Due(jobs')
  PROVE  Runners'
<1>1. emit.who = {} /\ emit.rej = 0
  BY DEF Silent, Emitting
<1>2. /\ emit'.who = {p \in listening : qtask[p] = qtask[o]}
      /\ emit'.rej = rej
      /\ listening' = listening \ emit'.who
  BY DEF Emit, Emitting
<1>3. \A p \in listening : p \in Running /\ p \in Objs /\ InItsPlace(p)
  BY DEF SlotInv, Placed, Running, Pending
<1>4. \A p \in emit'.who : p = o
  BY <1>2, <1>3 DEF InItsPlace
<1>5. Running' = Running
  BY DEF Running
<1>6. Watched'
  <2> SUFFICES ASSUME NEW p \in Live'
               PROVE  p \in Running' /\ (p \in listening' \/ Job("attach", p) \in Due(jobs'))
    BY DEF Watched
  <2>1. p \in Live /\ p # o
    OBVIOUS
  <2>2. p \in Running /\ (p \in listening \/ Job("attach", p) \in Due(jobs))
    BY <2>1 DEF Runners, Watched
  <2>3. Job("attach", p) # Job("catch", o)
    BY JobsDiffer
  <2> QED
    BY <1>2, <1>4, <1>5, <2>1, <2>2, <2>3
<1>7. Expected'
  <2> SUFFICES ASSUME NEW p \in Running
               PROVE  p \in Live' \cup emit'.who
                        \/ (p \in listening' /\ Job("catch", p) \in Due(jobs'))
    BY <1>5 DEF Expected
  <2>1. CASE p = o
    BY <1>2, <2>1
  <2>2. CASE p # o
    <3>1. Job("catch", p) # Job("catch", o)
      BY <2>2, JobsDiffer
    <3>2. p \in Live \/ (p \in listening /\ Job("catch", p) \in Due(jobs))
      BY <1>1 DEF Runners, Expected
    <3> QED
      BY <1>2, <1>4, <2>2, <3>1, <3>2
  <2> QED
    BY <2>1, <2>2
<1>8. Reported'
  <2>1. \A p \in Objs : InItsPlace(p) => InItsPlace(p)'
    BY DEF InItsPlace
  <2> QED
    BY <1>2, <1>4, <2>1, ObjsPositive DEF Runners, Reported
<1> QED
  BY <1>6, <1>7, <1>8 DEF Runners

\* A microtask is taken or added.
LEMMA JobRunners ==
  ASSUME TypeOK, Runners, UNCHANGED <<qtask, qstat, tasks, xstat>>,
         emit'.who = emit.who, listening \subseteq listening',
         \A o \in Objs : Job("attach", o) \in Due(jobs) =>
                           o \in listening' \/ Job("attach", o) \in Due(jobs'),
         \A o \in Objs : Job("catch", o) \in Due(jobs) => Job("catch", o) \in Due(jobs'),
         \A o \in Objs :
            \/ o = emit'.rej
            \/ \E k \in {"reject", "catch"} : Job(k, o) \in Due(jobs')
            => \/ o = emit.rej
               \/ \E k \in {"reject", "catch"} : Job(k, o) \in Due(jobs),
         \A o \in Objs : Job("early", o) \in Due(jobs') => Job("early", o) \in Due(jobs)
  PROVE  Runners'
<1>1. Running' = Running /\ Live' = Live
  BY DEF Running, Live
<1>2. Live \subseteq Objs /\ Running \subseteq Objs
  BY DEF Running, Live
<1>3. Watched'
  BY <1>1, <1>2 DEF Runners, Watched
<1>4. Expected'
  BY <1>1, <1>2 DEF Runners, Expected
<1>5. Reported'
  BY DEF Runners, Reported, InItsPlace, Ended
<1> QED
  BY <1>3, <1>4, <1>5 DEF Runners

-----------------------------------------------------------------------------
(* Every step keeps what is known.                                         *)

LEMMA EnqueueKnown ==
  ASSUME Ordinary, TypeOK, SlotInv, Known, NEW t \in TaskIds,
         EnqueuePrepared(t) \/ Resume(t)
  PROVE  Known'
<1>1. Idle /\ enqueue(t)
  BY DEF EnqueuePrepared, Resume
<1>2. Ready(t)
  BY <1>1, ReadyToEnqueue DEF Known
<1>3. Objects'
  BY <1>1, <1>2, ObjectsEnqueued DEF Known
<1>4. PICK n : n = nobj + 1
  OBVIOUS
<1>5. n \in Objs /\ qstat[n] = "none" /\ UNCHANGED <<listening, emit>>
  BY <1>1, <1>4, NewObject, EnqueueLaunches DEF Known
<1>6. PICK qs \in [Objs -> QStatus], S \in SUBSET Objs :
        Enqueued(t, n, qs) /\ Launch(S, qs, jobs)
  BY <1>1, <1>4, EnqueueLaunches DEF Known
<1>7. /\ RunningIn(qs) = Running
      /\ \A o \in Objs : qs[o] = "queued" => qstat[o] \in {"none", "queued"}
  BY <1>5, <1>6 DEF Enqueued, RunningIn, Running
<1>8. /\ Running' = Running \cup S
      /\ Live' = Live \cup S
      /\ \A o \in Objs : Ended(o) => Ended(o)'
      /\ Due(jobs') = Due(jobs) \cup {Job("attach", o) : o \in S}
  BY <1>6, <1>7, LaunchedRunners DEF Known, Objects
<1>9. Runners'
  <2> DEFINE ends == {}
  <2>1. /\ ends \in SUBSET emit.who
        /\ emit'.who = emit.who \ ends
        /\ emit'.rej = emit.rej
        /\ listening' = listening
        /\ Running' = (Running \ ends) \cup S
    BY <1>5, <1>8
  <2> HIDE DEF ends
  <2> QED
    BY <1>1, <1>8, <2>1, RunnersLaunched DEF Known
<1> QED
  BY <1>3, <1>9 DEF Known

LEMMA RequestKnown ==
  ASSUME Ordinary, TypeOK, SlotInv, Known, NEW t \in TaskIds, Request(t)
  PROVE  Known'
<1>1. CASE RegisterPreparing(t)
  <2>1. Objects'
    BY <1>1, ObjectsRegistered DEF Known
  <2>2. Idle /\ UNCHANGED <<listening, emit, jobs>> /\ Live' = Live
    BY <1>1 DEF RegisterPreparing, Live
  <2>3. nobj + 1 \in Objs /\ qstat[nobj + 1] = "none"
    BY <1>1, NewObject DEF Known, RegisterPreparing
  <2>4. Running' = Running
    BY <1>1, <2>3 DEF RegisterPreparing, Running, TypeOK
  <2> QED
    BY <2>1, <2>2, <2>4, RunnersKept DEF Known
<1>2. CASE EnqueuePrepared(t) \/ Resume(t)
  BY <1>2, EnqueueKnown
<1>3. CASE CancelPreparing(t)
  <2> DEFINE o == tasks[t]
  <2>1. /\ Idle
        /\ o \in Objs
        /\ qstat[o] = "preparing"
        /\ qstat' = [qstat EXCEPT ![o] = "cancelled"]
        /\ UNCHANGED <<nobj, qtask, tasks, retain, listening, emit, jobs, xstat>>
    BY <1>3, ConstantsAssumption DEF CancelPreparing, EntryStatus, TypeOK, Objs
  <2> HIDE DEF o
  <2>2. Objects'
    BY <2>1, ObjectsCancelled DEF Known
  <2>3. Running' = Running /\ Live' = Live
    BY <2>1 DEF Running, Live, TypeOK
  <2> QED
    BY <2>1, <2>2, <2>3, RunnersKept DEF Known
<1>4. CASE CancelQueued(t)
  <2> DEFINE o == tasks[t]
  <2>1. /\ Idle
        /\ o \in Objs
        /\ qstat[o] = "queued"
        /\ qstat' = [qstat EXCEPT ![o] = "cancelled"]
        /\ tasks' = [tasks EXCEPT ![t] = 0]
        /\ UNCHANGED <<nobj, qtask, retain, listening, emit, jobs, xstat>>
    BY <1>4, ConstantsAssumption DEF CancelQueued, EntryStatus, TypeOK, Objs
  <2>2. qtask[o] = t
    BY <2>1, ObjsPositive DEF Known, Objects, Placed
  <2> HIDE DEF o
  <2>3. Objects'
    BY <2>1, <2>2, ObjectsCancelled DEF Known
  <2>4. Running' = Running /\ Live' = Live
    BY <2>1 DEF Running, Live, TypeOK
  <2> QED
    BY <2>1, <2>3, <2>4, RunnersKept DEF Known
<1>5. CASE CancelRunning(t)
  <2>1. /\ Idle
        /\ xstat' = Signal({t})
        /\ UNCHANGED <<nobj, qtask, qstat, tasks, retain, listening, emit, jobs>>
    BY <1>5 DEF CancelRunning
  <2>2. \A o \in Objs : \/ xstat'[o] = xstat[o]
                        \/ xstat'[o] = "stopping" /\ xstat[o] \in {"running", "stopping"}
    BY <2>1 DEF Signal, Signalled
  <2>3. Running' = Running /\ Live' = Live
    BY <2>1, <2>2 DEF Running, Live
  <2>4. \A o \in Objs : xstat[o] = "none" => xstat'[o] = "none"
    BY <2>2
  <2> QED
    BY <2>1, <2>3, <2>4, RunnersKept, ObjectsKept DEF Known
<1> QED
  BY <1>1, <1>2, <1>3, <1>4, <1>5 DEF Request

LEMMA SetMaxConcurrentKnown ==
  ASSUME Ordinary, TypeOK, SlotInv, Known, NEW l \in Limits, SetMaxConcurrent(l)
  PROVE  Known'
<1>1. AtLeastOne(l) \in Nat
  BY ConstantsAssumption DEF AtLeastOne
<1>2. ArgsOK(tasks, pos, qstat, activeCount, AtLeastOne(l), jobs)
  BY <1>1 DEF TypeOK, ArgsOK, Jobs
<1>3. /\ Idle
      /\ ProcessNext(tasks, pos, qstat, activeCount, AtLeastOne(l), jobs)
      /\ UNCHANGED <<nobj, qtask, retain, listening, emit>>
  BY DEF SetMaxConcurrent
<1>4. tasks' = tasks /\ \E S \in SUBSET Objs : Launch(S, qstat, jobs)
  BY <1>2, <1>3, ProcessNextLaunches
<1>5. PICK S \in SUBSET Objs : Launch(S, qstat, jobs)
  BY <1>4
<1>6. PICK ends : ends = {}
  OBVIOUS
<1>7. /\ ends \in SUBSET Running
      /\ retain' = retain \cup ends
      /\ \A o \in ends : qstat[o] \in Terminal /\ xstat[o] # "none"
      /\ qstat \in [Objs -> QStatus]
      /\ RunningIn(qstat) = Running
  BY <1>3, <1>6 DEF TypeOK, RunningIn, Running
<1>8. Objects'
  BY <1>3, <1>4, <1>5, <1>7, ObjectsLaunched DEF Known
<1>9. /\ Running' = (Running \ ends) \cup S
      /\ Live' = Live \cup S
      /\ \A o \in Objs : Ended(o) => Ended(o)'
      /\ Due(jobs') = Due(jobs) \cup {Job("attach", o) : o \in S}
  BY <1>5, <1>6, <1>7, LaunchedRunners DEF Known, Objects
<1>10. ends \in SUBSET emit.who /\ emit'.who = emit.who \ ends
  BY <1>3, <1>6
<1>11. Runners'
  BY <1>3, <1>9, <1>10, RunnersLaunched DEF Known
<1> QED
  BY <1>8, <1>11 DEF Known

LEMMA ListenerKnown ==
  ASSUME Ordinary, TypeOK, SlotInv, Known, Listener
  PROVE  Known'
<1>1. PICK o \in emit.who :
        /\ emit' = Emitting(emit.who \ {o}, emit.st, emit.rej)
        /\ retain' = retain \cup {o}
        /\ ProcessNext(tasks, pos, [qstat EXCEPT ![o] = emit.st],
                       Freed, maxConcurrent, jobs)
        /\ UNCHANGED <<nobj, qtask, maxConcurrent, listening>>
  BY DEF Listener
<1>2. PICK qs : qs = [qstat EXCEPT ![o] = emit.st]
  OBVIOUS
<1>3. o \in Objs /\ emit.st \in Terminal /\ o \in Running
  BY DEF TypeOK, SlotInv
<1>4. /\ qs \in [Objs -> QStatus]
      /\ qs[o] \in Terminal
      /\ \A p \in Objs : p # o => qs[p] = qstat[p]
  BY <1>2, <1>3 DEF TypeOK, QStatus
<1>5. ArgsOK(tasks, pos, qs, Freed, maxConcurrent, jobs)
  BY <1>4 DEF TypeOK, ArgsOK, Freed, Jobs
<1>6. tasks' = tasks /\ \E S \in SUBSET Objs : Launch(S, qs, jobs)
  BY <1>1, <1>2, <1>5, ProcessNextLaunches
<1>7. PICK S \in SUBSET Objs : Launch(S, qs, jobs)
  BY <1>6
<1>8. PICK ends : ends = {o}
  OBVIOUS
<1>9. /\ ends \in SUBSET Running
      /\ retain' = retain \cup ends
      /\ \A p \in ends : qs[p] \in Terminal /\ xstat[p] # "none"
      /\ \A p \in Objs : p \notin ends => qs[p] = qstat[p]
  BY <1>1, <1>3, <1>4, <1>8 DEF Known, Runners, Reported, Ended
<1>10. Objects'
  BY <1>1, <1>4, <1>6, <1>7, <1>9, ObjectsLaunched DEF Known
<1>11. RunningIn(qs) = Running \ ends
  BY <1>3, <1>4, <1>8 DEF RunningIn, Running, Terminal
<1>12. \A p \in Objs : qs[p] = "queued" => qstat[p] \in {"none", "queued"}
  BY <1>4 DEF Terminal
<1>13. /\ Running' = (Running \ ends) \cup S
       /\ Live' = Live \cup S
       /\ \A p \in Objs : Ended(p) => Ended(p)'
       /\ Due(jobs') = Due(jobs) \cup {Job("attach", p) : p \in S}
  BY <1>4, <1>7, <1>11, <1>12, LaunchedRunners DEF Known, Objects
<1>14. /\ ends \in SUBSET emit.who
       /\ emit'.who = emit.who \ ends
       /\ emit'.rej = emit.rej
       /\ UNCHANGED <<qtask, tasks, listening>>
  BY <1>1, <1>6, <1>8 DEF Emitting
<1>15. Runners'
  BY <1>13, <1>14, RunnersLaunched DEF Known
<1> QED
  BY <1>10, <1>15 DEF Known

LEMMA RunnerExitKnown ==
  ASSUME Ordinary, TypeOK, SlotInv, Known,
         NEW o \in Objs, NEW st \in Terminal, RunnerExit(o, st)
  PROVE  Known'
<1> DEFINE rej == IF st = "failed" THEN o ELSE 0
<1>1. /\ Idle
      /\ o \in Live
      /\ xstat' = [xstat EXCEPT ![o] = "exited"]
      /\ Emit(qtask[o], st, rej)
      /\ UNCHANGED <<nobj, qtask, qstat, tasks, retain, jobs>>
  BY DEF RunnerExit, Live
<1>2. rej \in {0, o}
  OBVIOUS
<1> HIDE DEF rej
<1>3. emit = Silent /\ Due(jobs) = {}
  BY <1>1, Quiet DEF Idle
<1>4. o \in Running /\ o \in listening
  BY <1>1, <1>3 DEF Known, Runners, Watched
<1>5. InItsPlace(o)
  BY <1>4 DEF Known, Objects, Placed, Running, Pending
<1>6. /\ Live' = Live \ {o}
      /\ Ended(o)'
      /\ \A p \in Objs : Ended(p) => Ended(p)'
      /\ \A p \in Objs : xstat[p] = "none" => xstat'[p] = "none"
  <2>1. xstat'[o] = "exited" /\ \A p \in Objs : p # o => xstat'[p] = xstat[p]
    BY <1>1 DEF TypeOK
  <2> QED
    BY <1>1, <2>1 DEF Live, Ended
<1>7. Runners'
  BY <1>1, <1>2, <1>3, <1>4, <1>5, <1>6, EmitRunners DEF Known, Objects
<1> QED
  BY <1>1, <1>6, <1>7, ObjectsKept DEF Known

LEMMA EventLoopKnown ==
  ASSUME Ordinary, TypeOK, SlotInv, Known, EventLoop
  PROVE  Known'
<1>1. CASE Listener
  BY <1>1, ListenerKnown
<1>2. ASSUME UNCHANGED <<nobj, qtask, qstat, tasks, retain, xstat>>
      PROVE  Objects'
  BY <1>2, ObjectsKept DEF Known
<1>3. CASE EmitReturns
  <2>1. /\ emit.who = {}
        /\ emit' = Silent
        /\ jobs' = Append(jobs, Job("reject", emit.rej))
        /\ emit.rej \in Objs
        /\ UNCHANGED <<nobj, qtask, qstat, tasks, retain, xstat, listening>>
    BY <1>3, ConstantsAssumption DEF EmitReturns, TypeOK, Objs
  <2>2. Due(jobs') = Due(jobs) \cup {Job("reject", emit.rej)}
    <3>1. Job("reject", emit.rej) \in Jobs /\ jobs \in Seq(Jobs)
      BY <2>1 DEF Job, Jobs, JobKinds, TypeOK
    <3> QED
      BY <2>1, <3>1, DueAppend
  <2>3. emit'.who = emit.who /\ emit'.rej = 0
    BY <2>1 DEF Silent, Emitting
  <2>4. Runners'
    BY <2>1, <2>2, <2>3, JobRunners, JobsDiffer, ObjsPositive DEF Known
  <2> QED
    BY <1>2, <2>1, <2>4 DEF Known
<1>4. ASSUME NEW k \in JobKinds, RunJob(k)
      PROVE  /\ emit = Silent
             /\ Head(jobs).obj \in Objs
             /\ Head(jobs) = Job(k, Head(jobs).obj)
             /\ Tail(jobs) \in Seq(Jobs)
             /\ Due(jobs) = Due(Tail(jobs)) \cup {Job(k, Head(jobs).obj)}
             /\ UNCHANGED <<nobj, qtask, qstat, tasks, retain, xstat>>
  <2>1. /\ emit = Silent /\ jobs # <<>> /\ Head(jobs).kind = k
        /\ UNCHANGED <<nobj, qtask, qstat, tasks, retain, xstat>>
    BY <1>4 DEF RunJob
  <2>2. jobs \in Seq(Jobs)
    BY DEF TypeOK, Jobs
  <2>3. /\ Head(jobs) \in Jobs /\ Tail(jobs) \in Seq(Jobs)
        /\ Due(jobs) = Due(Tail(jobs)) \cup {Head(jobs)}
    BY <2>1, <2>2, DueTail
  <2>4. Head(jobs).obj \in Objs /\ Head(jobs) = Job(k, Head(jobs).obj)
    BY <2>1, <2>3, JobsDiffer DEF Jobs
  <2> QED
    BY <2>1, <2>3, <2>4
<1>5. CASE Attach
  <2> DEFINE o == Head(jobs).obj
  <2>1. /\ RunJob("attach")
        /\ listening' = listening \cup {o}
        /\ jobs' = Tail(jobs)
        /\ UNCHANGED emit
    BY <1>5 DEF Attach
  <2>2. /\ o \in Objs
        /\ Due(jobs) = Due(jobs') \cup {Job("attach", o)}
        /\ UNCHANGED <<nobj, qtask, qstat, tasks, retain, xstat>>
    BY <1>4, <2>1 DEF JobKinds
  <2> HIDE DEF o
  <2>3. Runners'
    BY <2>1, <2>2, JobRunners, JobsDiffer DEF Known
  <2> QED
    BY <1>2, <2>2, <2>3 DEF Known
<1>6. CASE CatchEarly
  <2>1. RunJob("early")
    BY <1>6 DEF CatchEarly
  <2>2. Job("early", Head(jobs).obj) \in Due(jobs) /\ Head(jobs).obj \in Objs
    BY <1>4, <2>1 DEF JobKinds
  <2> QED
    BY <2>2 DEF Known, Runners, Reported
<1>7. CASE Reject
  <2> DEFINE o == Head(jobs).obj
  <2>1. /\ RunJob("reject")
        /\ jobs' = Append(Tail(jobs), Job("catch", o))
        /\ UNCHANGED <<listening, emit>>
    BY <1>7 DEF Reject
  <2>2. /\ o \in Objs
        /\ Tail(jobs) \in Seq(Jobs)
        /\ Due(jobs) = Due(Tail(jobs)) \cup {Job("reject", o)}
        /\ UNCHANGED <<nobj, qtask, qstat, tasks, retain, xstat>>
    BY <1>4, <2>1 DEF JobKinds
  <2> HIDE DEF o
  <2>3. Due(jobs') = Due(Tail(jobs)) \cup {Job("catch", o)}
    <3>1. Job("catch", o) \in Jobs
      BY <2>2 DEF Job, Jobs, JobKinds
    <3> QED
      BY <2>1, <2>2, <3>1, DueAppend
  <2>4. Runners'
    BY <2>1, <2>2, <2>3, JobRunners, JobsDiffer DEF Known
  <2> QED
    BY <1>2, <2>2, <2>4 DEF Known
<1>8. CASE Catch
  <2> DEFINE o == Head(jobs).obj
  <2>1. /\ RunJob("catch")
        /\ Emit(qtask[o], "failed", 0)
        /\ jobs' = Tail(jobs)
    BY <1>8 DEF Catch
  <2>2. /\ o \in Objs
        /\ emit = Silent
        /\ Due(jobs) = Due(jobs') \cup {Job("catch", o)}
        /\ UNCHANGED <<nobj, qtask, qstat, tasks, retain, xstat>>
    BY <1>4, <2>1 DEF JobKinds
  <2> HIDE DEF o
  <2>3. Ended(o) /\ InItsPlace(o)
    BY <2>2 DEF Known, Runners, Reported
  <2>4. o \notin Live /\ Live' = Live /\ \A p \in Objs : Ended(p) => Ended(p)'
    BY <2>2, <2>3 DEF Live, Ended
  <2>5. o \in Running => o \in listening
    BY <2>2, <2>4, SilentWho DEF Known, Runners, Expected
  <2>6. Runners'
    BY <2>1, <2>2, <2>3, <2>4, <2>5, EmitRunners DEF Known, Objects
  <2> QED
    BY <1>2, <2>2, <2>6 DEF Known
<1> QED
  BY <1>1, <1>3, <1>5, <1>6, <1>7, <1>8 DEF EventLoop

LEMMA InitKnown == Init => Known
<1> SUFFICES ASSUME Init PROVE Known
  OBVIOUS
<1>1. /\ nobj = 0 /\ retain = {} /\ jobs = <<>> /\ emit = Silent
      /\ \A o \in Objs : o > nobj /\ qtask[o] = NoTask /\ qstat[o] = "none" /\ xstat[o] = "none"
      /\ \A t \in TaskIds : tasks[t] = 0
  BY DEF Init, Objs
<1>2. \A o \in Objs : ~(o <= nobj)
  BY <1>1 DEF Objs
<1>3. Objects
  BY <1>1, <1>2 DEF Objects, Numbered, Placed, Prepared, First, Unstarted, Pending
<1>4. Running = {} /\ Live = {}
  BY <1>1 DEF Running, Live
<1>5. Reported
  BY <1>1, Quiet, ObjsPositive DEF Reported, Idle
<1> QED
  BY <1>3, <1>4, <1>5 DEF Known, Runners, Watched, Expected

LEMMA NextKnown ==
  ASSUME Ordinary, TypeOK, SlotInv, Known, [Next]_vars
  PROVE  Known'
<1>1. ASSUME NEW t \in TaskIds, Request(t) PROVE Known'
  BY <1>1, RequestKnown
<1>2. CASE CancelAll
  BY <1>2 DEF CancelAll, Ordinary
<1>3. ASSUME NEW l \in Limits, SetMaxConcurrent(l) PROVE Known'
  BY <1>3, SetMaxConcurrentKnown
<1>4. ASSUME NEW o \in Objs, RetentionTimer(o) PROVE Known'
  <2>1. Objects'
    BY <1>4, ObjectsReleased DEF Known
  <2>2. /\ Idle /\ UNCHANGED <<listening, emit, jobs>>
        /\ Running' = Running /\ Live' = Live
    BY <1>4 DEF RetentionTimer, Running, Live
  <2> QED
    BY <2>1, <2>2, RunnersKept DEF Known
<1>5. ASSUME NEW o \in Objs, SpawnRunner(o) PROVE Known'
  <2>1. /\ Idle /\ xstat[o] = "pending"
        /\ xstat' = [xstat EXCEPT ![o] = "running"]
        /\ UNCHANGED <<nobj, qtask, qstat, tasks, retain, listening, emit, jobs>>
    BY <1>5 DEF SpawnRunner
  <2>2. xstat'[o] = "running" /\ \A p \in Objs : p # o => xstat'[p] = xstat[p]
    BY <2>1 DEF TypeOK
  <2>3. Running' = Running /\ Live' = Live
    BY <2>1, <2>2 DEF Running, Live
  <2>4. \A p \in Objs : xstat[p] = "none" => xstat'[p] = "none"
    BY <2>1, <2>2
  <2> QED
    BY <2>1, <2>3, <2>4, RunnersKept, ObjectsKept DEF Known
<1>6. ASSUME NEW o \in Objs, SpawnFails(o) PROVE Known'
  <2>1. /\ xstat[o] # "none"
        /\ xstat' = [xstat EXCEPT ![o] = "aborted"]
        /\ UNCHANGED <<nobj, qtask, qstat, tasks, retain>>
    BY <1>6 DEF SpawnFails
  <2>2. \A p \in Objs : xstat[p] = "none" => xstat'[p] = "none"
    BY <2>1 DEF TypeOK
  <2>3. Objects'
    BY <2>1, <2>2, ObjectsKept DEF Known
  <2> QED
    BY <1>6, <2>3, SpawnFailsRunners DEF Known, Objects
<1>7. ASSUME NEW o \in Objs, NEW st \in Terminal, RunnerExit(o, st) PROVE Known'
  BY <1>7, RunnerExitKnown
<1>8. CASE EventLoop
  BY <1>8, EventLoopKnown
<1>9. CASE UNCHANGED vars
  <2>1. UNCHANGED <<nobj, qtask, qstat, tasks, retain, listening, emit, jobs, xstat>>
    BY <1>9 DEF vars
  <2>2. Objects'
    BY <2>1, ObjectsKept DEF Known
  <2>3. Runners'
    BY <2>1, JobRunners DEF Known
  <2> QED
    BY <2>2, <2>3 DEF Known
<1> QED
  BY <1>1, <1>2, <1>3, <1>4, <1>5, <1>6, <1>7, <1>8, <1>9 DEF Next

LEMMA KnownShows ==
  ASSUME TypeOK, SlotInv, Known
  PROVE  QueueKnowsRunners /\ CancelledInPreparationNeverRuns
<1>1. Idle => Running = Live
  BY Quiet DEF Known, Runners, Watched, Expected
<1>2. \A o \in Live : o \in InMap
  <2>1. \A o \in Live : o \in Objs /\ InItsPlace(o)
    BY DEF Known, Runners, Watched, Objects, Placed, Running, Pending
  <2> QED
    BY <2>1, ObjsPositive DEF InItsPlace, InMap
<1>3. QueueKnowsRunners
  BY <1>1, <1>2 DEF QueueKnowsRunners, SlotInv
<1>4. CancelledInPreparationNeverRuns
  <2> SUFFICES ASSUME NEW o \in Objs, NEW p \in Objs,
                      qstat[o] = "cancelled", qtask[p] = qtask[o],
                      \A r \in Objs : qtask[r] = qtask[o] => o <= r
               PROVE  xstat[p] = "none"
    BY DEF CancelledInPreparationNeverRuns
  <2>1. o <= nobj
    BY DEF Known, Objects, Numbered, Objs, TypeOK
  <2>2. First(o)
    BY <2>1 DEF First
  <2> QED
    BY <2>2 DEF Known, Objects, Prepared
<1> QED
  BY <1>3, <1>4

\* With the calls used as intended, between two macrotasks the tasks shown as
\* running are exactly those with a runner behind them, whatever the order of
\* exits, failed spawns, cancels, resumes and changes of the limit.
THEOREM QueueAndRunnersAgree == ASSUME Ordinary PROVE Spec => []QueueKnowsRunners
<1>1. Init => TypeOK /\ SlotInv /\ Known
  BY InitType, InitSlots, InitKnown
<1>2. TypeOK /\ SlotInv /\ Known /\ [Next]_vars => (TypeOK /\ SlotInv /\ Known)'
  BY NextType, NextSlots, NextKnown
<1>3. TypeOK /\ SlotInv /\ Known => QueueKnowsRunners
  BY KnownShows
<1> QED
  BY <1>1, <1>2, <1>3, PTL DEF Spec

\* A task that was cancelled while it was prepared never gets a runner: the
\* enqueue that follows finds the cancelled entry, which nothing removes.
THEOREM CancelledInPreparation ==
  ASSUME Ordinary PROVE Spec => []CancelledInPreparationNeverRuns
<1>1. Init => TypeOK /\ SlotInv /\ Known
  BY InitType, InitSlots, InitKnown
<1>2. TypeOK /\ SlotInv /\ Known /\ [Next]_vars => (TypeOK /\ SlotInv /\ Known)'
  BY NextType, NextSlots, NextKnown
<1>3. TypeOK /\ SlotInv /\ Known => CancelledInPreparationNeverRuns
  BY KnownShows
<1> QED
  BY <1>1, <1>2, <1>3, PTL DEF Spec

-----------------------------------------------------------------------------
(* The queue is a pool of slots.                                           *)

LEMMA LeastNatural ==
  ASSUME NEW T \in SUBSET Nat, T # {}
  PROVE  \E x \in T : \A y \in T : x <= y
<1>1. PICK x \in T : \A y \in T : ~(<<y, x>> \in OpToRel(<, Nat))
  BY NatLessThanWellFounded, WFMin
<1>2. \A y \in T : ~(y < x)
  BY <1>1 DEF OpToRel
<1> QED
  BY <1>2

\* No two ids share an object.
Distinct(ts) == \A t, u \in TaskIds : ts[t] = ts[u] /\ ts[t] # 0 => t = u

\* The ids that wait, those ahead of u, and those Picked takes.
Ahead(ts, ps, qs, u) == {v \in Queued(ts, qs) : ps[v] < ps[u]}
PickedIds(ts, ps, qs, free) ==
  {u \in Queued(ts, qs) : Cardinality(Ahead(ts, ps, qs, u)) < free}

LEMMA QueuedFinite ==
  ASSUME NEW ts \in [TaskIds -> 0..MaxObjs], NEW qs, Distinct(ts),
         NEW V \in SUBSET Queued(ts, qs)
  PROVE  /\ IsFiniteSet(V)
         /\ Cardinality(V) \in Nat
         /\ IsFiniteSet({ts[t] : t \in V})
         /\ Cardinality({ts[t] : t \in V}) = Cardinality(V)
<1> DEFINE O == {ts[t] : t \in V}
           f == [t \in V |-> ts[t]]
<1>1. O \subseteq Objs /\ V \subseteq TaskIds /\ \A t \in V : ts[t] # 0
  BY ConstantsAssumption DEF Queued, Objs
<1>2. IsFiniteSet(O)
  BY <1>1, ObjsFinite, FS_Subset
<1>3. f \in Injection(V, O) /\ f \in Surjection(V, O)
  BY <1>1 DEF Injection, IsInjective, Surjection, Distinct
<1> HIDE DEF O, f
<1>4. IsFiniteSet(V) /\ Cardinality(V) = Cardinality(O)
  BY <1>2, <1>3, FS_Injection
<1>5. Cardinality(V) \in Nat
  BY <1>4, FS_CardinalityType
<1> QED
  BY <1>2, <1>4, <1>5 DEF O

\* As many are picked as slots are free, when one is left behind.
LEMMA PickedEnough ==
  ASSUME NEW ts \in [TaskIds -> 0..MaxObjs], NEW ps \in [TaskIds -> 0..MaxObjs],
         NEW qs, NEW free \in Int, Distinct(ts),
         NEW u \in Queued(ts, qs), ts[u] \notin Picked(ts, ps, qs, free)
  PROVE  Cardinality(Picked(ts, ps, qs, free)) >= free
<1> DEFINE W == Queued(ts, qs)
           P == PickedIds(ts, ps, qs, free)
           T == {ps[v] : v \in W \ P}
<1>1. W \subseteq TaskIds /\ P \subseteq W /\ u \in W
  BY DEF Queued, PickedIds
<1>2. Picked(ts, ps, qs, free) = {ts[t] : t \in P}
  BY DEF Picked, PickedIds, Ahead
<1>3. u \notin P
  BY <1>2
<1>4. \A v \in TaskIds : ps[v] \in Nat
  BY ConstantsAssumption
<1>5. PICK x \in T : \A y \in T : x <= y
  <2>1. T \subseteq Nat /\ T # {}
    BY <1>1, <1>3, <1>4
  <2> HIDE DEF T
  <2> QED
    BY <2>1, LeastNatural
<1>6. PICK w \in W \ P : x = ps[w]
  OBVIOUS
<1>7. \A v \in Ahead(ts, ps, qs, w) : v \in P
  BY <1>1, <1>4, <1>5, <1>6 DEF Ahead
<1>8. ~(Cardinality(Ahead(ts, ps, qs, w)) < free)
  BY <1>6 DEF PickedIds
<1>9. /\ IsFiniteSet(P) /\ Cardinality(P) \in Nat
      /\ Cardinality({ts[t] : t \in P}) = Cardinality(P)
  BY <1>1, QueuedFinite
<1>10. /\ Cardinality(Ahead(ts, ps, qs, w)) <= Cardinality(P)
       /\ Cardinality(Ahead(ts, ps, qs, w)) \in Nat
  BY <1>7, <1>9, FS_Subset, FS_CardinalityType
<1> HIDE DEF P
<1> QED
  BY <1>2, <1>8, <1>9, <1>10

\* No more are picked than slots are free: the last one in the order in which
\* they are started has all the others ahead of it.
LEMMA PickedNotTooMany ==
  ASSUME NEW ts, NEW ps, NEW qs, NEW active, NEW limit, NEW js,
         ArgsOK(ts, ps, qs, active, limit, js), Distinct(ts),
         ProcessNext(ts, ps, qs, active, limit, js),
         Picked(ts, ps, qs, limit - active) # {}
  PROVE  Cardinality(Picked(ts, ps, qs, limit - active)) <= limit - active
<1> DEFINE free == limit - active
           S == Picked(ts, ps, qs, free)
           N == Cardinality(S)
           Id(o) == CHOOSE t \in TaskIds : ts[t] = o
<1>1. S \subseteq Objs /\ IsFiniteSet(S) /\ N \in Nat /\ free \in Int
  BY PickedQueued, PickedFinite DEF ArgsOK
<1>2. N # 0
  BY <1>1, FS_EmptySet
<1>3. PICK order \in [1..N -> S] :
        \A i, j \in 1..N : i < j => ps[Id(order[i])] < ps[Id(order[j])]
  BY DEF ProcessNext
<1>4. \A o \in S : /\ Id(o) \in PickedIds(ts, ps, qs, free)
                   /\ ts[Id(o)] = o
                   /\ Id(o) \in TaskIds
  <2> SUFFICES ASSUME NEW o \in S
               PROVE  /\ Id(o) \in PickedIds(ts, ps, qs, free)
                      /\ ts[Id(o)] = o
                      /\ Id(o) \in TaskIds
    OBVIOUS
  <2>1. PICK t \in PickedIds(ts, ps, qs, free) : o = ts[t]
    BY Zenon DEF Picked, PickedIds, Ahead
  <2>2. t \in TaskIds /\ ts[t] # 0
    BY <2>1 DEF PickedIds, Queued
  <2>3. ts[Id(o)] = o /\ Id(o) \in TaskIds
    BY <2>1, <2>2
  <2>4. Id(o) = t
    BY <2>1, <2>2, <2>3 DEF Distinct
  <2> QED
    BY <2>1, <2>3, <2>4
<1> DEFINE last == Id(order[N])
           A == Ahead(ts, ps, qs, last)
           g == [i \in 1..(N - 1) |-> Id(order[i])]
<1>5. N \in 1..N /\ N - 1 \in Nat /\ \A i \in 1..(N - 1) : i \in 1..N /\ i < N
  BY <1>1, <1>2
<1>6. \A i \in 1..N : order[i] \in S
  OBVIOUS
<1>7. last \in PickedIds(ts, ps, qs, free)
  BY <1>4, <1>5, <1>6
<1>8. Cardinality(A) < free
  BY <1>7 DEF PickedIds
<1>9. IsFiniteSet(A) /\ Cardinality(A) \in Nat
  <2>1. A \in SUBSET Queued(ts, qs)
    BY DEF Ahead
  <2>2. ts \in [TaskIds -> 0..MaxObjs]
    BY DEF ArgsOK
  <2> HIDE DEF A
  <2> QED
    BY <2>1, <2>2, QueuedFinite
<1> HIDE DEF S, N, Id, free
<1>10. \A i \in 1..(N - 1) : Id(order[i]) \in A
  BY <1>3, <1>4, <1>5, <1>6 DEF Ahead, PickedIds
<1>11. \A i, j \in 1..(N - 1) : Id(order[i]) = Id(order[j]) => i = j
  <2> SUFFICES ASSUME NEW i \in 1..(N - 1), NEW j \in 1..(N - 1),
                      Id(order[i]) = Id(order[j]), i < j
               PROVE  FALSE
    BY <1>1, <1>5
  <2>1. ps[Id(order[i])] < ps[Id(order[j])]
    BY <1>3, <1>5
  <2>2. ps[Id(order[i])] \in Int
    BY <1>4, <1>5, <1>6 DEF ArgsOK
  <2> QED
    BY <2>1, <2>2
<1>12. g \in Injection(1..(N - 1), A)
  BY <1>10, <1>11 DEF Injection, IsInjective
<1> HIDE DEF g, A
<1>13. Cardinality(1..(N - 1)) = N - 1
  BY <1>1, <1>5, FS_Interval
<1>14. N - 1 <= Cardinality(A)
  BY <1>9, <1>12, <1>13, FS_Injection
<1>15. N <= free
  BY <1>1, <1>8, <1>9, <1>14
<1> QED
  BY <1>15 DEF N, S, free

\* What ProcessNext leaves of the limit.
LEMMA ProcessNextFills ==
  ASSUME ~CancelAllAtRunTime,
         NEW ts, NEW ps, NEW qs, NEW active, NEW limit, NEW js,
         ArgsOK(ts, ps, qs, active, limit, js), Distinct(ts),
         active = Cardinality(RunningIn(qs)),
         ProcessNext(ts, ps, qs, active, limit, js),
         \A o \in Objs : qs[o] = "queued" => \E t \in TaskIds : ts[t] = o
  PROVE  /\ Running' # RunningIn(qs) => Cardinality(Running') <= limit
         /\ (\E o \in Objs : qstat'[o] = "queued") => Cardinality(Running') >= limit
         /\ Cardinality(Running') \in Nat
<1> DEFINE S == Picked(ts, ps, qs, limit - active)
           N == Cardinality(S)
<1>1. /\ S \subseteq Objs
      /\ N \in Nat
      /\ qstat' = [o \in Objs |-> IF o \in S THEN "running" ELSE qs[o]]
      /\ activeCount' = active + N
      /\ ts \in [TaskIds -> 0..MaxObjs] /\ ps \in [TaskIds -> 0..MaxObjs]
      /\ active \in Nat /\ limit \in Nat /\ limit - active \in Int
  <2>1. /\ ts \in [TaskIds -> 0..MaxObjs] /\ ps \in [TaskIds -> 0..MaxObjs]
        /\ active \in Nat /\ limit \in Nat /\ limit - active \in Int
    BY DEF ArgsOK
  <2>2. S \subseteq Objs /\ N \in Nat
    BY <2>1, PickedQueued, PickedFinite
  <2>3. /\ qstat' = [o \in Objs |-> IF o \in S THEN "running" ELSE qs[o]]
        /\ activeCount' = active + N
    BY DEF ProcessNext
  <2> QED
    BY <2>1, <2>2, <2>3
<1>2. Cardinality(Running') = active + N
  BY <1>1, ProcessNextCounts DEF SlotAccounting
<1>3. Running' # RunningIn(qs) => S # {}
  <2> HIDE DEF S
  <2> QED
    BY <1>1 DEF Running, RunningIn
<1>4. S # {} => N <= limit - active
  BY PickedNotTooMany
<1>5. ASSUME NEW o \in Objs, qstat'[o] = "queued" PROVE N >= limit - active
  <2>1. o \notin S /\ qs[o] = "queued"
    <3> HIDE DEF S
    <3> QED
      BY <1>1, <1>5
  <2>2. PICK u \in TaskIds : ts[u] = o
    BY <2>1
  <2>3. u \in Queued(ts, qs)
    BY <2>1, <2>2, ObjsPositive DEF Queued
  <2> QED
    BY <1>1, <2>1, <2>2, <2>3, PickedEnough
<1> HIDE DEF S, N
<1>6. (\E o \in Objs : qstat'[o] = "queued") => N >= limit - active
  BY <1>5
<1> QED
  BY <1>1, <1>2, <1>3, <1>4, <1>6

\* No task waits beside a free slot.
Full == (\E o \in Objs : qstat[o] = "queued") => Cardinality(Running) >= maxConcurrent

\* What a step does to the tasks and to the slots.
Proceeds ==
  \A o \in Objs :
    /\ qstat[o] = "queued" => qstat'[o] \in {"queued", "running", "cancelled", "dropped"}
    /\ qstat[o] = "running" => qstat'[o] \in {"running"} \cup Terminal
    /\ qstat[o] \in Terminal \cup {"dropped"} => qstat'[o] = qstat[o]
StartsInSlots == Running' \ Running # {} => Cardinality(Running') <= maxConcurrent'
Turn == Proceeds /\ StartsInSlots /\ Full'

\* What QueuedLeavesProperly says of a step.
LeavesProperly ==
  \A t \in TaskIds : EntryStatus(t) = "queued" =>
    \/ tasks'[t] = tasks[t] /\ qstat'[tasks[t]] \in {"queued", "running"}
    \/ qstat'[tasks[t]] = "cancelled"

LEMMA EntryQueued ==
  ASSUME TypeOK, Known, NEW t \in TaskIds, EntryStatus(t) = "queued"
  PROVE  tasks[t] \in Objs /\ qstat[tasks[t]] = "queued" /\ qtask[tasks[t]] = t
<1>1. tasks[t] # 0 /\ qstat[tasks[t]] = "queued"
  BY DEF EntryStatus
<1>2. tasks[t] \in Objs
  BY <1>1, ConstantsAssumption DEF TypeOK, Objs
<1> QED
  BY <1>1, <1>2 DEF Known, Objects, Placed

\* A step that starts nothing.
LEMMA QuietTurn ==
  ASSUME TypeOK, Full, Running' = Running, maxConcurrent' = maxConcurrent, Proceeds,
         \A o \in Objs : qstat'[o] = "queued" => qstat[o] = "queued"
  PROVE  Turn
BY DEF Turn, StartsInSlots, Full

LEMMA SameTurn ==
  ASSUME TypeOK, Known, Full, UNCHANGED <<qstat, tasks, maxConcurrent>>
  PROVE  Turn /\ LeavesProperly
<1>1. Running' = Running /\ Proceeds
  BY DEF Running, Proceeds
<1>2. Turn
  BY <1>1, QuietTurn
<1>3. LeavesProperly
  BY EntryQueued DEF LeavesProperly
<1> QED
  BY <1>2, <1>3

\* ProcessNext, once the caller gave it the running tasks and their number.
LEMMA LaunchTurn ==
  ASSUME Ordinary, Objects',
         NEW ts, NEW ps, NEW qs, NEW active, NEW js,
         ArgsOK(ts, ps, qs, active, maxConcurrent', js),
         ProcessNext(ts, ps, qs, active, maxConcurrent', js),
         active = Cardinality(RunningIn(qs)), RunningIn(qs) \subseteq Running
  PROVE  StartsInSlots /\ Full'
<1>1. tasks' = ts /\ ts \in [TaskIds -> 0..MaxObjs]
  BY DEF ProcessNext, ArgsOK
<1>2. Distinct(ts)
  BY <1>1 DEF Objects, Placed, Distinct
<1>3. PICK S \in SUBSET Objs : Launch(S, qs, js)
  BY ProcessNextLaunches
<1>4. \A o \in Objs : qs[o] = "queued" => \E t \in TaskIds : ts[t] = o
  <2>1. \A o \in Objs : qs[o] = "queued" => qstat'[o] \in Pending
    BY <1>3 DEF Launch, Pending
  <2> QED
    BY <1>1, <2>1 DEF Objects, Placed, InItsPlace
<1>5. /\ Running' # RunningIn(qs) => Cardinality(Running') <= maxConcurrent'
      /\ (\E o \in Objs : qstat'[o] = "queued") => Cardinality(Running') >= maxConcurrent'
  BY <1>2, <1>4, ProcessNextFills DEF Ordinary
<1>6. StartsInSlots
  BY <1>5 DEF StartsInSlots
<1>7. Full'
  BY <1>5 DEF Full
<1> QED
  BY <1>6, <1>7

LEMMA EnqueueTurn ==
  ASSUME Ordinary, TypeOK, TypeOK', SlotInv, Known, Known', NEW t \in TaskIds,
         EnqueuePrepared(t) \/ Resume(t)
  PROVE  Turn /\ LeavesProperly
<1>1. Idle /\ enqueue(t)
  BY DEF EnqueuePrepared, Resume
<1>2. Ready(t)
  BY <1>1, ReadyToEnqueue DEF Known
<1> DEFINE n == nobj + 1
           ts == [tasks EXCEPT ![t] = n]
           qs == [o \in Objs |->
                    IF o = n THEN "queued"
                    ELSE IF qtask[o] = t /\ qstat[o] \in {"preparing", "queued"}
                    THEN "dropped"
                    ELSE qstat[o]]
<1>3. n \in Objs /\ n \in 0..MaxObjs /\ qstat[n] = "none"
  <2>1. n \in Objs /\ qstat[n] = "none"
    BY <1>1, NewObject DEF Known, enqueue
  <2> QED
    BY <2>1 DEF Objs
<1>4. ts \in [TaskIds -> 0..MaxObjs] /\ NewPos(t, n) \in [TaskIds -> 0..MaxObjs]
  BY <1>3 DEF TypeOK, NewPos
<1>5. qs \in [Objs -> QStatus]
  BY DEF TypeOK, QStatus, Pending
<1>6. maxConcurrent' = maxConcurrent
  BY <1>1 DEF enqueue
<1>7. ArgsOK(ts, NewPos(t, n), qs, activeCount, maxConcurrent', jobs)
  BY <1>4, <1>5, <1>6 DEF ArgsOK, TypeOK, Jobs
<1>8. ProcessNext(ts, NewPos(t, n), qs, activeCount, maxConcurrent', jobs)
  BY <1>1, <1>6 DEF enqueue
<1>9. RunningIn(qs) = Running
  BY <1>3 DEF RunningIn, Running
<1>10. activeCount = Cardinality(RunningIn(qs))
  BY <1>9 DEF SlotInv, SlotAccounting, Ordinary
<1>11. \A o \in Objs : o # n =>
         \/ qs[o] = qstat[o]
         \/ qs[o] = "dropped" /\ qtask[o] = t /\ qstat[o] = "preparing"
  BY <1>2 DEF Ready
<1> HIDE DEF ts, qs
<1>12. PICK S \in SUBSET Objs : Launch(S, qs, jobs)
  BY <1>7, <1>8, ProcessNextLaunches
<1>13. \A o \in Objs : o # n =>
         \/ qstat'[o] = qstat[o]
         \/ qstat[o] = "queued" /\ qstat'[o] = "running"
         \/ qstat[o] = "preparing" /\ qstat'[o] = "dropped"
  BY <1>11, <1>12 DEF Launch
<1>14. Proceeds
  BY <1>3, <1>13 DEF Proceeds, Terminal
<1>15. StartsInSlots /\ Full'
  BY <1>7, <1>8, <1>9, <1>10, LaunchTurn DEF Known
<1>16. LeavesProperly
  <2> SUFFICES ASSUME NEW u \in TaskIds, EntryStatus(u) = "queued"
               PROVE  tasks'[u] = tasks[u] /\ qstat'[tasks[u]] \in {"queued", "running"}
    BY DEF LeavesProperly
  <2>1. tasks[u] \in Objs /\ qstat[tasks[u]] = "queued" /\ qtask[tasks[u]] = u
    BY EntryQueued
  <2>2. u # t
    BY <1>2, <2>1 DEF Ready
  <2>3. tasks' = [tasks EXCEPT ![t] = nobj + 1]
    BY <1>1, EnqueueLaunches DEF Known
  <2> QED
    BY <1>3, <1>13, <2>1, <2>2, <2>3 DEF TypeOK
<1> QED
  BY <1>14, <1>15, <1>16 DEF Turn

\* A call of ProcessNext that leaves the Map to it as it is.
LEMMA LoopTurn ==
  ASSUME Ordinary, TypeOK, Known, Known',
         NEW ps, NEW qs, NEW active, NEW js,
         ArgsOK(tasks, ps, qs, active, maxConcurrent', js),
         ProcessNext(tasks, ps, qs, active, maxConcurrent', js),
         active = Cardinality(RunningIn(qs)), RunningIn(qs) \subseteq Running,
         \A o \in Objs : qs[o] = qstat[o] \/ (qstat[o] = "running" /\ qs[o] \in Terminal)
  PROVE  Turn /\ LeavesProperly
<1>1. tasks' = tasks /\ \E S \in SUBSET Objs : Launch(S, qs, js)
  BY ProcessNextLaunches
<1>2. PICK S \in SUBSET Objs : Launch(S, qs, js)
  BY <1>1
<1>3. \A o \in Objs :
        \/ qstat'[o] = qstat[o]
        \/ qstat[o] = "queued" /\ qstat'[o] = "running"
        \/ qstat[o] = "running" /\ qstat'[o] \in Terminal
  BY <1>2 DEF Launch, Terminal
<1>4. Proceeds
  BY <1>3 DEF Proceeds, Terminal
<1>5. StartsInSlots /\ Full'
  BY LaunchTurn DEF Known
<1>6. LeavesProperly
  BY <1>1, <1>3, EntryQueued DEF LeavesProperly
<1> QED
  BY <1>4, <1>5, <1>6 DEF Turn

LEMMA ListenerTurn ==
  ASSUME Ordinary, TypeOK, SlotInv, Known, Known', Listener
  PROVE  Turn /\ LeavesProperly
<1>1. PICK o \in emit.who :
        /\ ProcessNext(tasks, pos, [qstat EXCEPT ![o] = emit.st],
                       Freed, maxConcurrent, jobs)
        /\ maxConcurrent' = maxConcurrent
  BY DEF Listener
<1>2. PICK qs : qs = [qstat EXCEPT ![o] = emit.st]
  OBVIOUS
<1>3. o \in Objs /\ emit.st \in Terminal /\ o \in Running
  BY DEF TypeOK, SlotInv
<1>4. /\ qs \in [Objs -> QStatus]
      /\ qs[o] \in Terminal
      /\ \A p \in Objs : p # o => qs[p] = qstat[p]
  BY <1>2, <1>3 DEF TypeOK, QStatus
<1>5. RunningIn(qs) = Running \ {o}
  BY <1>3, <1>4 DEF RunningIn, Running, Terminal
<1>6. Freed = Cardinality(RunningIn(qs))
  <2>1. IsFiniteSet(Running) /\ Cardinality(Running) \in Nat
    <3>1. Running = RunningIn(qstat)
      BY DEF Running, RunningIn
    <3> QED
      BY <3>1, RunningFinite
  <2>2. /\ Cardinality(Running \ {o}) = Cardinality(Running) - 1
        /\ Cardinality(Running \ {o}) \in Nat
    BY <1>3, <2>1, FS_RemoveElement, FS_CardinalityType
  <2>3. activeCount = Cardinality(Running)
    BY DEF SlotInv, SlotAccounting, Ordinary
  <2> QED
    BY <1>5, <2>1, <2>2, <2>3 DEF Freed
<1>7. ArgsOK(tasks, pos, qs, Freed, maxConcurrent', jobs)
  BY <1>1, <1>4 DEF TypeOK, ArgsOK, Freed, Jobs
<1>8. ProcessNext(tasks, pos, qs, Freed, maxConcurrent', jobs)
  BY <1>1, <1>2
<1>9. RunningIn(qs) \subseteq Running
  BY <1>5
<1>10. \A p \in Objs : qs[p] = qstat[p] \/ (qstat[p] = "running" /\ qs[p] \in Terminal)
  BY <1>3, <1>4 DEF Running
<1> QED
  BY <1>6, <1>7, <1>8, <1>9, <1>10, LoopTurn

LEMMA SetMaxConcurrentTurn ==
  ASSUME Ordinary, TypeOK, SlotInv, Known, Known', NEW l \in Limits, SetMaxConcurrent(l)
  PROVE  Turn /\ LeavesProperly
<1>1. AtLeastOne(l) \in Nat /\ maxConcurrent' = AtLeastOne(l)
  BY ConstantsAssumption DEF AtLeastOne, SetMaxConcurrent
<1>2. ArgsOK(tasks, pos, qstat, activeCount, maxConcurrent', jobs)
  BY <1>1 DEF TypeOK, ArgsOK, Jobs
<1>3. ProcessNext(tasks, pos, qstat, activeCount, maxConcurrent', jobs)
  BY <1>1 DEF SetMaxConcurrent
<1>4. RunningIn(qstat) = Running
  BY DEF RunningIn, Running
<1>5. activeCount = Cardinality(RunningIn(qstat))
  BY <1>4 DEF SlotInv, SlotAccounting, Ordinary
<1> QED
  BY <1>2, <1>3, <1>4, <1>5, LoopTurn

\* A task is cancelled before it is started.
LEMMA CancelTurn ==
  ASSUME TypeOK, Known, Full, NEW t \in TaskIds, CancelPreparing(t) \/ CancelQueued(t)
  PROVE  Turn /\ LeavesProperly
<1> DEFINE o == tasks[t]
<1>1. /\ o \in Objs
      /\ qstat[o] \in {"preparing", "queued"}
      /\ qstat' = [qstat EXCEPT ![o] = "cancelled"]
      /\ \/ qstat[o] = "preparing" /\ tasks' = tasks
         \/ qstat[o] = "queued" /\ tasks' = [tasks EXCEPT ![t] = 0]
      /\ maxConcurrent' = maxConcurrent
  <2>1. CASE CancelPreparing(t)
    BY <2>1, ConstantsAssumption DEF CancelPreparing, EntryStatus, TypeOK, Objs
  <2>2. CASE CancelQueued(t)
    BY <2>2, ConstantsAssumption DEF CancelQueued, EntryStatus, TypeOK, Objs
  <2> QED
    BY <2>1, <2>2
<1>2. qstat'[o] = "cancelled" /\ \A p \in Objs : p # o => qstat'[p] = qstat[p]
  BY <1>1 DEF TypeOK
<1>3. LeavesProperly
  <2> SUFFICES ASSUME NEW u \in TaskIds, EntryStatus(u) = "queued"
               PROVE  \/ tasks'[u] = tasks[u] /\ qstat'[tasks[u]] \in {"queued", "running"}
                      \/ qstat'[tasks[u]] = "cancelled"
    BY DEF LeavesProperly
  <2>1. tasks[u] \in Objs /\ qstat[tasks[u]] = "queued"
    BY EntryQueued
  <2>2. CASE tasks[u] = o
    BY <1>2, <2>2
  <2>3. CASE tasks[u] # o
    BY <1>1, <1>2, <2>1, <2>3 DEF TypeOK
  <2> QED
    BY <2>2, <2>3
<1> HIDE DEF o
<1>4. Running' = Running
  BY <1>1, <1>2 DEF Running
<1>5. Proceeds
  BY <1>1, <1>2 DEF Proceeds, Terminal
<1>6. \A p \in Objs : qstat'[p] = "queued" => qstat[p] = "queued"
  BY <1>2
<1> QED
  BY <1>1, <1>3, <1>4, <1>5, <1>6, QuietTurn

LEMMA RegisterTurn ==
  ASSUME TypeOK, Known, Full, NEW t \in TaskIds, RegisterPreparing(t)
  PROVE  Turn /\ LeavesProperly
<1>1. PICK n : n = nobj + 1
  OBVIOUS
<1>2. n \in Objs /\ qstat[n] = "none"
  BY <1>1, NewObject DEF Known, RegisterPreparing
<1>3. /\ qstat' = [qstat EXCEPT ![n] = "preparing"]
      /\ tasks' = [tasks EXCEPT ![t] = n]
      /\ maxConcurrent' = maxConcurrent
      /\ \A o \in 1..nobj : qtask[o] # t
  BY <1>1 DEF RegisterPreparing
<1>4. qstat'[n] = "preparing" /\ \A p \in Objs : p # n => qstat'[p] = qstat[p]
  BY <1>2, <1>3 DEF TypeOK
<1>5. Running' = Running /\ Proceeds /\ \A p \in Objs : qstat'[p] = "queued" => qstat[p] = "queued"
  BY <1>2, <1>4 DEF Running, Proceeds, Terminal
<1>6. Turn
  BY <1>3, <1>5, QuietTurn
<1>7. LeavesProperly
  <2> SUFFICES ASSUME NEW u \in TaskIds, EntryStatus(u) = "queued"
               PROVE  tasks'[u] = tasks[u] /\ qstat'[tasks[u]] = "queued"
    BY DEF LeavesProperly
  <2>1. tasks[u] \in Objs /\ qstat[tasks[u]] = "queued" /\ qtask[tasks[u]] = u
    BY EntryQueued
  <2>2. tasks[u] \in 1..nobj
    BY <2>1 DEF Known, Objects, Numbered, Objs, TypeOK
  <2>3. u # t
    BY <1>3, <2>1, <2>2
  <2> QED
    BY <1>2, <1>3, <1>4, <2>1, <2>3 DEF TypeOK
<1> QED
  BY <1>6, <1>7

LEMMA ReleaseTurn ==
  ASSUME TypeOK, Known, Full, NEW o \in Objs, RetentionTimer(o)
  PROVE  Turn /\ LeavesProperly
<1>1. /\ o \in retain
      /\ tasks' = [tasks EXCEPT ![qtask[o]] = 0]
      /\ UNCHANGED <<qstat, maxConcurrent>>
  BY DEF RetentionTimer
<1>2. InItsPlace(o) /\ qstat[o] \in Terminal
  BY <1>1 DEF Known, Objects, Placed
<1>3. Running' = Running /\ Proceeds
  BY <1>1 DEF Running, Proceeds
<1>4. Turn
  BY <1>1, <1>3, QuietTurn
<1>5. LeavesProperly
  <2> SUFFICES ASSUME NEW u \in TaskIds, EntryStatus(u) = "queued"
               PROVE  tasks'[u] = tasks[u] /\ qstat'[tasks[u]] = "queued"
    BY DEF LeavesProperly
  <2>1. qstat[tasks[u]] = "queued"
    BY EntryQueued
  <2>2. u # qtask[o]
    BY <1>2, <2>1 DEF InItsPlace, Terminal
  <2> QED
    BY <1>1, <2>1, <2>2 DEF TypeOK
<1> QED
  BY <1>4, <1>5

LEMMA NextTurn ==
  ASSUME Ordinary, TypeOK, TypeOK', SlotInv, Known, Known', Full, [Next]_vars
  PROVE  Turn /\ LeavesProperly
<1>1. ASSUME NEW t \in TaskIds, Request(t) PROVE Turn /\ LeavesProperly
  <2>1. CASE RegisterPreparing(t)
    BY <2>1, RegisterTurn
  <2>2. CASE EnqueuePrepared(t) \/ Resume(t)
    BY <2>2, EnqueueTurn
  <2>3. CASE CancelPreparing(t) \/ CancelQueued(t)
    BY <2>3, CancelTurn
  <2>4. CASE CancelRunning(t)
    BY <2>4, SameTurn DEF CancelRunning
  <2> QED
    BY <1>1, <2>1, <2>2, <2>3, <2>4 DEF Request
<1>2. CASE CancelAll
  BY <1>2 DEF CancelAll, Ordinary
<1>3. ASSUME NEW l \in Limits, SetMaxConcurrent(l) PROVE Turn /\ LeavesProperly
  BY <1>3, SetMaxConcurrentTurn
<1>4. ASSUME NEW o \in Objs, RetentionTimer(o) PROVE Turn /\ LeavesProperly
  BY <1>4, ReleaseTurn
<1>5. ASSUME NEW o \in Objs, SpawnRunner(o) \/ SpawnFails(o) PROVE Turn /\ LeavesProperly
  BY <1>5, SameTurn DEF SpawnRunner, SpawnFails
<1>6. ASSUME NEW o \in Objs, NEW st \in Terminal, RunnerExit(o, st)
      PROVE  Turn /\ LeavesProperly
  BY <1>6, SameTurn DEF RunnerExit
<1>7. CASE EventLoop
  <2>1. CASE Listener
    BY <2>1, ListenerTurn
  <2>2. CASE EmitReturns
    BY <2>2, SameTurn DEF EmitReturns
  <2>3. CASE Attach \/ CatchEarly \/ Reject \/ Catch
    BY <2>3, SameTurn DEF Attach, CatchEarly, Reject, Catch, RunJob
  <2> QED
    BY <1>7, <2>1, <2>2, <2>3 DEF EventLoop
<1>8. CASE UNCHANGED vars
  BY <1>8, SameTurn DEF vars
<1> QED
  BY <1>1, <1>2, <1>3, <1>4, <1>5, <1>6, <1>7, <1>8 DEF Next

LEMMA PoolCardinality == \A S : Pool!Cardinality(S) = Cardinality(S)
  BY Zenon DEF Pool!Cardinality, Cardinality

\* Such a step is a step of the pool.
LEMMA TurnIsPoolStep ==
  ASSUME TypeOK, TypeOK', Turn
  PROVE  Pool!Next
<1> DEFINE waiting == {o \in Objs : qstat[o] = "queued"}
           ended == {o \in Objs : qstat[o] \in Terminal \cup {"dropped"}}
<1>1. /\ \A o \in Objs : qstat[o] \in QStatus /\ qstat'[o] \in QStatus
      /\ maxConcurrent' \in Nat \ {0}
  BY DEF TypeOK
<1>2. Pool!JobsProceed
  <2>1. waiting' \cup Running' \cup ended' \subseteq Objs
    BY DEF Running
  <2>2. waiting \cup Running \cup ended \subseteq waiting' \cup Running' \cup ended'
    BY DEF Turn, Proceeds, Running, Terminal
  <2>3. ended \subseteq ended'
    BY DEF Turn, Proceeds
  <2>4. waiting' \cap Running' = {} /\ ended' \cap (waiting' \cup Running') = {}
    BY DEF Running, Terminal
  <2> QED
    BY <2>1, <2>2, <2>3, <2>4 DEF Pool!JobsProceed
<1>3. IsFiniteSet(Running \ Running') /\ Cardinality(Running \ Running') \in Nat
  <2>1. Running \ Running' \subseteq Objs
    BY DEF Running
  <2> QED
    BY <2>1, ObjsFinite, FS_Subset, FS_CardinalityType
<1>4. Pool!SlotsProceed
  BY <1>1, <1>3, PoolCardinality DEF Pool!SlotsProceed
<1>5. Cardinality(Running') \in Nat
  <2>1. Running' \subseteq Objs
    BY DEF Running
  <2> QED
    BY <2>1, ObjsFinite, FS_Subset, FS_CardinalityType
<1>6. Pool!StartsWithinLimit
  BY <1>5, PoolCardinality DEF Turn, StartsInSlots, Pool!StartsWithinLimit, Pool!InUse
<1>7. Pool!LeavesNoneWaiting
  <2>1. CASE waiting' = {}
    BY <2>1, FS_EmptySet, PoolCardinality DEF Pool!LeavesNoneWaiting
  <2>2. CASE waiting' # {}
    <3>1. Cardinality(Running') >= maxConcurrent'
      BY <2>2 DEF Turn, Full
    <3> QED
      BY <1>5, <3>1, PoolCardinality DEF Pool!LeavesNoneWaiting, Pool!InUse
  <2> QED
    BY <2>1, <2>2
<1> QED
  BY <1>2, <1>4, <1>6, <1>7 DEF Pool!Next

LEMMA InitPool == Init => Pool!Init /\ Full
<1> SUFFICES ASSUME Init PROVE Pool!Init /\ Full
  OBVIOUS
<1>1. \A o \in Objs : qstat[o] = "none"
  BY DEF Init
<1>2. Full /\ Running = {}
  BY <1>1 DEF Full, Running
<1>3. maxConcurrent \in Nat \ {0}
  BY InitType DEF TypeOK
<1> QED
  BY <1>1, <1>2, <1>3 DEF Pool!Init, Terminal

\* A queued task leaves the Map by starting or by a cancel: no resume, retention
\* timer or new task of another id takes its entry.
THEOREM QueuedTasksLeaveProperly == ASSUME Ordinary PROVE Spec => QueuedLeavesProperly
<1>1. Init => TypeOK /\ SlotInv /\ Known /\ Full
  BY InitType, InitSlots, InitKnown, InitPool
<1>2. TypeOK /\ SlotInv /\ Known /\ Full /\ [Next]_vars
        => (TypeOK /\ SlotInv /\ Known)' /\ Turn /\ LeavesProperly
  BY NextType, NextSlots, NextKnown, NextTurn
<1>3. Turn => Full'
  BY DEF Turn
<1>4. Spec => [][LeavesProperly]_vars
  BY <1>1, <1>2, <1>3, PTL DEF Spec
<1> QED
  BY <1>4 DEF QueuedLeavesProperly, LeavesProperly

\* The queue is a pool of slots: it starts tasks into free slots only, leaves
\* none waiting beside a free one, whether an exit, a lowered or raised limit or
\* a new task changed that, and loses none.
THEOREM QueueImplementsPool == ASSUME Ordinary PROVE Spec => ImplementsPool
<1>1. Init => TypeOK /\ SlotInv /\ Known /\ Full /\ Pool!Init
  BY InitType, InitSlots, InitKnown, InitPool
<1>2. TypeOK /\ SlotInv /\ Known /\ Full /\ [Next]_vars
        => (TypeOK /\ SlotInv /\ Known)' /\ Turn
  BY NextType, NextSlots, NextKnown, NextTurn
<1>3. Turn => Full'
  BY DEF Turn
<1>4. TypeOK /\ SlotInv /\ Known /\ Full /\ [Next]_vars => [Pool!Next]_(Pool!vars)
  BY <1>2, NextType, TurnIsPoolStep
<1>5. Spec => Pool!Spec
  BY <1>1, <1>2, <1>3, <1>4, PTL DEF Spec, Pool!Spec
<1> QED
  BY <1>5 DEF ImplementsPool
=============================================================================
