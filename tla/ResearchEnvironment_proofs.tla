--------------------- MODULE ResearchEnvironment_proofs ---------------------
(***************************************************************************)
(* Proofs about ResearchEnvironment, for any processes, numbers of jobs,   *)
(* lock versions and crashes.  A job claims the profile while its row is   *)
(* running; it writes to .pixi while it is at a stage in Writers.  The two *)
(* come apart only when a job is reclaimed while its child still works,    *)
(* and that takes a claim that went stale in the meantime: Claims says     *)
(* so, and is what makes OneWriter follow from OneActiveJob.               *)
(* What is published belongs to the job admitted last: Sound relates its   *)
(* row, the marker of an owed cleanup and the prefixes.                    *)
(***************************************************************************)
EXTENDS ResearchEnvironment, TLAPS

\* The claim and the work it protects.
Claims ==
    /\ \A i \in Ids : jobs[i].at \in Writers /\ jobs[i].stale => starved
    /\ ~starved => \A i \in Ids : jobs[i].at \in Writers => Running(i)

IInv == TypeOK /\ OneActiveJob /\ Claims

\* Ids are given out in order, and only the job admitted last can be active.
Numbered ==
    \A i \in Ids :
        /\ jobs[i].state = None <=> njobs < i
        /\ Running(i) => i = njobs

\* Nothing works for a job that succeeded, and a verify starts no pixi.
Stages ==
    \A i \in Ids : jobs[i].at # None =>
        /\ jobs[i].state \in {"running", "failed"}
        /\ jobs[i].op = "verify" => jobs[i].at = "probe"

\* The prefix that is still to be removed is not the published one; it is what
\* the active job removes, and there is none left once it builds.
Marker ==
    /\ published.pending # None => published.pending # Active
    /\ \A i \in Ids : Running(i) =>
        /\ jobs[i].at \in {"recover", "cleanup"} => jobs[i].on = published.pending
        /\ jobs[i].at \in {"pixi", "probe"} /\ jobs[i].op # "verify" =>
               published.pending = None

\* What the last job found is published, from the switch on, and as long as no
\* two children write it is still as the probe saw it.
Found(i) == jobs[i].state = "succeeded" \/ (Running(i) /\ jobs[i].at = "cleanup")
Attested ==
    \A i \in Ids : i = njobs /\ Found(i) =>
        /\ published.status = jobs[i].result
        /\ ~starved /\ jobs[i].result.ready => prefix[jobs[i].result.proj] = "built"

Sound == Numbered /\ Stages /\ Marker /\ Attested

\* What LostChangesNothing and MarkerKept say of a step.
LostSame ==
    \A j \in Ids :
        j <= njobs /\ ~Running(j) =>
            /\ jobs'[j].state = jobs[j].state
            /\ jobs'[j].result = jobs[j].result
            /\ jobs'[j].at # jobs[j].at => published' = published
MarkerSame ==
    ~starved /\ published.pending \in Projs /\ published'.pending = None =>
        \/ prefix'[published.pending] = "absent"
        \/ \E j \in Ids : Running(j) /\ jobs[j].op = "verify"

-----------------------------------------------------------------------------
(* Types.                                                                  *)

LEMMA StatusTypes ==
    ASSUME TypeOK
    PROVE  /\ NoRow \in Rows
           /\ NoStatus \in Statuses
           /\ Active \in Projs
           /\ \A q \in Projs : Other(q) \in Projs
           /\ \A op \in Operations : Target(op) \in Projs /\ Operation(op) \in Operations
           /\ \A i \in Ids : jobs[i] \in Rows /\ jobs[i].result \in Statuses
<1> USE ConstantsAssumption DEF TypeOK
<1>1. NoStatus \in Statuses
  BY DEF NoStatus, Statuses, Projs
<1>2. NoRow \in Rows
  BY <1>1 DEF NoRow, Rows, Operations, Projs, None
<1>3. Active \in Projs
  BY DEF Active, Statuses
<1>4. \A q \in Projs : Other(q) \in Projs
  BY DEF Other, Projs
<1>5. \A op \in Operations : Target(op) \in Projs /\ Operation(op) \in Operations
  BY <1>3 DEF Target, Operation, Operations, Projs
<1>6. \A i \in Ids : jobs[i] \in Rows /\ jobs[i].result \in Statuses
  BY DEF Rows
<1> QED
  BY <1>1, <1>2, <1>3, <1>4, <1>5, <1>6

\* What is left of a finished job is a row without a child and without a claim.
LEMMA EndedRow ==
    ASSUME TypeOK, NEW i \in Ids,
           NEW state \in {None, "running", "succeeded", "failed"}
    PROVE  /\ Ended(i, state) \in Rows
           /\ Ended(i, state).at = None
           /\ Ended(i, state).state = state
<1>1. NoRow \in Rows /\ jobs[i].result \in Statuses
  BY StatusTypes
<1> QED
  BY <1>1 DEF Ended, Rows, NoRow, None

LEMMA RowUpdate ==
    ASSUME TypeOK, NEW j \in Ids, NEW r \in Rows,
           jobs' = [jobs EXCEPT ![j] = r]
    PROVE  /\ jobs' \in [Ids -> Rows]
           /\ jobs'[j] = r
           /\ \A i \in Ids : i # j => jobs'[i] = jobs[i]
  BY DEF TypeOK

\* A child leaves one of the four kinds of prefix behind.
LEMMA ChildTypes ==
    ASSUME TypeOK, NEW j \in Ids, NEW ok \in BOOLEAN, ChildEnds(j, ok)
    PROVE  prefix' \in [Projs -> {"absent", "broken", "damaged", "built"}]
<1>1. jobs[j].on \in Projs
  BY StatusTypes DEF Rows
<1>2. After(j, ok) \subseteq {"absent", "broken", "damaged", "built"}
  BY <1>1 DEF After, TypeOK
<1> QED
  BY <1>1, <1>2 DEF ChildEnds, TypeOK

-----------------------------------------------------------------------------
(* Steps that change one row.                                              *)

\* A step that gives no row a claim, keeps what it left of a claim or drops it,
\* and lets a claim go stale over a working child only by saying so.
LEMMA RowStep ==
    ASSUME IInv, NEW j \in Ids,
           jobs' \in [Ids -> Rows],
           \A i \in Ids : i # j => jobs'[i] = jobs[i],
           jobs'[j].state = "running" => Running(j),
           starved => starved',
           jobs'[j].at \in Writers /\ jobs'[j].stale => starved',
           ~starved' /\ jobs'[j].at \in Writers => jobs'[j].state = "running"
    PROVE  OneActiveJob' /\ Claims'
<1>1. OneActiveJob'
  <2> SUFFICES ASSUME NEW i \in Ids, NEW k \in Ids, Running(i)', Running(k)'
               PROVE  i = k
    BY DEF OneActiveJob
  <2>1. Running(i) /\ Running(k)
    BY DEF Running
  <2> QED
    BY <2>1 DEF IInv, OneActiveJob
<1>2. Claims'
  <2>1. \A i \in Ids : (jobs[i].at \in Writers /\ jobs[i].stale => starved)'
    BY DEF IInv, Claims
  <2>2. (~starved => \A i \in Ids : jobs[i].at \in Writers => Running(i))'
    BY DEF IInv, Claims, Running
  <2> QED
    BY <2>1, <2>2 DEF Claims
<1> QED
  BY <1>1, <1>2

\* The row of a job that ends, whether it still owns its claim or lost it.
LEMMA FailStep ==
    ASSUME IInv, NEW j \in Ids, jobs[j].owner \in Procs, starved' = starved, Fail(j)
    PROVE  /\ jobs' \in [Ids -> Rows]
           /\ published' = published
           /\ idle' \in [Procs -> BOOLEAN]
           /\ OneActiveJob' /\ Claims'
<1> DEFINE r == Ended(j, "failed")
<1>1. r \in Rows /\ r.at = None /\ r.state = "failed"
  BY EndedRow DEF IInv
<1>2. jobs' = [jobs EXCEPT ![j] = r] /\ published' = published
  BY DEF Fail
<1> HIDE DEF r
<1>3. jobs' \in [Ids -> Rows] /\ jobs'[j] = r /\ \A i \in Ids : i # j => jobs'[i] = jobs[i]
  BY <1>1, <1>2, RowUpdate DEF IInv
<1>4. idle' \in [Procs -> BOOLEAN]
  BY DEF Fail, IInv, TypeOK
<1>5. OneActiveJob' /\ Claims'
  BY <1>1, <1>3, RowStep DEF Writers, None
<1> QED
  BY <1>2, <1>3, <1>4, <1>5

LEMMA SucceedStep ==
    ASSUME IInv, NEW j \in Ids, jobs[j].owner \in Procs, Owned(j),
           NEW s \in Statuses, starved' = starved, Succeed(j, s)
    PROVE  /\ jobs' \in [Ids -> Rows]
           /\ published' \in [status : Statuses, pending : Projs \cup {None}]
           /\ idle' \in [Procs -> BOOLEAN]
           /\ OneActiveJob' /\ Claims'
<1> DEFINE r == [Ended(j, "succeeded") EXCEPT !.result = s]
<1>1. Ended(j, "succeeded") \in Rows /\ Ended(j, "succeeded").at = None
      /\ Ended(j, "succeeded").state = "succeeded"
  BY EndedRow DEF IInv
<1>2. r \in Rows /\ r.at = None /\ r.state = "succeeded"
  <2> HIDE DEF Ended
  <2> QED BY <1>1 DEF Rows
<1>3. jobs' = [jobs EXCEPT ![j] = r]
  BY DEF Succeed
<1> HIDE DEF r
<1>4. jobs' \in [Ids -> Rows] /\ jobs'[j] = r /\ \A i \in Ids : i # j => jobs'[i] = jobs[i]
  BY <1>2, <1>3, RowUpdate DEF IInv
<1>5. idle' \in [Procs -> BOOLEAN]
  BY DEF Succeed, IInv, TypeOK
<1>6. published' \in [status : Statuses, pending : Projs \cup {None}]
  BY DEF Succeed
<1>7. OneActiveJob' /\ Claims'
  BY <1>2, <1>4, RowStep DEF Writers, None
<1> QED
  BY <1>4, <1>5, <1>6, <1>7

\* A job that goes on: its row gets another stage, and it keeps its claim.
LEMMA GoOnStep ==
    ASSUME IInv, NEW j \in Ids, Owned(j), starved' = starved,
           NEW r \in Rows, jobs' = [jobs EXCEPT ![j] = r],
           r.state = "running",
           r.at \in Writers /\ r.stale => starved
    PROVE  jobs' \in [Ids -> Rows] /\ OneActiveJob' /\ Claims'
<1>1. jobs' \in [Ids -> Rows] /\ jobs'[j] = r /\ \A i \in Ids : i # j => jobs'[i] = jobs[i]
  BY RowUpdate DEF IInv
<1>2. OneActiveJob' /\ Claims'
  BY <1>1, RowStep DEF Owned
<1> QED
  BY <1>1, <1>2

-----------------------------------------------------------------------------
(* The actions.                                                            *)

LEMMA StartStep ==
    ASSUME IInv, NEW p \in Procs, NEW asked \in Operations,
           NEW pixiFound \in BOOLEAN, Start(p, asked, pixiFound)
    PROVE  IInv'
<1> DEFINE op == Operation(asked)
           stage == FirstStage(op, pixiFound)
           n == njobs + 1
           row == Admitted(p, op, stage)
<1>1. n \in Ids /\ njobs' \in 0..MaxJobs
  BY ConstantsAssumption DEF Start, IInv, TypeOK, Ids
<1>2. op \in Operations /\ Target(op) \in Projs /\ NoRow \in Rows
  BY StatusTypes DEF IInv
<1>3. /\ stage \in {None, "probe", "recover", "pixi"}
      /\ stage = "recover" => published.pending \in Projs
  BY DEF FirstStage, None
<1>4. row \in Rows /\ ~row.stale /\ (row.at \in Writers => row.state = "running")
  <2>1. NoStatus \in Statuses /\ lock \in 0..MaxLocks
    BY StatusTypes, ConstantsAssumption DEF IInv, TypeOK
  <2>2. CASE stage = None
    BY <2>2, <1>2 DEF Admitted, Rows, NoRow, None, Writers
  <2>3. CASE stage # None
    <3> DEFINE on == IF stage = "recover" THEN published.pending ELSE Target(op)
    <3>1. on \in Projs
      BY <1>2, <1>3
    <3>2. row = [op |-> op, state |-> "running", owner |-> p, stale |-> FALSE,
                 result |-> NoStatus, at |-> stage, on |-> on,
                 to |-> Target(op), lock |-> lock]
      BY <2>3 DEF Admitted
    <3>3. stage \in {None, "probe"} \cup Writers
      BY <1>3 DEF Writers
    <3> HIDE DEF on, row, stage, op
    <3> QED
      BY <3>1, <3>2, <3>3, <2>1, <1>2 DEF Rows
  <2> QED
    BY <2>2, <2>3
<1> HIDE DEF row, stage, op
<1>5. /\ \A i \in Ids : Running(i) => Abandoned(i, p)
      /\ jobs' = [Reconciled(p) EXCEPT ![n] = row]
      /\ njobs' = n
      /\ published' = IF stage = "pixi" THEN [published EXCEPT !.pending = None]
                                        ELSE published
      /\ idle' = [idle EXCEPT ![p] = FALSE]
      /\ UNCHANGED <<prefix, lock, crashes, starved>>
  BY DEF Start, Admissible, row, stage, op
\* After the reconciliation no row has a claim.
<1> DEFINE R == Reconciled(p)
<1>6. ASSUME NEW i \in Ids
      PROVE  /\ R[i] \in Rows
             /\ R[i].state # "running"
             /\ R[i].at \in Writers => starved
  <2>1. jobs[i] \in Rows
    BY DEF IInv, TypeOK
  <2>2. Ended(i, "failed") \in Rows /\ Ended(i, "failed").at = None
        /\ Ended(i, "failed").state = "failed"
    BY EndedRow DEF IInv
  <2>3. R[i] = IF ~Abandoned(i, p) THEN jobs[i]
                           ELSE IF jobs[i].at = None THEN Ended(i, "failed")
                           ELSE [jobs[i] EXCEPT !.state = "failed", !.stale = FALSE]
    BY DEF Reconciled
  <2>4. CASE ~Abandoned(i, p)
    <3>1. ~Running(i)
      BY <2>4, <1>5
    <3> QED
      BY <2>1, <2>3, <2>4, <3>1 DEF IInv, Claims, Running
  <2>5. CASE Abandoned(i, p) /\ jobs[i].at = None
    <3> HIDE DEF Ended
    <3> QED
      BY <2>2, <2>3, <2>5 DEF Writers, None
  <2>6. CASE Abandoned(i, p) /\ jobs[i].at # None
    <3> DEFINE r == [jobs[i] EXCEPT !.state = "failed", !.stale = FALSE]
    <3>1. r \in Rows /\ r.state = "failed" /\ r.at = jobs[i].at
      BY <2>1 DEF Rows
    <3>2. jobs[i].at \in Writers => starved
      BY <2>6 DEF Abandoned, IInv, Claims
    <3> QED
      BY <3>1, <3>2, <2>3, <2>6
  <2> QED
    BY <2>4, <2>5, <2>6
<1>7. R = [i \in Ids |-> R[i]]
  BY DEF Reconciled
<1>12. jobs' = [R EXCEPT ![n] = row]
  BY <1>5
<1> HIDE DEF n, R
<1>8. /\ jobs' \in [Ids -> Rows]
      /\ jobs'[n] = row
      /\ \A i \in Ids : i # n => jobs'[i] = R[i]
  <2>1. R \in [Ids -> Rows]
    BY <1>6, <1>7, Zenon
  <2> QED
    BY <2>1, <1>1, <1>4, <1>12
<1>9. TypeOK'
  <2>1. /\ published' \in [status : Statuses, pending : Projs \cup {None}]
        /\ idle' \in [Procs -> BOOLEAN]
    BY <1>5 DEF IInv, TypeOK
  <2> QED
    BY <2>1, <1>1, <1>5, <1>8 DEF IInv, TypeOK
<1>10. OneActiveJob'
  <2> SUFFICES ASSUME NEW i \in Ids, NEW k \in Ids,
                      jobs'[i].state = "running", jobs'[k].state = "running"
               PROVE  i = k
    BY DEF OneActiveJob, Running
  <2>1. i = n
    BY <1>6, <1>8, Zenon
  <2>2. k = n
    BY <1>6, <1>8, Zenon
  <2> QED
    BY <2>1, <2>2
<1>11. Claims'
  <2> SUFFICES ASSUME NEW i \in Ids, jobs'[i].at \in Writers
               PROVE  /\ jobs'[i].stale => starved'
                      /\ ~starved' => jobs'[i].state = "running"
    BY DEF Claims, Running
  <2>1. CASE i = n
    BY <2>1, <1>4, <1>8
  <2>2. CASE i # n
    <3>1. R[i].at \in Writers
      BY <2>2, <1>8
    <3>2. starved
      BY <3>1, <1>6, Zenon
    <3>3. starved' = starved
      BY <1>5, Zenon
    <3> QED
      BY <3>2, <3>3, Zenon
  <2> QED
    BY <2>1, <2>2
<1> QED
  BY <1>9, <1>10, <1>11 DEF IInv

\* What the steps after a child have in common.
LEMMA StageTypes ==
    ASSUME IInv,
           prefix' \in [Projs -> {"absent", "broken", "damaged", "built"}],
           jobs' \in [Ids -> Rows], OneActiveJob', Claims',
           published' \in [status : Statuses, pending : Projs \cup {None}],
           idle' \in [Procs -> BOOLEAN],
           UNCHANGED <<njobs, lock, crashes, starved>>
    PROVE  IInv'
  BY DEF IInv, TypeOK

LEMMA RecoverStep ==
    ASSUME IInv, NEW j \in Ids, RecoverEnds(j)
    PROVE  IInv'
<1>1. PICK ok \in BOOLEAN :
        /\ ChildEnds(j, ok)
        /\ IF ok /\ Owned(j)
           THEN /\ jobs' = [jobs EXCEPT ![j].at = "pixi", ![j].on = jobs[j].to]
                /\ published' = [published EXCEPT !.pending = None]
                /\ UNCHANGED idle
           ELSE Fail(j)
  BY DEF RecoverEnds
<1>2. jobs[j].at = "recover" /\ jobs[j].owner \in Procs
      /\ UNCHANGED <<njobs, lock, crashes, starved>>
  BY DEF RecoverEnds, Works
<1>3. prefix' \in [Projs -> {"absent", "broken", "damaged", "built"}]
  BY <1>1, ChildTypes DEF IInv
<1>4. CASE ok /\ Owned(j)
  <2> DEFINE r == [jobs[j] EXCEPT !.at = "pixi", !.on = jobs[j].to]
  <2>1. jobs[j] \in Rows
    BY DEF IInv, TypeOK
  <2>2. r \in Rows /\ r.state = jobs[j].state /\ r.stale = jobs[j].stale
    BY <2>1 DEF Rows, Writers
  <2>3. jobs' = [jobs EXCEPT ![j] = r]
    BY <1>1, <1>4, <2>1 DEF IInv, TypeOK
  <2>4. r.state = "running" /\ (r.stale => starved)
    BY <1>2, <1>4, <2>2 DEF Owned, Running, IInv, Claims, Writers
  <2> HIDE DEF r
  <2>5. jobs' \in [Ids -> Rows] /\ OneActiveJob' /\ Claims'
    BY <1>2, <1>4, <2>2, <2>3, <2>4, GoOnStep
  <2>6. published' \in [status : Statuses, pending : Projs \cup {None}]
        /\ idle' \in [Procs -> BOOLEAN]
    BY <1>1, <1>4 DEF IInv, TypeOK
  <2> QED
    BY <1>2, <1>3, <2>5, <2>6, StageTypes
<1>5. CASE ~(ok /\ Owned(j))
  <2>1. /\ jobs' \in [Ids -> Rows] /\ published' = published
        /\ idle' \in [Procs -> BOOLEAN] /\ OneActiveJob' /\ Claims'
    BY <1>1, <1>2, <1>5, FailStep
  <2>2. published' \in [status : Statuses, pending : Projs \cup {None}]
    BY <2>1 DEF IInv, TypeOK
  <2> QED
    BY <1>2, <1>3, <2>1, <2>2, StageTypes
<1> QED
  BY <1>4, <1>5

LEMMA MaterializedStep ==
    ASSUME IInv, NEW j \in Ids, Materialized(j)
    PROVE  IInv'
<1> DEFINE goesOn(ok) == ok /\ Owned(j) /\ prefix'[jobs[j].to] \in {"damaged", "built"}
<1>1. PICK ok \in BOOLEAN :
        /\ ChildEnds(j, ok)
        /\ IF goesOn(ok)
           THEN Enter(j, "probe", jobs[j].to) /\ UNCHANGED <<published, idle>>
           ELSE Fail(j)
  BY DEF Materialized
<1>2. jobs[j].owner \in Procs /\ UNCHANGED <<njobs, lock, crashes, starved>>
  BY DEF Materialized, Works
<1>3. prefix' \in [Projs -> {"absent", "broken", "damaged", "built"}]
  BY <1>1, ChildTypes DEF IInv
<1>4. CASE goesOn(ok)
  <2> DEFINE r == [jobs[j] EXCEPT !.at = "probe", !.on = jobs[j].to, !.stale = FALSE]
  <2>1. jobs[j] \in Rows
    BY DEF IInv, TypeOK
  <2>2. r \in Rows /\ r.state = jobs[j].state /\ r.stale = FALSE
    BY <2>1 DEF Rows
  <2>3. jobs' = [jobs EXCEPT ![j] = r]
    BY <1>1, <1>4, <2>1 DEF IInv, TypeOK, Enter
  <2>4. r.state = "running" /\ Owned(j)
    BY <1>4, <2>2 DEF Owned, Running
  <2> HIDE DEF r
  <2>5. jobs' \in [Ids -> Rows] /\ OneActiveJob' /\ Claims'
    BY <1>2, <2>2, <2>3, <2>4, GoOnStep
  <2>6. published' \in [status : Statuses, pending : Projs \cup {None}]
        /\ idle' \in [Procs -> BOOLEAN]
    BY <1>1, <1>4 DEF IInv, TypeOK
  <2> QED
    BY <1>2, <1>3, <2>5, <2>6, StageTypes
<1>5. CASE ~goesOn(ok)
  <2>1. /\ jobs' \in [Ids -> Rows] /\ published' = published
        /\ idle' \in [Procs -> BOOLEAN] /\ OneActiveJob' /\ Claims'
    BY <1>1, <1>2, <1>5, FailStep
  <2>2. published' \in [status : Statuses, pending : Projs \cup {None}]
    BY <2>1 DEF IInv, TypeOK
  <2> QED
    BY <1>2, <1>3, <2>1, <2>2, StageTypes
<1> QED
  BY <1>4, <1>5

LEMMA UninstalledStep ==
    ASSUME IInv, NEW j \in Ids, Uninstalled(j)
    PROVE  IInv'
<1> DEFINE s == [proj |-> jobs[j].to, lock |-> lock, ready |-> FALSE]
<1>1. PICK ok \in BOOLEAN :
        /\ ChildEnds(j, ok)
        /\ IF ok /\ Owned(j) /\ lock = jobs[j].lock THEN Succeed(j, s) ELSE Fail(j)
  BY DEF Uninstalled
<1>2. jobs[j].owner \in Procs /\ UNCHANGED <<njobs, lock, crashes, starved>>
  BY DEF Uninstalled, Works
<1>3. prefix' \in [Projs -> {"absent", "broken", "damaged", "built"}]
  BY <1>1, ChildTypes DEF IInv
<1>4. CASE ok /\ Owned(j) /\ lock = jobs[j].lock
  <2>1. s \in Statuses
    <3>1. jobs[j].to \in Projs /\ lock \in 0..MaxLocks
      BY ConstantsAssumption DEF IInv, TypeOK, Rows
    <3> QED
      BY <3>1 DEF Statuses
  <2> HIDE DEF s
  <2>2. /\ jobs' \in [Ids -> Rows]
        /\ published' \in [status : Statuses, pending : Projs \cup {None}]
        /\ idle' \in [Procs -> BOOLEAN]
        /\ OneActiveJob' /\ Claims'
    BY <1>1, <1>2, <1>4, <2>1, SucceedStep
  <2> QED
    BY <1>2, <1>3, <2>2, StageTypes
<1>5. CASE ~(ok /\ Owned(j) /\ lock = jobs[j].lock)
  <2>1. /\ jobs' \in [Ids -> Rows] /\ published' = published
        /\ idle' \in [Procs -> BOOLEAN] /\ OneActiveJob' /\ Claims'
    BY <1>1, <1>2, <1>5, FailStep
  <2>2. published' \in [status : Statuses, pending : Projs \cup {None}]
    BY <2>1 DEF IInv, TypeOK
  <2> QED
    BY <1>2, <1>3, <2>1, <2>2, StageTypes
<1> QED
  BY <1>4, <1>5

LEMMA CleanupStep ==
    ASSUME IInv, NEW j \in Ids, CleanupEnds(j)
    PROVE  IInv'
<1>1. PICK ok \in BOOLEAN :
        /\ ChildEnds(j, ok)
        /\ IF ok /\ Owned(j) THEN Succeed(j, jobs[j].result) ELSE Fail(j)
  BY DEF CleanupEnds
<1>2. jobs[j].owner \in Procs /\ UNCHANGED <<njobs, lock, crashes, starved>>
  BY DEF CleanupEnds, Works
<1>3. prefix' \in [Projs -> {"absent", "broken", "damaged", "built"}]
  BY <1>1, ChildTypes DEF IInv
<1>4. CASE ok /\ Owned(j)
  <2>1. jobs[j].result \in Statuses
    BY StatusTypes DEF IInv
  <2>2. /\ jobs' \in [Ids -> Rows]
        /\ published' \in [status : Statuses, pending : Projs \cup {None}]
        /\ idle' \in [Procs -> BOOLEAN]
        /\ OneActiveJob' /\ Claims'
    BY <1>1, <1>2, <1>4, <2>1, SucceedStep
  <2> QED
    BY <1>2, <1>3, <2>2, StageTypes
<1>5. CASE ~(ok /\ Owned(j))
  <2>1. /\ jobs' \in [Ids -> Rows] /\ published' = published
        /\ idle' \in [Procs -> BOOLEAN] /\ OneActiveJob' /\ Claims'
    BY <1>1, <1>2, <1>5, FailStep
  <2>2. published' \in [status : Statuses, pending : Projs \cup {None}]
    BY <2>1 DEF IInv, TypeOK
  <2> QED
    BY <1>2, <1>3, <2>1, <2>2, StageTypes
<1> QED
  BY <1>4, <1>5

LEMMA ProbeStep ==
    ASSUME IInv, NEW j \in Ids, ProbeEnds(j)
    PROVE  IInv'
<1> DEFINE s == [proj |-> jobs[j].to, lock |-> lock, ready |-> TRUE]
<1>1. jobs[j].owner \in Procs /\ UNCHANGED <<njobs, prefix, lock, crashes, starved>>
  BY DEF ProbeEnds, Works
<1>2. prefix' \in [Projs -> {"absent", "broken", "damaged", "built"}]
  BY <1>1 DEF IInv, TypeOK
<1>3. s \in Statuses
  <2>1. jobs[j].to \in Projs /\ lock \in 0..MaxLocks
    BY ConstantsAssumption DEF IInv, TypeOK, Rows
  <2> QED
    BY <2>1 DEF Statuses
<1>4. \/ Owned(j) /\ Succeed(j, s)
      \/ Owned(j) /\ ~Succeed(j, s) /\ Publish(j, s)
      \/ Fail(j)
  BY DEF ProbeEnds
<1> HIDE DEF s
<1>5. CASE Owned(j) /\ Succeed(j, s)
  <2>1. /\ jobs' \in [Ids -> Rows]
        /\ published' \in [status : Statuses, pending : Projs \cup {None}]
        /\ idle' \in [Procs -> BOOLEAN]
        /\ OneActiveJob' /\ Claims'
    BY <1>1, <1>3, <1>5, SucceedStep
  <2> QED
    BY <1>1, <1>2, <2>1, StageTypes
<1>6. CASE Owned(j) /\ ~Succeed(j, s) /\ Publish(j, s)
  <2> DEFINE old == Other(jobs[j].to)
             r == [jobs[j] EXCEPT !.at = "cleanup", !.on = old, !.result = s,
                                  !.stale = FALSE]
  <2>1. /\ published' = [status |-> s, pending |-> old]
        /\ jobs' = [jobs EXCEPT ![j].at = "cleanup", ![j].on = old,
                                ![j].result = s, ![j].stale = FALSE]
        /\ UNCHANGED idle
    BY <1>6 DEF Publish
  <2>2. jobs[j] \in Rows /\ old \in Projs
    BY StatusTypes DEF IInv, TypeOK, Rows
  <2>3. published' \in [status : Statuses, pending : Projs \cup {None}]
        /\ idle' \in [Procs -> BOOLEAN]
    BY <1>3, <2>1, <2>2 DEF IInv, TypeOK
  <2> HIDE DEF old
  <2>4. r \in Rows /\ r.state = jobs[j].state /\ r.stale = FALSE
    BY <1>3, <2>2 DEF Rows, Writers
  <2>5. jobs' = [jobs EXCEPT ![j] = r]
    BY <2>1, <2>2 DEF IInv, TypeOK
  <2>6. r.state = "running"
    BY <1>6, <2>4 DEF Owned, Running
  <2> HIDE DEF r
  <2>7. jobs' \in [Ids -> Rows] /\ OneActiveJob' /\ Claims'
    BY <1>1, <1>6, <2>4, <2>5, <2>6, GoOnStep
  <2> QED
    BY <1>1, <1>2, <2>3, <2>7, StageTypes
<1>7. CASE Fail(j)
  <2>1. /\ jobs' \in [Ids -> Rows] /\ published' = published
        /\ idle' \in [Procs -> BOOLEAN] /\ OneActiveJob' /\ Claims'
    BY <1>1, <1>7, FailStep
  <2>2. published' \in [status : Statuses, pending : Projs \cup {None}]
    BY <2>1 DEF IInv, TypeOK
  <2> QED
    BY <1>1, <1>2, <2>1, <2>2, StageTypes
<1> QED
  BY <1>4, <1>5, <1>6, <1>7

LEMMA HeartbeatStep ==
    ASSUME IInv, NEW j \in Ids, Heartbeat(j)
    PROVE  IInv'
<1> DEFINE r == [jobs[j] EXCEPT !.stale = FALSE]
<1>1. jobs[j] \in Rows
  BY DEF IInv, TypeOK
<1>2. r \in Rows /\ r.state = jobs[j].state /\ r.stale = FALSE
  BY <1>1 DEF Rows
<1>3. /\ jobs' = [jobs EXCEPT ![j] = r]
      /\ Owned(j)
      /\ UNCHANGED <<njobs, published, prefix, idle, lock, crashes, starved>>
  BY <1>1 DEF Heartbeat, IInv, TypeOK
<1>4. r.state = "running"
  BY <1>2, <1>3 DEF Owned, Running
<1> HIDE DEF r
<1>5. jobs' \in [Ids -> Rows] /\ OneActiveJob' /\ Claims'
  BY <1>2, <1>3, <1>4, GoOnStep
<1>6. /\ published' \in [status : Statuses, pending : Projs \cup {None}]
      /\ idle' \in [Procs -> BOOLEAN]
      /\ prefix' \in [Projs -> {"absent", "broken", "damaged", "built"}]
  BY <1>3 DEF IInv, TypeOK
<1> QED
  BY <1>3, <1>5, <1>6, StageTypes

\* The only step that makes a claim stale; it tells when a child was at work.
LEMMA SilenceStep ==
    ASSUME IInv, NEW j \in Ids, Silence(j)
    PROVE  IInv'
<1> DEFINE r == [jobs[j] EXCEPT !.stale = TRUE]
<1>1. jobs[j] \in Rows /\ Running(j)
  BY DEF IInv, TypeOK, Silence
<1>2. r \in Rows /\ r.state = "running" /\ r.at = jobs[j].at
  BY <1>1 DEF Rows, Running
<1>3. /\ jobs' = [jobs EXCEPT ![j] = r]
      /\ starved' = (starved \/ jobs[j].at \in Writers)
      /\ UNCHANGED <<njobs, published, prefix, idle, lock, crashes>>
  BY <1>1 DEF Silence, IInv, TypeOK
<1> HIDE DEF r
<1>4. jobs' \in [Ids -> Rows] /\ jobs'[j] = r /\ \A i \in Ids : i # j => jobs'[i] = jobs[i]
  BY <1>2, <1>3, RowUpdate DEF IInv
<1>5. starved => starved'
  BY <1>3, Zenon
<1>6. jobs'[j].at \in Writers => starved'
  BY <1>2, <1>3, <1>4, Zenon
<1>7. jobs'[j].state = "running"
  BY <1>2, <1>4
<1>8. OneActiveJob' /\ Claims'
  BY <1>1, <1>4, <1>5, <1>6, <1>7, RowStep
<1>9. TypeOK'
  <2>1. starved' \in BOOLEAN
    BY <1>3
  <2> QED
    BY <1>3, <1>4, <2>1 DEF IInv, TypeOK
<1> QED
  BY <1>8, <1>9 DEF IInv

LEMMA OrphanStep ==
    ASSUME IInv, NEW j \in Ids, OrphanEnds(j)
    PROVE  IInv'
<1> DEFINE r == IF Running(j) THEN [jobs[j] EXCEPT !.at = None] ELSE Ended(j, "failed")
<1>1. PICK ok \in BOOLEAN : ChildEnds(j, ok)
  BY DEF OrphanEnds
<1>2. prefix' \in [Projs -> {"absent", "broken", "damaged", "built"}]
  BY <1>1, ChildTypes DEF IInv
<1>3. jobs[j] \in Rows
  BY DEF IInv, TypeOK
<1>4. Ended(j, "failed") \in Rows /\ Ended(j, "failed").at = None
      /\ Ended(j, "failed").state = "failed"
  BY EndedRow DEF IInv
<1>5. r \in Rows /\ r.at = None /\ (r.state = "running" => Running(j))
  <2>1. CASE Running(j)
    BY <2>1, <1>3 DEF Rows
  <2>2. CASE ~Running(j)
    <3> HIDE DEF Ended
    <3> QED
      BY <2>2, <1>4
  <2> QED
    BY <2>1, <2>2
<1>6. /\ jobs' = [jobs EXCEPT ![j] = r]
      /\ UNCHANGED <<njobs, published, idle, lock, crashes, starved>>
  BY DEF OrphanEnds
<1> HIDE DEF r
<1>7. jobs' \in [Ids -> Rows] /\ jobs'[j] = r /\ \A i \in Ids : i # j => jobs'[i] = jobs[i]
  BY <1>5, <1>6, RowUpdate DEF IInv
<1>8. OneActiveJob' /\ Claims'
  BY <1>5, <1>6, <1>7, RowStep DEF Writers, None
<1>9. /\ published' \in [status : Statuses, pending : Projs \cup {None}]
      /\ idle' \in [Procs -> BOOLEAN]
  BY <1>6 DEF IInv, TypeOK
<1> QED
  BY <1>2, <1>6, <1>7, <1>8, <1>9, StageTypes

\* A crash disowns rows and ends probes; claims and pixi children stay.
LEMMA CrashStep ==
    ASSUME IInv, NEW p \in Procs, Crash(p)
    PROVE  IInv'
<1>1. /\ crashes' \in 0..MaxCrashes
      /\ idle' \in [Procs -> BOOLEAN]
      /\ UNCHANGED <<njobs, published, prefix, lock, starved>>
  <2>1. crashes' = crashes + 1 /\ crashes < MaxCrashes /\ crashes \in 0..MaxCrashes
    BY DEF Crash, IInv, TypeOK
  <2>2. crashes' \in 0..MaxCrashes
    BY <2>1, ConstantsAssumption
  <2>3. idle' \in [Procs -> BOOLEAN]
    BY DEF Crash, IInv, TypeOK
  <2>4. UNCHANGED <<njobs, published, prefix, lock, starved>>
    BY DEF Crash
  <2> QED
    BY <2>2, <2>3, <2>4
<1>2. ASSUME NEW i \in Ids
      PROVE  /\ jobs'[i] \in Rows
             /\ jobs'[i].state = "running" => Running(i)
             /\ jobs'[i].at \in Writers =>
                    /\ jobs[i].at \in Writers
                    /\ jobs'[i].stale = jobs[i].stale
                    /\ jobs'[i].state = jobs[i].state
  <2> DEFINE orphan == [jobs[i] EXCEPT !.owner = Nobody,
                            !.at = IF jobs[i].at \in Writers THEN jobs[i].at ELSE None]
  <2>1. jobs[i] \in Rows /\ jobs[i].state \in {None, "running", "succeeded", "failed"}
    BY DEF IInv, TypeOK, Rows
  <2>2. jobs'[i] = IF jobs[i].owner # p THEN jobs[i]
                   ELSE IF Running(i) \/ jobs[i].at \in Writers THEN orphan
                   ELSE Ended(i, jobs[i].state)
    BY <2>1 DEF Crash
  <2>3. CASE jobs[i].owner # p
    BY <2>1, <2>2, <2>3 DEF Running
  <2>4. CASE jobs[i].owner = p /\ (Running(i) \/ jobs[i].at \in Writers)
    <3>1. /\ orphan \in Rows /\ orphan.state = jobs[i].state
          /\ orphan.stale = jobs[i].stale
          /\ orphan.at = IF jobs[i].at \in Writers THEN jobs[i].at ELSE None
      BY <2>1 DEF Rows
    <3>2. None \notin Writers
      BY DEF None, Writers
    <3> QED
      BY <2>2, <2>4, <3>1, <3>2 DEF Running
  <2>5. CASE jobs[i].owner = p /\ ~(Running(i) \/ jobs[i].at \in Writers)
    <3>1. Ended(i, jobs[i].state) \in Rows /\ Ended(i, jobs[i].state).at = None
          /\ Ended(i, jobs[i].state).state = jobs[i].state
      BY <2>1, EndedRow DEF IInv
    <3> HIDE DEF Ended
    <3>2. None \notin Writers
      BY DEF None, Writers
    <3> QED
      BY <2>2, <2>5, <3>1, <3>2 DEF Running
  <2> QED
    BY <2>3, <2>4, <2>5
<1>3. jobs' \in [Ids -> Rows]
  <2>1. jobs' = [i \in Ids |-> jobs'[i]]
    BY DEF Crash
  <2> QED
    BY <1>2, <2>1, Zenon
<1>4. TypeOK'
  BY <1>1, <1>3 DEF IInv, TypeOK
<1>5. OneActiveJob'
  <2> SUFFICES ASSUME NEW i \in Ids, NEW k \in Ids,
                      jobs'[i].state = "running", jobs'[k].state = "running"
               PROVE  i = k
    BY DEF OneActiveJob, Running
  <2> QED
    BY <1>2 DEF IInv, OneActiveJob
<1>6. Claims'
  <2> SUFFICES ASSUME NEW i \in Ids, jobs'[i].at \in Writers
               PROVE  /\ jobs'[i].stale => starved'
                      /\ ~starved' => jobs'[i].state = "running"
    BY DEF Claims, Running
  <2>1. jobs[i].at \in Writers /\ jobs'[i].stale = jobs[i].stale
        /\ jobs'[i].state = jobs[i].state
    BY <1>2
  <2> QED
    BY <1>1, <2>1 DEF IInv, Claims, Running
<1> QED
  BY <1>4, <1>5, <1>6 DEF IInv

-----------------------------------------------------------------------------
(* The specification.                                                      *)

LEMMA Initially ==
    ASSUME Init
    PROVE  IInv
<1>1. NoRow \in Rows /\ NoStatus \in Statuses /\ NoRow.state # "running"
      /\ NoRow.at \notin Writers
  <2>1. NoStatus \in Statuses
    BY ConstantsAssumption DEF NoStatus, Statuses, Projs
  <2> QED
    BY <2>1, ConstantsAssumption DEF NoRow, Rows, Operations, Projs, None, Writers
<1>2. TypeOK
  <2>1. jobs \in [Ids -> Rows] /\ published \in [status : Statuses, pending : Projs \cup {None}]
    BY <1>1 DEF Init
  <2>2. prefix \in [Projs -> {"absent", "broken", "damaged", "built"}]
    BY DEF Init
  <2>3. idle \in [Procs -> BOOLEAN] /\ starved \in BOOLEAN
    BY DEF Init
  <2>4. njobs \in 0..MaxJobs /\ lock \in 1..MaxLocks /\ crashes \in 0..MaxCrashes
    BY ConstantsAssumption DEF Init
  <2> QED
    BY <2>1, <2>2, <2>3, <2>4 DEF TypeOK
<1>3. OneActiveJob /\ Claims
  BY <1>1 DEF Init, OneActiveJob, Claims, Running
<1> QED
  BY <1>2, <1>3 DEF IInv

LEMMA Preserved ==
    ASSUME IInv, [Next]_vars
    PROVE  IInv'
<1>1. CASE \E p \in Procs : Ask(p)
  BY <1>1, StartStep DEF Ask
<1>2. CASE \E p \in Procs : Crash(p)
  BY <1>2, CrashStep
<1>3. CASE \E j \in Ids : StageEnds(j)
  BY <1>3, RecoverStep, MaterializedStep, UninstalledStep, ProbeStep, CleanupStep
  DEF StageEnds
<1>4. CASE \E j \in Ids : Progress(j)
  BY <1>4 DEF Progress, IInv, TypeOK, OneActiveJob, Claims, Running
<1>5. CASE \E j \in Ids : Heartbeat(j)
  BY <1>5, HeartbeatStep
<1>6. CASE \E j \in Ids : Silence(j)
  BY <1>6, SilenceStep
<1>7. CASE \E j \in Ids : OrphanEnds(j)
  BY <1>7, OrphanStep
<1>8. CASE CommitLock
  BY <1>8, ConstantsAssumption DEF CommitLock, IInv, TypeOK, OneActiveJob, Claims, Running
<1>9. CASE UNCHANGED vars
  BY <1>9 DEF vars, IInv, TypeOK, OneActiveJob, Claims, Running
<1> QED
  BY <1>1, <1>2, <1>3, <1>4, <1>5, <1>6, <1>7, <1>8, <1>9 DEF Next

\* In every behaviour a row whose pixi child works is one that still claims the
\* profile, unless its claim went stale meanwhile; types and one active job with it.
THEOREM Invariant == Spec => []IInv
<1>1. Init => IInv
  BY Initially
<1>2. IInv /\ [Next]_vars => IInv'
  BY Preserved
<1> QED
  BY <1>1, <1>2, PTL DEF Spec

\* Every variable keeps its type.
THEOREM TypeCorrect == Spec => []TypeOK
<1>1. IInv => TypeOK
  BY DEF IInv
<1> QED
  BY <1>1, Invariant, PTL

\* However many processes admit, crash and reclaim, one job of the profile is
\* active.
THEOREM OneJob == Spec => []OneActiveJob
<1>1. IInv => OneActiveJob
  BY DEF IInv
<1> QED
  BY <1>1, Invariant, PTL

\* Two pixi children never write at once unless a claim went stale under a
\* child at work.
THEOREM Exclusive == Spec => []OneWriter
<1>1. IInv => OneWriter
  BY DEF IInv, Claims, OneActiveJob, OneWriter
<1> QED
  BY <1>1, Invariant, PTL

\* Types, jobs and children together.
THEOREM Excludes == Spec => []Exclusion
BY TypeCorrect, OneJob, Exclusive, PTL DEF Exclusion

-----------------------------------------------------------------------------
(* Publication.  A step is the turn of the active job, of a job that lost   *)
(* its claim, of the world, or the admission of a new job; what each of     *)
(* them may do to the rows is stated once.                                  *)

LEMMA ActiveTurn ==
    ASSUME TypeOK, Sound, NEW j \in Ids, Running(j),
           njobs' = njobs,
           \A i \in Ids : i # j => jobs'[i] = jobs[i],
           jobs'[j].state \in {"running", "succeeded", "failed"},
           jobs'[j].at # None =>
               /\ jobs'[j].state = "running"
               /\ jobs'[j].op = "verify" => jobs'[j].at = "probe",
           published'.pending # None => published'.pending # published'.status.proj,
           jobs'[j].state = "running" =>
               /\ jobs'[j].at \in {"recover", "cleanup"} => jobs'[j].on = published'.pending
               /\ jobs'[j].at \in {"pixi", "probe"} /\ jobs'[j].op # "verify" =>
                      published'.pending = None,
           Found(j)' =>
               /\ published'.status = jobs'[j].result
               /\ ~starved' /\ jobs'[j].result.ready =>
                      prefix'[jobs'[j].result.proj] = "built",
           MarkerSame
    PROVE  Sound' /\ LostSame /\ MarkerSame
<1>1. /\ j = njobs /\ njobs \in Nat
      /\ \A i \in Ids : i # j => jobs[i].state # "running"
  BY ConstantsAssumption DEF Sound, Numbered, Running, TypeOK, Ids
<1>2. Numbered'
  <2>1. jobs[j].state # None /\ jobs'[j].state # None
    BY DEF Running, None
  <2> QED
    BY <1>1, <2>1 DEF Sound, Numbered, Running
<1>3. Stages'
  BY <1>1 DEF Sound, Stages, Running
<1>4. Marker'
  BY <1>1 DEF Sound, Marker, Running, Active
<1>5. Attested'
  <2> SUFFICES ASSUME NEW i \in Ids, i = njobs, Found(i)'
               PROVE  /\ published'.status = jobs'[i].result
                      /\ ~starved' /\ jobs'[i].result.ready =>
                             prefix'[jobs'[i].result.proj] = "built"
    BY DEF Attested
  <2>1. i = j
    BY <1>1
  <2> QED
    BY <2>1
<1>6. LostSame
  BY DEF LostSame
<1> QED
  BY <1>2, <1>3, <1>4, <1>5, <1>6 DEF Sound

LEMMA LostTurn ==
    ASSUME TypeOK, Sound, NEW j \in Ids, ~Running(j), jobs[j].at # None,
           njobs' = njobs, published' = published, starved' = starved,
           ~starved => prefix' = prefix,
           \A i \in Ids : i # j => jobs'[i] = jobs[i],
           jobs'[j].state = "failed", jobs'[j].at = None,
           jobs'[j].result = jobs[j].result
    PROVE  Sound' /\ LostSame /\ MarkerSame
<1>1. jobs[j].state = "failed"
  BY DEF Sound, Stages, Running
<1>2. Numbered'
  BY <1>1 DEF Sound, Numbered, Running, None
<1>3. Stages'
  BY <1>1 DEF Sound, Stages
<1>4. Marker'
  BY <1>1 DEF Sound, Marker, Running, Active
<1>5. Attested'
  <2> SUFFICES ASSUME NEW i \in Ids, i = njobs, Found(i)'
               PROVE  /\ published'.status = jobs'[i].result
                      /\ ~starved' /\ jobs'[i].result.ready =>
                             prefix'[jobs'[i].result.proj] = "built"
    BY DEF Attested
  <2>1. i # j
    BY DEF Found, Running
  <2>2. Found(i) /\ jobs'[i] = jobs[i]
    BY <2>1 DEF Found, Running
  <2>3. /\ published.status = jobs[i].result
        /\ ~starved /\ jobs[i].result.ready => prefix[jobs[i].result.proj] = "built"
    BY <2>2 DEF Sound, Attested
  <2> QED
    BY <2>2, <2>3
<1>6. LostSame /\ MarkerSame
  BY <1>1 DEF LostSame, MarkerSame, None, Projs
<1> QED
  BY <1>2, <1>3, <1>4, <1>5, <1>6 DEF Sound

LEMMA WorldTurn ==
    ASSUME TypeOK, Sound,
           njobs' = njobs, published' = published, prefix' = prefix,
           starved => starved',
           \A i \in Ids :
               /\ jobs'[i].state = jobs[i].state
               /\ jobs'[i].result = jobs[i].result
               /\ jobs'[i].at # None =>
                      /\ jobs'[i].at = jobs[i].at
                      /\ jobs'[i].on = jobs[i].on
                      /\ jobs'[i].op = jobs[i].op
    PROVE  Sound' /\ LostSame /\ MarkerSame
<1>1. Numbered'
  BY DEF Sound, Numbered, Running
<1>2. Stages'
  BY DEF Sound, Stages
<1>3. Marker'
  <2>1. \A i \in Ids : Running(i)' => Running(i)
    BY DEF Running
  <2> QED
    BY <2>1 DEF Sound, Marker, Active, None
<1>4. Attested'
  <2> SUFFICES ASSUME NEW i \in Ids, i = njobs, Found(i)'
               PROVE  /\ published'.status = jobs'[i].result
                      /\ ~starved' /\ jobs'[i].result.ready =>
                             prefix'[jobs'[i].result.proj] = "built"
    BY DEF Attested
  <2>1. Found(i)
    BY DEF Found, Running, None
  <2>2. /\ published.status = jobs[i].result
        /\ ~starved /\ jobs[i].result.ready => prefix[jobs[i].result.proj] = "built"
    BY <2>1 DEF Sound, Attested
  <2> QED
    BY <2>2
<1>5. LostSame /\ MarkerSame
  BY DEF LostSame, MarkerSame, None, Projs
<1> QED
  BY <1>1, <1>2, <1>3, <1>4, <1>5 DEF Sound

\* An admission: every row before the new one has ended.
LEMMA NewTurn ==
    ASSUME TypeOK, Sound, NEW n \in Ids, n = njobs + 1,
           njobs' = n, starved' = starved, prefix' = prefix,
           published'.status = published.status,
           published'.pending \in {published.pending, None},
           \A i \in Ids : i # n =>
               /\ jobs'[i].state # "running"
               /\ jobs'[i].state = None <=> jobs[i].state = None
               /\ ~Running(i) => jobs'[i] = jobs[i]
               /\ jobs'[i].at # None =>
                      /\ jobs'[i].state = "failed"
                      /\ jobs'[i].at = jobs[i].at
                      /\ jobs'[i].op = jobs[i].op,
           jobs'[n].state \in {"running", "failed"},
           jobs'[n].at # None =>
               /\ jobs'[n].op = "verify" => jobs'[n].at = "probe"
               /\ jobs'[n].at \in {"probe", "recover", "pixi"}
               /\ jobs'[n].at = "recover" => jobs'[n].on = published'.pending
               /\ jobs'[n].at \in {"pixi", "probe"} /\ jobs'[n].op # "verify" =>
                      published'.pending = None,
           MarkerSame
    PROVE  Sound' /\ LostSame /\ MarkerSame
<1>1. njobs \in Nat /\ njobs < n
  BY ConstantsAssumption DEF TypeOK, Ids
<1>2. Numbered'
  <2> SUFFICES ASSUME NEW i \in Ids
               PROVE  /\ jobs'[i].state = None <=> n < i
                      /\ jobs'[i].state = "running" => i = n
    BY DEF Numbered, Running
  <2>1. CASE i = n
    BY <2>1, <1>1 DEF None
  <2>2. CASE i # n
    <3>1. jobs'[i].state = None <=> njobs < i
      BY <2>2 DEF Sound, Numbered
    <3>2. njobs < i <=> n < i
      BY <2>2, <1>1 DEF Ids
    <3> QED
      BY <2>2, <3>1, <3>2
  <2> QED
    BY <2>1, <2>2
<1>3. Stages'
  <2> SUFFICES ASSUME NEW i \in Ids, jobs'[i].at # None
               PROVE  /\ jobs'[i].state \in {"running", "failed"}
                      /\ jobs'[i].op = "verify" => jobs'[i].at = "probe"
    BY DEF Stages
  <2>1. CASE i = n
    BY <2>1
  <2>2. CASE i # n
    BY <2>2 DEF Sound, Stages
  <2> QED
    BY <2>1, <2>2
<1>4. Marker'
  <2>1. published'.pending # None => published'.pending # published'.status.proj
    BY DEF Sound, Marker, Active
  <2>2. ASSUME NEW i \in Ids, Running(i)'
        PROVE  /\ jobs'[i].at \in {"recover", "cleanup"} => jobs'[i].on = published'.pending
               /\ jobs'[i].at \in {"pixi", "probe"} /\ jobs'[i].op # "verify" =>
                      published'.pending = None
    <3>1. i = n
      BY <2>2 DEF Running
    <3> QED
      BY <3>1 DEF None
  <2> QED
    BY <2>1, <2>2 DEF Marker, Active
<1>5. Attested'
  <2>1. ~Found(n)'
    BY DEF Found, Running, None
  <2> QED
    BY <2>1 DEF Attested
<1>6. LostSame
  BY <1>1 DEF LostSame, Ids
<1> QED
  BY <1>2, <1>3, <1>4, <1>5, <1>6 DEF Sound

\* A job that fails, active or lost.
LEMMA FailTurn ==
    ASSUME IInv, Sound, NEW j \in Ids, jobs[j].at # None, Fail(j),
           njobs' = njobs, starved' = starved,
           prefix' = prefix \/ jobs[j].at \in Writers
    PROVE  Sound' /\ LostSame /\ MarkerSame
<1> DEFINE r == Ended(j, "failed")
<1>1. /\ r \in Rows /\ r.at = None /\ r.state = "failed"
      /\ r.result = jobs[j].result
  <2>1. NoRow \in Rows /\ jobs[j].result \in Statuses
    BY StatusTypes DEF IInv
  <2> QED
    BY <2>1, EndedRow DEF IInv, Ended, Rows
<1>2. jobs' = [jobs EXCEPT ![j] = r] /\ published' = published
  BY DEF Fail
<1> HIDE DEF r
<1>3. jobs'[j] = r /\ \A i \in Ids : i # j => jobs'[i] = jobs[i]
  BY <1>1, <1>2, RowUpdate DEF IInv
<1>4. CASE Running(j)
  <2>1. MarkerSame
    BY <1>2 DEF MarkerSame, None, Projs
  <2>2. ~Found(j)'
    BY <1>1, <1>3 DEF Found, Running
  <2>3. published'.pending # None => published'.pending # published'.status.proj
    BY <1>2 DEF Sound, Marker, Active
  <2> QED
    BY <1>1, <1>3, <1>4, <2>1, <2>2, <2>3, ActiveTurn DEF IInv
<1>5. CASE ~Running(j)
  <2>1. ~starved => prefix' = prefix
    BY <1>5 DEF IInv, Claims
  <2> QED
    BY <1>1, <1>2, <1>3, <1>5, <2>1, LostTurn DEF IInv
<1> QED
  BY <1>4, <1>5

\* The active job publishes what it found and ends.
LEMMA SucceedTurn ==
    ASSUME IInv, Sound, NEW j \in Ids, Running(j), NEW s \in Statuses, Succeed(j, s),
           njobs' = njobs, starved' = starved,
           ~starved /\ s.ready => prefix'[s.proj] = "built",
           MarkerSame
    PROVE  Sound' /\ LostSame /\ MarkerSame
<1> DEFINE r == [Ended(j, "succeeded") EXCEPT !.result = s]
<1>1. Ended(j, "succeeded") \in Rows /\ Ended(j, "succeeded").at = None
      /\ Ended(j, "succeeded").state = "succeeded"
  BY EndedRow DEF IInv
<1>2. r \in Rows /\ r.at = None /\ r.state = "succeeded" /\ r.result = s
  <2> HIDE DEF Ended
  <2> QED
    BY <1>1 DEF Rows
<1>3. jobs' = [jobs EXCEPT ![j] = r] /\ published' = [status |-> s, pending |-> None]
  BY DEF Succeed
<1> HIDE DEF r
<1>4. jobs'[j] = r /\ \A i \in Ids : i # j => jobs'[i] = jobs[i]
  BY <1>2, <1>3, RowUpdate DEF IInv
<1>5. published'.pending = None /\ published'.status = s
  BY <1>3
<1> QED
  BY <1>2, <1>4, <1>5, ActiveTurn DEF IInv

\* A child changes one prefix only.
LEMMA ChildPlace ==
    ASSUME IInv, NEW j \in Ids, NEW ok \in BOOLEAN, ChildEnds(j, ok)
    PROVE  /\ \A q \in Projs : q # jobs[j].on => prefix'[q] = prefix[q]
           /\ ok /\ Cleaning(j) => prefix'[jobs[j].on] = "absent"
<1>1. jobs[j].on \in Projs
  BY StatusTypes DEF IInv, Rows
<1>2. PICK x \in After(j, ok) : prefix' = [prefix EXCEPT ![jobs[j].on] = x]
  BY DEF ChildEnds
<1>3. ok /\ Cleaning(j) => x = "absent"
  BY <1>2 DEF After
<1> QED
  BY <1>1, <1>2, <1>3 DEF IInv, TypeOK

LEMMA RecoverTurn ==
    ASSUME IInv, Sound, NEW j \in Ids, RecoverEnds(j)
    PROVE  Sound' /\ LostSame /\ MarkerSame
<1>1. PICK ok \in BOOLEAN :
        /\ ChildEnds(j, ok)
        /\ IF ok /\ Owned(j)
           THEN /\ jobs' = [jobs EXCEPT ![j].at = "pixi", ![j].on = jobs[j].to]
                /\ published' = [published EXCEPT !.pending = None]
                /\ UNCHANGED idle
           ELSE Fail(j)
  BY DEF RecoverEnds
<1>2. jobs[j].at = "recover" /\ njobs' = njobs /\ starved' = starved
  BY DEF RecoverEnds, Works
<1>3. CASE ok /\ Owned(j)
  <2> DEFINE r == [jobs[j] EXCEPT !.at = "pixi", !.on = jobs[j].to]
  <2>1. jobs[j] \in Rows /\ Running(j) /\ jobs[j].op # "verify"
    BY <1>2, <1>3 DEF IInv, TypeOK, Owned, Sound, Stages, None
  <2>2. r.state = "running" /\ r.at = "pixi" /\ r.op = jobs[j].op
    BY <2>1 DEF Rows, Running
  <2>3. jobs'[j] = r /\ \A i \in Ids : i # j => jobs'[i] = jobs[i]
    BY <1>1, <1>3, <2>1 DEF IInv, TypeOK
  <2>4. published'.pending = None /\ published'.status = published.status
    BY <1>1, <1>3 DEF IInv, TypeOK
  <2>5. MarkerSame
    <3>1. jobs[j].on = published.pending
      BY <1>2, <2>1 DEF Sound, Marker
    <3>2. prefix'[jobs[j].on] = "absent"
      BY <1>1, <1>2, <1>3, ChildPlace DEF Cleaning
    <3> QED
      BY <3>1, <3>2 DEF MarkerSame
  <2> HIDE DEF r
  <2>6. ~Found(j)'
    BY <2>2, <2>3 DEF Found
  <2> QED
    BY <1>2, <2>1, <2>2, <2>3, <2>4, <2>5, <2>6, ActiveTurn DEF IInv
<1>4. CASE ~(ok /\ Owned(j))
  BY <1>1, <1>2, <1>4, FailTurn DEF Writers, None
<1> QED
  BY <1>3, <1>4

LEMMA MaterializedTurn ==
    ASSUME IInv, Sound, NEW j \in Ids, Materialized(j)
    PROVE  Sound' /\ LostSame /\ MarkerSame
<1> DEFINE goesOn(ok) == ok /\ Owned(j) /\ prefix'[jobs[j].to] \in {"damaged", "built"}
<1>1. PICK ok \in BOOLEAN :
        /\ ChildEnds(j, ok)
        /\ IF goesOn(ok)
           THEN Enter(j, "probe", jobs[j].to) /\ UNCHANGED <<published, idle>>
           ELSE Fail(j)
  BY DEF Materialized
<1>2. jobs[j].at = "pixi" /\ njobs' = njobs /\ starved' = starved
  BY DEF Materialized, Works
<1>3. CASE goesOn(ok)
  <2> DEFINE r == [jobs[j] EXCEPT !.at = "probe", !.on = jobs[j].to, !.stale = FALSE]
  <2>1. jobs[j] \in Rows /\ Running(j) /\ jobs[j].op # "verify"
    BY <1>2, <1>3 DEF IInv, TypeOK, Owned, Sound, Stages, None
  <2>2. r.state = "running" /\ r.at = "probe" /\ r.op = jobs[j].op
    BY <2>1 DEF Rows, Running
  <2>3. jobs'[j] = r /\ \A i \in Ids : i # j => jobs'[i] = jobs[i]
    BY <1>1, <1>3, <2>1 DEF IInv, TypeOK, Enter
  <2>4. published' = published /\ published.pending = None
    BY <1>1, <1>2, <1>3, <2>1 DEF Sound, Marker
  <2>5. MarkerSame
    BY <2>4 DEF MarkerSame, None, Projs
  <2> HIDE DEF r
  <2>6. ~Found(j)'
    BY <2>2, <2>3 DEF Found
  <2> QED
    BY <1>2, <2>1, <2>2, <2>3, <2>4, <2>5, <2>6, ActiveTurn DEF IInv
<1>4. CASE ~goesOn(ok)
  BY <1>1, <1>2, <1>4, FailTurn DEF Writers, None
<1> QED
  BY <1>3, <1>4

LEMMA UninstalledTurn ==
    ASSUME IInv, Sound, NEW j \in Ids, Uninstalled(j)
    PROVE  Sound' /\ LostSame /\ MarkerSame
<1> DEFINE s == [proj |-> jobs[j].to, lock |-> lock, ready |-> FALSE]
<1>1. PICK ok \in BOOLEAN :
        /\ ChildEnds(j, ok)
        /\ IF ok /\ Owned(j) /\ lock = jobs[j].lock THEN Succeed(j, s) ELSE Fail(j)
  BY DEF Uninstalled
<1>2. /\ jobs[j].at = "pixi" /\ jobs[j].op = "uninstall"
      /\ njobs' = njobs /\ starved' = starved
  BY DEF Uninstalled, Works
<1>3. CASE ok /\ Owned(j) /\ lock = jobs[j].lock
  <2>1. s \in Statuses /\ ~s.ready
    <3>1. jobs[j].to \in Projs /\ lock \in 0..MaxLocks
      BY ConstantsAssumption DEF IInv, TypeOK, Rows
    <3> QED
      BY <3>1 DEF Statuses
  <2>2. Running(j) /\ published.pending = None
    BY <1>2, <1>3 DEF Owned, Sound, Marker
  <2>3. MarkerSame
    BY <2>2 DEF MarkerSame, None, Projs
  <2>4. Succeed(j, s)
    BY <1>1, <1>3
  <2> HIDE DEF s
  <2> QED
    BY <1>2, <2>1, <2>2, <2>3, <2>4, SucceedTurn
<1>4. CASE ~(ok /\ Owned(j) /\ lock = jobs[j].lock)
  BY <1>1, <1>2, <1>4, FailTurn DEF Writers, None
<1> QED
  BY <1>3, <1>4

LEMMA CleanupTurn ==
    ASSUME IInv, Sound, NEW j \in Ids, CleanupEnds(j)
    PROVE  Sound' /\ LostSame /\ MarkerSame
<1>1. PICK ok \in BOOLEAN :
        /\ ChildEnds(j, ok)
        /\ IF ok /\ Owned(j) THEN Succeed(j, jobs[j].result) ELSE Fail(j)
  BY DEF CleanupEnds
<1>2. jobs[j].at = "cleanup" /\ njobs' = njobs /\ starved' = starved
  BY DEF CleanupEnds, Works
<1>3. CASE ok /\ Owned(j)
  <2> DEFINE s == jobs[j].result
  <2>1. s \in Statuses /\ Succeed(j, s) /\ Running(j)
    BY <1>1, <1>3, StatusTypes DEF IInv, Owned
  <2>2. jobs[j].on = published.pending /\ prefix'[jobs[j].on] = "absent"
    BY <1>1, <1>2, <1>3, <2>1, ChildPlace DEF Cleaning, Sound, Marker
  <2>3. MarkerSame
    BY <2>2 DEF MarkerSame
  <2>4. /\ published.status = s
        /\ ~starved /\ s.ready => prefix[s.proj] = "built"
    BY <1>2, <2>1 DEF Sound, Attested, Numbered, Found
  <2>5. s.proj \in Projs /\ s.proj # jobs[j].on
    <3>1. jobs[j].on # None
      BY StatusTypes DEF IInv, Rows, Projs, None
    <3> QED
      BY <2>1, <2>2, <2>4, <3>1 DEF Sound, Marker, Active, Statuses
  <2>6. ~starved /\ s.ready => prefix'[s.proj] = "built"
    BY <1>1, <2>4, <2>5, ChildPlace
  <2> HIDE DEF s
  <2> QED
    BY <1>2, <2>1, <2>3, <2>6, SucceedTurn
<1>4. CASE ~(ok /\ Owned(j))
  BY <1>1, <1>2, <1>4, FailTurn DEF Writers, None
<1> QED
  BY <1>3, <1>4

LEMMA ProbeTurn ==
    ASSUME IInv, Sound, NEW j \in Ids, ProbeEnds(j)
    PROVE  Sound' /\ LostSame /\ MarkerSame
<1> DEFINE s == [proj |-> jobs[j].to, lock |-> lock, ready |-> TRUE]
<1>1. jobs[j].at = "probe" /\ njobs' = njobs /\ starved' = starved /\ prefix' = prefix
  BY DEF ProbeEnds, Works
<1>2. s \in Statuses /\ s.proj = jobs[j].to /\ jobs[j].to \in Projs
  <2>1. jobs[j].to \in Projs /\ lock \in 0..MaxLocks
    BY ConstantsAssumption DEF IInv, TypeOK, Rows
  <2> QED
    BY <2>1 DEF Statuses
<1>3. \/ ProbeOk(j) /\ Owned(j) /\ Succeed(j, s)
      \/ ProbeOk(j) /\ Owned(j) /\ ~Succeed(j, s) /\ jobs[j].op \in Transitions /\ Publish(j, s)
      \/ Fail(j)
  BY DEF ProbeEnds
<1>4. ProbeOk(j) => prefix'[s.proj] = "built"
  BY <1>1, <1>2 DEF ProbeOk
<1> HIDE DEF s
<1>5. CASE ProbeOk(j) /\ Owned(j) /\ Succeed(j, s)
  <2>1. Running(j)
    BY <1>5 DEF Owned
  <2>2. MarkerSame
    <3>1. CASE jobs[j].op = "verify"
      BY <2>1, <3>1 DEF MarkerSame
    <3>2. CASE jobs[j].op # "verify"
      <4>1. published.pending = None
        BY <1>1, <2>1, <3>2 DEF Sound, Marker
      <4> QED
        BY <4>1 DEF MarkerSame, None, Projs
    <3> QED
      BY <3>1, <3>2
  <2> QED
    BY <1>1, <1>2, <1>4, <1>5, <2>1, <2>2, SucceedTurn
<1>6. CASE /\ ProbeOk(j) /\ Owned(j) /\ ~Succeed(j, s)
           /\ jobs[j].op \in Transitions /\ Publish(j, s)
  <2> DEFINE old == Other(jobs[j].to)
             r == [jobs[j] EXCEPT !.at = "cleanup", !.on = old, !.result = s,
                                  !.stale = FALSE]
  <2>1. /\ published' = [status |-> s, pending |-> old]
        /\ jobs' = [jobs EXCEPT ![j].at = "cleanup", ![j].on = old,
                                ![j].result = s, ![j].stale = FALSE]
    BY <1>6 DEF Publish
  <2>2. jobs[j] \in Rows /\ Running(j) /\ jobs[j].op # "verify"
    BY <1>6 DEF IInv, TypeOK, Owned, Transitions
  <2>3. old \in Projs /\ old # s.proj /\ old # None
    BY <1>2 DEF Other, Projs, None
  <2> HIDE DEF old
  <2>4. /\ r.state = "running" /\ r.at = "cleanup" /\ r.op = jobs[j].op
        /\ r.on = old /\ r.result = s
    BY <2>2 DEF Rows, Running
  <2>5. jobs'[j] = r /\ \A i \in Ids : i # j => jobs'[i] = jobs[i]
    BY <2>1, <2>2 DEF IInv, TypeOK
  <2>6. published'.pending = old /\ published'.status = s
    BY <2>1
  <2>7. MarkerSame
    BY <2>3, <2>6 DEF MarkerSame
  <2> HIDE DEF r
  <2>8. ProbeOk(j)
    BY <1>6
  <2> QED
    BY <1>1, <1>4, <2>2, <2>3, <2>4, <2>5, <2>6, <2>7, <2>8, ActiveTurn DEF IInv
<1>7. CASE Fail(j)
  BY <1>1, <1>7, FailTurn DEF None
<1> QED
  BY <1>3, <1>5, <1>6, <1>7

\* The child of a dead process ends: its row gets no outcome from it.
LEMMA OrphanTurn ==
    ASSUME IInv, Sound, NEW j \in Ids, OrphanEnds(j)
    PROVE  Sound' /\ LostSame /\ MarkerSame
<1> DEFINE r == IF Running(j) THEN [jobs[j] EXCEPT !.at = None] ELSE Ended(j, "failed")
<1>1. PICK ok \in BOOLEAN : ChildEnds(j, ok)
  BY DEF OrphanEnds
<1>2. /\ jobs[j].at \in Writers /\ jobs' = [jobs EXCEPT ![j] = r]
      /\ njobs' = njobs /\ starved' = starved /\ published' = published
  BY DEF OrphanEnds
<1>3. jobs[j] \in Rows /\ NoRow \in Rows
  BY StatusTypes DEF IInv
<1>4. /\ r \in Rows /\ r.at = None /\ r.result = jobs[j].result
      /\ r.state = IF Running(j) THEN "running" ELSE "failed"
  <2>1. CASE Running(j)
    BY <2>1, <1>3 DEF Rows, Running
  <2>2. CASE ~Running(j)
    <3>1. r = Ended(j, "failed")
      BY <2>2
    <3>2. jobs[j].result \in Statuses
      BY <1>3 DEF Rows
    <3>3. Ended(j, "failed").result = jobs[j].result
      BY <1>3, <3>2 DEF Ended, Rows
    <3> HIDE DEF r
    <3> QED
      BY <2>2, <3>1, <3>3, EndedRow DEF IInv
  <2> QED
    BY <2>1, <2>2
<1> HIDE DEF r
<1>5. jobs'[j] = r /\ \A i \in Ids : i # j => jobs'[i] = jobs[i]
  BY <1>2, <1>4, RowUpdate DEF IInv
<1>6. CASE Running(j)
  <2>1. MarkerSame
    BY <1>2 DEF MarkerSame, None, Projs
  <2>2. ~Found(j)'
    BY <1>4, <1>5, <1>6 DEF Found, None, Running
  <2>3. published'.pending # None => published'.pending # published'.status.proj
    BY <1>2 DEF Sound, Marker, Active
  <2> QED
    BY <1>2, <1>4, <1>5, <1>6, <2>1, <2>2, <2>3, ActiveTurn DEF IInv, None
<1>7. CASE ~Running(j)
  <2>1. jobs[j].at # None
    BY <1>2 DEF Writers, None
  <2>2. starved
    BY <1>2, <1>7 DEF IInv, Claims
  <2> QED
    BY <1>2, <1>4, <1>5, <1>7, <2>1, <2>2, LostTurn DEF IInv
<1> QED
  BY <1>6, <1>7

LEMMA CrashTurn ==
    ASSUME IInv, Sound, NEW p \in Procs, Crash(p)
    PROVE  Sound' /\ LostSame /\ MarkerSame
<1>1. njobs' = njobs /\ published' = published /\ prefix' = prefix /\ starved' = starved
  BY DEF Crash
<1>2. ASSUME NEW i \in Ids
      PROVE  /\ jobs'[i].state = jobs[i].state
             /\ jobs'[i].result = jobs[i].result
             /\ jobs'[i].at # None =>
                    /\ jobs'[i].at = jobs[i].at
                    /\ jobs'[i].on = jobs[i].on
                    /\ jobs'[i].op = jobs[i].op
  <2> DEFINE orphan == [jobs[i] EXCEPT !.owner = Nobody,
                            !.at = IF jobs[i].at \in Writers THEN jobs[i].at ELSE None]
             gone == Ended(i, jobs[i].state)
  <2>1. /\ jobs[i] \in Rows /\ jobs[i].state \in {None, "running", "succeeded", "failed"}
        /\ jobs[i].result \in Statuses /\ NoRow \in Rows
    BY StatusTypes DEF IInv, TypeOK, Rows
  <2>2. jobs'[i] = IF jobs[i].owner # p THEN jobs[i]
                   ELSE IF Running(i) \/ jobs[i].at \in Writers THEN orphan ELSE gone
    BY <2>1 DEF Crash
  <2>3. /\ orphan.state = jobs[i].state /\ orphan.result = jobs[i].result
        /\ orphan.on = jobs[i].on /\ orphan.op = jobs[i].op
        /\ orphan.at # None => orphan.at = jobs[i].at
    BY <2>1 DEF Rows
  <2>4. gone.state = jobs[i].state /\ gone.result = jobs[i].result /\ gone.at = None
    BY <2>1 DEF Ended, Rows, NoRow
  <2> HIDE DEF orphan, gone
  <2>5. jobs'[i] \in {jobs[i], orphan, gone}
    BY <2>2
  <2> QED
    BY <2>3, <2>4, <2>5
<1> QED
  BY <1>1, <1>2, WorldTurn DEF IInv

\* A heartbeat, or the lack of one, says nothing of the environments.
LEMMA ClaimTurn ==
    ASSUME IInv, Sound, NEW j \in Ids, Heartbeat(j) \/ Silence(j)
    PROVE  Sound' /\ LostSame /\ MarkerSame
<1>1. PICK b \in BOOLEAN : jobs' = [jobs EXCEPT ![j].stale = b]
  BY DEF Heartbeat, Silence
<1>2. njobs' = njobs /\ published' = published /\ prefix' = prefix
  BY DEF Heartbeat, Silence
<1>3. starved => starved'
  BY Zenon DEF Heartbeat, Silence
<1>4. ASSUME NEW i \in Ids
      PROVE  /\ jobs'[i].state = jobs[i].state
             /\ jobs'[i].result = jobs[i].result
             /\ jobs'[i].at = jobs[i].at
             /\ jobs'[i].on = jobs[i].on
             /\ jobs'[i].op = jobs[i].op
  <2>1. jobs[i] \in Rows
    BY DEF IInv, TypeOK
  <2> QED
    BY <1>1, <2>1 DEF IInv, TypeOK, Rows
<1> QED
  BY <1>2, <1>3, <1>4, WorldTurn DEF IInv

LEMMA StartTurn ==
    ASSUME IInv, Sound, NEW p \in Procs, NEW asked \in Operations,
           NEW pixiFound \in BOOLEAN, Start(p, asked, pixiFound)
    PROVE  Sound' /\ LostSame /\ MarkerSame
<1> DEFINE op == Operation(asked)
           stage == FirstStage(op, pixiFound)
           n == njobs + 1
           row == Admitted(p, op, stage)
<1>1. n \in Ids
  BY ConstantsAssumption DEF Start, IInv, TypeOK, Ids
<1>2. /\ \A i \in Ids : Running(i) => Abandoned(i, p)
      /\ jobs' = [Reconciled(p) EXCEPT ![n] = row]
      /\ njobs' = n
      /\ published' = IF stage = "pixi" THEN [published EXCEPT !.pending = None]
                                        ELSE published
      /\ prefix' = prefix /\ starved' = starved
  BY DEF Start, Admissible
<1>3. /\ op \in Operations /\ Target(op) \in Projs /\ NoRow \in Rows
      /\ NoStatus \in Statuses /\ lock \in 0..MaxLocks
  BY StatusTypes, ConstantsAssumption DEF IInv, TypeOK
<1>4. /\ stage \in {None, "probe", "recover", "pixi"}
      /\ stage = "probe" <=> (op = "verify" /\ Executable(Active))
      /\ stage = "recover" => op # "verify" /\ published.pending \in Projs
      /\ stage = "pixi" => /\ op # "verify"
                           /\ published.pending \in Projs => ~Exists(published.pending)
  BY DEF FirstStage, None
<1>5. /\ stage = None => row.state = "failed" /\ row.at = None
      /\ stage # None => /\ row.state = "running" /\ row.at = stage /\ row.op = op
                         /\ stage = "recover" => row.on = published.pending
  BY <1>3 DEF Admitted, NoRow, Rows
<1> HIDE DEF row, stage, op, n
<1>6. published'.status = published.status
  BY <1>2 DEF IInv, TypeOK
<1>7. published'.pending = IF stage = "pixi" THEN None ELSE published.pending
  BY <1>2 DEF IInv, TypeOK
<1>8. MarkerSame
  BY <1>2, <1>4, <1>7 DEF MarkerSame, Exists, None, Projs
<1> DEFINE R == Reconciled(p)
<1>9. jobs'[n] = row /\ \A i \in Ids : i # n => jobs'[i] = R[i]
  <2>1. R = [i \in Ids |-> R[i]]
    BY DEF Reconciled
  <2> HIDE DEF R
  <2>2. jobs' = [R EXCEPT ![n] = row]
    BY <1>2 DEF R
  <2> QED
    BY <1>1, <2>1, <2>2
<1>10. ASSUME NEW i \in Ids
       PROVE  /\ R[i].state # "running"
              /\ R[i].state = None <=> jobs[i].state = None
              /\ ~Running(i) => R[i] = jobs[i]
              /\ R[i].at # None =>
                     /\ R[i].state = "failed"
                     /\ R[i].at = jobs[i].at
                     /\ R[i].op = jobs[i].op
  <2> DEFINE left == [jobs[i] EXCEPT !.state = "failed", !.stale = FALSE]
             gone == Ended(i, "failed")
  <2>1. jobs[i] \in Rows
    BY DEF IInv, TypeOK
  <2>2. gone.at = None /\ gone.state = "failed"
    BY EndedRow DEF IInv
  <2>3. left.state = "failed" /\ left.at = jobs[i].at /\ left.op = jobs[i].op
    BY <2>1 DEF Rows
  <2>4. R[i] = IF ~Abandoned(i, p) THEN jobs[i]
               ELSE IF jobs[i].at = None THEN gone ELSE left
    BY DEF Reconciled
  <2> HIDE DEF left, gone, R
  <2>5. CASE ~Running(i)
    <3>1. R[i] = jobs[i]
      BY <2>4, <2>5 DEF Abandoned
    <3>2. jobs[i].at # None => jobs[i].state = "failed"
      BY <2>5 DEF Sound, Stages, Running
    <3> QED
      BY <2>5, <3>1, <3>2 DEF Running
  <2>6. CASE Running(i)
    <3>1. R[i] \in {gone, left}
      BY <1>2, <2>4, <2>6
    <3> QED
      BY <2>2, <2>3, <2>6, <3>1 DEF Running, None
  <2> QED
    BY <2>5, <2>6
<1> HIDE DEF R
<1>11. \A i \in Ids : i # n =>
           /\ jobs'[i].state # "running"
           /\ jobs'[i].state = None <=> jobs[i].state = None
           /\ ~Running(i) => jobs'[i] = jobs[i]
           /\ jobs'[i].at # None =>
                  /\ jobs'[i].state = "failed"
                  /\ jobs'[i].at = jobs[i].at
                  /\ jobs'[i].op = jobs[i].op
  BY <1>9, <1>10
<1>12. n = njobs + 1
  BY DEF n
<1>13. jobs'[n].state \in {"running", "failed"}
  BY <1>5, <1>9
<1>14. jobs'[n].at # None =>
           /\ jobs'[n].op = "verify" => jobs'[n].at = "probe"
           /\ jobs'[n].at \in {"probe", "recover", "pixi"}
           /\ jobs'[n].at = "recover" => jobs'[n].on = published'.pending
           /\ jobs'[n].at \in {"pixi", "probe"} /\ jobs'[n].op # "verify" =>
                  published'.pending = None
  BY <1>4, <1>5, <1>7, <1>9
<1>15. published'.pending \in {published.pending, None}
  BY <1>7
<1> QED
  BY <1>1, <1>2, <1>6, <1>8, <1>11, <1>12, <1>13, <1>14, <1>15, NewTurn DEF IInv

LEMMA EveryTurn ==
    ASSUME IInv, Sound, [Next]_vars
    PROVE  Sound' /\ LostSame /\ MarkerSame
<1>1. CASE \E p \in Procs : Ask(p)
  BY <1>1, StartTurn DEF Ask
<1>2. CASE \E p \in Procs : Crash(p)
  BY <1>2, CrashTurn
<1>3. CASE \E j \in Ids : StageEnds(j)
  BY <1>3, RecoverTurn, MaterializedTurn, UninstalledTurn, ProbeTurn, CleanupTurn
  DEF StageEnds
<1>4. CASE \E j \in Ids : Heartbeat(j) \/ Silence(j)
  BY <1>4, ClaimTurn
<1>5. CASE \E j \in Ids : OrphanEnds(j)
  BY <1>5, OrphanTurn
<1>6. CASE (\E j \in Ids : Progress(j)) \/ CommitLock \/ UNCHANGED vars
  <2>1. /\ njobs' = njobs /\ published' = published /\ prefix' = prefix
        /\ jobs' = jobs /\ starved' = starved
    BY <1>6 DEF Progress, CommitLock, vars
  <2> QED
    BY <2>1, WorldTurn DEF IInv
<1> QED
  BY <1>1, <1>2, <1>3, <1>4, <1>5, <1>6 DEF Next

\* What getStatus reads, once some job has ended: the row admitted last.
LEMMA LatestIsLast ==
    ASSUME TypeOK, Numbered, NEW S,
           S = {i \in Ids : jobs[i].state \in {"succeeded", "failed"}},
           \A i \in Ids : ~Running(i), S # {}
    PROVE  Latest(S) = njobs /\ njobs \in Ids /\ njobs \in S
<1>1. \A i \in Ids : jobs[i].state \in {None, "running", "succeeded", "failed"}
  BY DEF TypeOK, Rows
<1>2. \A i \in Ids : i \in S <=> i <= njobs
  <2> SUFFICES ASSUME NEW i \in Ids
               PROVE  i \in S <=> i <= njobs
    OBVIOUS
  <2>1. i \in S <=> jobs[i].state # None
    BY <1>1 DEF Running, None
  <2>2. i \in Nat /\ njobs \in Nat
    BY ConstantsAssumption DEF TypeOK, Ids
  <2> QED
    BY <2>1, <2>2 DEF Numbered
<1>3. njobs \in Ids /\ njobs \in S
  BY <1>2, ConstantsAssumption DEF TypeOK, Ids
<1>4. Latest(S) \in S /\ \A k \in S : k <= Latest(S)
  <2>1. \E i \in S : \A k \in S : k <= i
    BY <1>2, <1>3
  <2> QED
    BY <2>1 DEF Latest
<1>5. Latest(S) \in Ids
  BY <1>4
<1> QED
  BY <1>2, <1>3, <1>4, <1>5, ConstantsAssumption DEF Ids

\* A ready status after a success: the published one, and complete.
LEMMA SoundStatus ==
    ASSUME IInv, Sound
    PROVE  PublishedIsSound
<1> DEFINE status == GetStatus
           ended == {i \in Ids : jobs[i].state \in {"succeeded", "failed"}}
           good == {i \in Ids : jobs[i].state = "succeeded"}
           latest == jobs[Latest(ended)]
           previous == jobs[Latest(good)].result
<1> SUFFICES ASSUME ~starved
             PROVE  /\ \A j \in Ids : jobs[j].at \in {"recover", "cleanup"} =>
                                         jobs[j].on # Active
                    /\ status.state = "ready" =>
                         \/ /\ latest.state = "succeeded" /\ status.proj = Active
                            /\ prefix[Active] = "built"
                         \/ /\ latest.state = "failed"
                            /\ status.proj = Active \/ ~Usable(published.status)
  BY DEF PublishedIsSound
<1>1. ASSUME NEW j \in Ids, jobs[j].at \in {"recover", "cleanup"}
      PROVE  jobs[j].on # Active
  <2>1. Running(j)
    BY <1>1 DEF IInv, Claims, Writers
  <2>2. jobs[j].on = published.pending /\ jobs[j].on # None
    BY <1>1, <2>1, StatusTypes DEF Sound, Marker, IInv, Rows, Projs, None
  <2> QED
    BY <2>2 DEF Sound, Marker
<1>2. ASSUME status.state = "ready"
      PROVE  \/ /\ latest.state = "succeeded" /\ status.proj = Active
                /\ prefix[Active] = "built"
             \/ /\ latest.state = "failed"
                /\ status.proj = Active \/ ~Usable(published.status)
  <2> DEFINE shown ==
             IF latest.state = "succeeded" THEN
                 IF latest.result.lock # lock \/ ~Executable(Active)
                 THEN Shown("failed", Active)
                 ELSE Shown(IF latest.result.ready THEN "ready" ELSE "absent",
                            latest.result.proj)
             ELSE IF Usable(published.status)
             THEN Shown("ready", published.status.proj)
             ELSE IF good # {} /\ Usable(previous) THEN Shown("ready", previous.proj)
             ELSE Shown("failed", Active)
  <2>1. status = IF \E i \in Ids : Running(i) THEN Shown("busy", Active)
                 ELSE IF ended = {} THEN Shown("absent", Active)
                 ELSE shown
    BY DEF GetStatus
  <2> HIDE DEF status, ended, good, shown
  <2>2. /\ \A i \in Ids : ~Running(i)
        /\ ended # {}
        /\ status = shown
    BY <1>2, <2>1 DEF Shown
  <2>3. Latest(ended) = njobs /\ njobs \in Ids /\ njobs \in ended
    BY <2>2, LatestIsLast DEF ended, IInv, Sound
  <2>4. latest = jobs[njobs] /\ latest.state \in {"succeeded", "failed"}
    BY <2>3 DEF ended
  <2>5. CASE latest.state = "succeeded"
    <3>1. published.status = latest.result
          /\ (latest.result.ready => prefix[latest.result.proj] = "built")
      BY <2>3, <2>4, <2>5 DEF Sound, Attested, Found
    <3>2. latest.result.ready /\ status.proj = latest.result.proj
      BY <1>2, <2>2, <2>5 DEF shown, Shown
    <3> QED
      BY <2>5, <3>1, <3>2 DEF Active
  <2>6. CASE latest.state = "failed"
    <3>1. Usable(published.status) => status.proj = Active
      BY <2>2, <2>6 DEF shown, Shown, Active
    <3> QED
      BY <2>6, <3>1
  <2> QED
    BY <2>4, <2>5, <2>6
<1> QED
  BY <1>1, <1>2

LEMMA SoundInitially ==
    ASSUME Init
    PROVE  Sound
<1>1. \A i \in Ids : jobs[i].state = None /\ jobs[i].at = None
  BY DEF Init, NoRow
<1>2. published.pending = None /\ njobs = 0
  BY DEF Init
<1>3. Numbered
  BY <1>1, <1>2 DEF Numbered, Running, None, Ids
<1>4. Stages /\ Marker /\ Attested
  BY <1>1, <1>2 DEF Stages, Marker, Attested, Found, Running, None, Ids
<1> QED
  BY <1>3, <1>4 DEF Sound

\* What is published, the marker of an owed cleanup and the prefixes are as the
\* row of the job admitted last says, in every behaviour (runOperation,
\* markSucceeded, reconcileAbandonedWithinTransaction).
THEOREM Publication == Spec => [](IInv /\ Sound)
<1>1. Init => IInv /\ Sound
  BY Initially, SoundInitially
<1>2. IInv /\ Sound /\ [Next]_vars => IInv' /\ Sound'
  BY Preserved, EveryTurn
<1> QED
  BY <1>1, <1>2, PTL DEF Spec

\* What is shown as ready after a success is complete and is what workers resolve;
\* nothing removes it.
THEOREM PublishesWhatItProved == Spec => []PublishedIsSound
<1>1. IInv /\ Sound => PublishedIsSound
  BY SoundStatus
<1> QED
  BY <1>1, Publication, PTL

\* A job that lost its claim leaves its row and the published projection alone.
THEOREM LostJobsAreMute == Spec => LostChangesNothing
<1>1. IInv /\ Sound /\ [Next]_vars => [LostSame]_vars
  BY EveryTurn
<1>2. Spec => [][LostSame]_vars
  BY <1>1, Publication, PTL DEF Spec
<1> QED
  BY <1>2 DEF LostChangesNothing, LostSame

\* A cleanup that is owed is forgotten only when it is done, or by a verify.
THEOREM DebtsAreKept == Spec => MarkerKept
<1>1. IInv /\ Sound /\ [Next]_vars => [MarkerSame]_vars
  BY EveryTurn
<1>2. Spec => [][MarkerSame]_vars
  BY <1>1, Publication, PTL DEF Spec
<1> QED
  BY <1>2 DEF MarkerKept, MarkerSame
=============================================================================
