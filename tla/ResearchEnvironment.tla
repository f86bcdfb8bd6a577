------------------------ MODULE ResearchEnvironment ------------------------
(***************************************************************************)
(* The lifecycle of the locked research environment                        *)
(* (packages/research-environment).  The desktop app and the headless      *)
(* server are processes that share one SQLite table of jobs and one        *)
(* directory of pixi environments.  A process admits a job, runs pixi      *)
(* children for it, probes what they built and publishes the projection    *)
(* that research workers must use.  A job is claimed by a heartbeat; one   *)
(* whose heartbeat went stale is reclaimed by the next admission.          *)
(*                                                                         *)
(* A stage of runOperation lasts from the start of a child to its end;     *)
(* what the code does between two children is one step, for it awaits      *)
(* nothing.  A child changes the prefix it works on when it ends.          *)
(***************************************************************************)
EXTENDS Naturals

CONSTANTS
    Procs,          \* processes that have the service
    Nobody,         \* the owner of a job whose process is gone
    Outside,        \* projections that were materialized outside the service
    MaxJobs,        \* bound: jobs
    MaxLocks,       \* bound: versions of pixi.lock committed one after the other
    MaxCrashes      \* bound: crashes

ASSUME ConstantsAssumption ==
    /\ Nobody \notin Procs
    /\ Outside \subseteq {"default", "without"}
    /\ MaxJobs \in Nat \ {0}
    /\ MaxLocks \in Nat \ {0}
    /\ MaxCrashes \in Nat

VARIABLES
    njobs,
    jobs,           \* rows of research_environment_jobs and what runs for them
    published,      \* the row of research_environment_active_projection
    prefix,         \* .pixi/envs/<projection>
    idle,           \* process -> workloadActivity() is idle, as far as its own
                    \* last job is concerned: not running and not failed
    lock,           \* version of the committed pixi.lock
    crashes,
    starved         \* history: a claim went stale while a pixi child worked

vars == <<njobs, jobs, published, prefix, idle, lock, crashes, starved>>

Ids   == 1..MaxJobs
Projs == {"default", "without"}
Other(q) == IF q = "default" THEN "without" ELSE "default"
None  == "none"
Operations == {"install", "repair", "verify", "uninstall", "remove", "restore"}
Transitions == {"remove", "restore"}
Writers == {"recover", "pixi", "cleanup"}

\* A status of the service, as far as it is stored: the projection it is about,
\* the lock it was verified against, ready or else absent.
Statuses == [proj : Projs, lock : 0..MaxLocks, ready : BOOLEAN]
NoStatus == [proj |-> "default", lock |-> 0, ready |-> FALSE]

\* at: the child that works for the job; on: the prefix it works on.
Rows == [op : Operations, state : {None, "running", "succeeded", "failed"},
         owner : Procs \cup {Nobody}, stale : BOOLEAN, result : Statuses,
         at : {None, "probe"} \cup Writers, on : Projs, to : Projs,
         lock : 0..MaxLocks]
NoRow == [op |-> "verify", state |-> None, owner |-> Nobody, stale |-> FALSE,
          result |-> NoStatus, at |-> None, on |-> "default", to |-> "default",
          lock |-> 0]

TypeOK ==
    /\ njobs \in 0..MaxJobs
    /\ jobs \in [Ids -> Rows]
    /\ published \in [status : Statuses, pending : Projs \cup {None}]
    /\ prefix \in [Projs -> {"absent", "broken", "damaged", "built"}]
    /\ idle \in [Procs -> BOOLEAN]
    /\ lock \in 1..MaxLocks
    /\ crashes \in 0..MaxCrashes
    /\ starved \in BOOLEAN

Init ==
    /\ njobs = 0
    /\ jobs = [i \in Ids |-> NoRow]
    /\ published = [status |-> NoStatus, pending |-> None]
    /\ prefix = [q \in Projs |-> IF q \in Outside THEN "damaged" ELSE "absent"]
    /\ idle = [p \in Procs |-> TRUE]
    /\ lock = 1
    /\ crashes = 0
    /\ starved = FALSE

-----------------------------------------------------------------------------
(* What a process reads.                                                   *)

Running(i) == jobs[i].state = "running"     \* queued is passed in one step
Works(i, stage) == jobs[i].at = stage /\ jobs[i].owner \in Procs

\* What a finished row is still read for: its state and its result.
Ended(i, state) == [NoRow EXCEPT !.state = state, !.result = jobs[i].result]

Active == published.status.proj
Exists(q) == prefix[q] # "absent"
Executable(q) == prefix[q] \in {"damaged", "built"}

Target(op) ==
    CASE op = "remove" -> "without"
      [] op \in {"install", "restore"} -> "default"
      [] OTHER -> Active

\* install() of a user whose active projection lacks gpquant restores it
Operation(asked) ==
    IF asked = "install" /\ Active = "without" THEN "restore" ELSE asked

\* getStatus: the state shown and the projection it is about
Latest(S) == CHOOSE i \in S : \A k \in S : k <= i
Usable(s) == s.ready /\ s.lock = lock /\ Executable(s.proj)
Shown(state, q) == [state |-> state, proj |-> q]

GetStatus ==
    LET ended == {i \in Ids : jobs[i].state \in {"succeeded", "failed"}}
        good == {i \in Ids : jobs[i].state = "succeeded"}
        latest == jobs[Latest(ended)]
        previous == jobs[Latest(good)].result
    IN  IF \E i \in Ids : Running(i) THEN Shown("busy", Active)
        ELSE IF ended = {} THEN Shown("absent", Active)
        ELSE IF latest.state = "succeeded" THEN
            IF latest.result.lock # lock \/ ~Executable(Active)
            THEN Shown("failed", Active)
            ELSE Shown(IF latest.result.ready THEN "ready" ELSE "absent",
                       latest.result.proj)
        ELSE IF Usable(published.status) THEN Shown("ready", published.status.proj)
        ELSE IF good # {} /\ Usable(previous) THEN Shown("ready", previous.proj)
        ELSE Shown("failed", Active)

-----------------------------------------------------------------------------
(* Admission.                                                              *)

Abandoned_Fresh(i, p) == Running(i) /\ jobs[i].owner # p

\* reconcileAbandonedWithinTransaction, by process p
Abandoned(i, p) == Running(i) /\ jobs[i].owner # p /\ jobs[i].stale
Reconciled(p) ==
    [i \in Ids |->
        IF ~Abandoned(i, p) THEN jobs[i]
        ELSE IF jobs[i].at = None THEN Ended(i, "failed")
        ELSE [jobs[i] EXCEPT !.state = "failed", !.stale = FALSE]]

\* no active row survives the reconciliation
Admissible(p) == \A i \in Ids : Running(i) => Abandoned(i, p)

FirstStage_NoRecovery(op, pixiFound) ==
    IF op = "verify"
    THEN IF Executable(Active) THEN "probe" ELSE None
    ELSE IF pixiFound THEN "pixi" ELSE None

\* The stage runOperation reaches before its first await, or None if it fails.
FirstStage(op, pixiFound) ==
    IF op = "verify"
    THEN IF Executable(Active) THEN "probe" ELSE None
    ELSE IF ~pixiFound \/ (op = "uninstall" /\ Active # "default") THEN None
    ELSE IF published.pending \in Projs /\ Exists(published.pending)
         THEN "recover" ELSE "pixi"

Admitted(p, op, stage) ==
    IF stage = None THEN [NoRow EXCEPT !.state = "failed"] ELSE
    [op |-> op, state |-> "running", owner |-> p, stale |-> FALSE,
     result |-> NoStatus, at |-> stage,
     on |-> IF stage = "recover" THEN published.pending ELSE Target(op),
     to |-> Target(op), lock |-> lock]

Start(p, asked, pixiFound) ==
    LET op == Operation(asked)
        stage == FirstStage(op, pixiFound)
    IN  /\ njobs < MaxJobs
        /\ op \in {"uninstall"} \cup Transitions => idle[p]
        /\ Admissible(p)
        /\ njobs' = njobs + 1
        /\ jobs' = [Reconciled(p) EXCEPT ![njobs + 1] = Admitted(p, op, stage)]
        /\ published' = IF stage = "pixi" THEN [published EXCEPT !.pending = None]
                                          ELSE published
        /\ idle' = [idle EXCEPT ![p] = FALSE]
        /\ UNCHANGED <<prefix, lock, crashes, starved>>

-----------------------------------------------------------------------------
(* The children.                                                           *)

\* What a child may leave behind.  A clean that succeeds removes the prefix;
\* a materialization proves nothing by its exit code (the probe will tell), and
\* one that fails may have damaged what was there.
Cleaning(j) == jobs[j].at \in {"recover", "cleanup"} \/ jobs[j].op = "uninstall"

After(j, ok) ==
    LET before == prefix[jobs[j].on]
    IN  CASE Cleaning(j) /\ ok -> {"absent"}
          [] Cleaning(j) /\ ~ok ->
               IF before = "absent" THEN {"absent"} ELSE {before, "broken"}
          [] ~Cleaning(j) /\ ok -> {"built", "damaged", "broken"}
          [] ~Cleaning(j) /\ ~ok ->
               {before, "broken"} \cup (IF Executable(jobs[j].on) THEN {"damaged"} ELSE {})

ChildEnds(j, ok) ==
    \E x \in After(j, ok) : prefix' = [prefix EXCEPT ![jobs[j].on] = x]

-----------------------------------------------------------------------------
(* runOperation after a child: every write asks for the claim              *)
(* (assertOwnedAndActive), and a job that lost it ends without one.        *)

Owned_ByOwnerOnly(j) == jobs[j].owner \in Procs

Owned(j) == Running(j)

\* markFailed, or nothing when the claim is lost (the reclaimed row has failed
\* already); then the finally block.
Fail(j) ==
    /\ jobs' = [jobs EXCEPT ![j] = Ended(j, "failed")]
    /\ idle' = [idle EXCEPT ![jobs[j].owner] = FALSE]
    /\ UNCHANGED published

\* upsertPublishedProjection and the terminal row, in one transaction.
Succeed(j, s) ==
    /\ jobs' = [jobs EXCEPT ![j] = [Ended(j, "succeeded") EXCEPT !.result = s]]
    /\ published' = [status |-> s, pending |-> None]
    /\ idle' = [idle EXCEPT ![jobs[j].owner] = TRUE]

Enter(j, stage, on) ==
    jobs' = [jobs EXCEPT ![j].at = stage, ![j].on = on, ![j].stale = FALSE]

RecoverEnds(j) ==
    /\ Works(j, "recover")
    /\ \E ok \in BOOLEAN :
        /\ ChildEnds(j, ok)
        /\ IF ok /\ Owned(j)
           THEN /\ jobs' = [jobs EXCEPT ![j].at = "pixi", ![j].on = jobs[j].to]
                /\ published' = [published EXCEPT !.pending = None]
                /\ UNCHANGED idle
           ELSE Fail(j)
    /\ UNCHANGED <<njobs, lock, crashes, starved>>

\* pixi install or reinstall, then advanceStage and the probe
Materialized(j) ==
    /\ Works(j, "pixi") /\ jobs[j].op # "uninstall"
    /\ \E ok \in BOOLEAN :
        /\ ChildEnds(j, ok)
        /\ IF ok /\ Owned(j) /\ prefix'[jobs[j].to] \in {"damaged", "built"}
           THEN Enter(j, "probe", jobs[j].to) /\ UNCHANGED <<published, idle>>
           ELSE Fail(j)
    /\ UNCHANGED <<njobs, lock, crashes, starved>>

\* pixi clean for uninstall: the lock must not have changed under it
Uninstalled(j) ==
    /\ Works(j, "pixi") /\ jobs[j].op = "uninstall"
    /\ \E ok \in BOOLEAN :
        /\ ChildEnds(j, ok)
        /\ IF ok /\ Owned(j) /\ lock = jobs[j].lock
           THEN Succeed(j, [proj |-> jobs[j].to, lock |-> lock, ready |-> FALSE])
           ELSE Fail(j)
    /\ UNCHANGED <<njobs, lock, crashes, starved>>

Publish_AfterCleanup(j, s) ==
    IF Exists(Other(jobs[j].to))
    THEN /\ jobs' = [jobs EXCEPT ![j].at = "cleanup", ![j].on = Other(jobs[j].to),
                                 ![j].result = s]
         /\ UNCHANGED <<published, idle>>
    ELSE Succeed(j, s)

\* publishProjection is the switch: it precedes the cleanup of the old prefix.
Publish(j, s) ==
    LET old == Other(jobs[j].to)
    IN  IF Exists(old)
        THEN /\ published' = [status |-> s, pending |-> old]
             /\ jobs' = [jobs EXCEPT ![j].at = "cleanup", ![j].on = old,
                                     ![j].result = s, ![j].stale = FALSE]
             /\ UNCHANGED idle
        ELSE Succeed(j, s)

\* The probe passes only on an environment that is complete.
ProbeOk(j) == prefix[jobs[j].to] = "built"

ProbeEnds(j) ==
    /\ Works(j, "probe")
    /\ \/ /\ ProbeOk(j) /\ Owned(j)
          /\ LET s == [proj |-> jobs[j].to, lock |-> lock, ready |-> TRUE]
             IN  IF jobs[j].op \in Transitions THEN Publish(j, s) ELSE Succeed(j, s)
       \/ Fail(j)
    /\ UNCHANGED <<njobs, prefix, lock, crashes, starved>>

CleanupEnds(j) ==
    /\ Works(j, "cleanup")
    /\ \E ok \in BOOLEAN :
        /\ ChildEnds(j, ok)
        /\ IF ok /\ Owned(j) THEN Succeed(j, jobs[j].result) ELSE Fail(j)
    /\ UNCHANGED <<njobs, lock, crashes, starved>>

\* A progress line of a child, in the monitor of its process.
Progress(j) ==
    /\ jobs[j].at # None /\ jobs[j].owner \in Procs
    /\ idle' = [idle EXCEPT ![jobs[j].owner] = FALSE]
    /\ UNCHANGED <<njobs, jobs, published, prefix, lock, crashes, starved>>

-----------------------------------------------------------------------------
(* The claim, and the world.                                               *)

Heartbeat(j) ==
    /\ Owned(j) /\ jobs[j].owner \in Procs
    /\ jobs' = [jobs EXCEPT ![j].stale = FALSE]
    /\ UNCHANGED <<njobs, published, prefix, idle, lock, crashes, starved>>

\* RESEARCH_ENV_HEARTBEAT_STALE_AFTER_MS pass without a heartbeat.
Silence(j) ==
    /\ Running(j) /\ ~jobs[j].stale
    /\ jobs' = [jobs EXCEPT ![j].stale = TRUE]
    /\ starved' = (starved \/ jobs[j].at \in Writers)
    /\ UNCHANGED <<njobs, published, prefix, idle, lock, crashes>>

\* The process dies and comes back as a new instance; pixi may live on.
Crash(p) ==
    /\ crashes < MaxCrashes
    /\ crashes' = crashes + 1
    /\ jobs' = [i \in Ids |-> IF jobs[i].owner # p THEN jobs[i] ELSE
                    IF Running(i) \/ jobs[i].at \in Writers
                    THEN [jobs[i] EXCEPT !.owner = Nobody,
                                         !.at = IF @ \in Writers THEN @ ELSE None]
                    ELSE Ended(i, jobs[i].state)]
    /\ idle' = [idle EXCEPT ![p] = TRUE]
    /\ UNCHANGED <<njobs, published, prefix, lock, starved>>

OrphanEnds(j) ==
    /\ jobs[j].owner = Nobody /\ jobs[j].at \in Writers
    /\ \E ok \in BOOLEAN : ChildEnds(j, ok)
    /\ jobs' = [jobs EXCEPT ![j] = IF Running(j) THEN [@ EXCEPT !.at = None]
                                   ELSE Ended(j, "failed")]
    /\ UNCHANGED <<njobs, published, idle, lock, crashes, starved>>

CommitLock ==
    /\ lock < MaxLocks
    /\ lock' = lock + 1
    /\ UNCHANGED <<njobs, jobs, published, prefix, idle, crashes, starved>>

StageEnds(j) ==
    RecoverEnds(j) \/ Materialized(j) \/ Uninstalled(j) \/ ProbeEnds(j) \/ CleanupEnds(j)

Ask(p) ==
    \E asked \in Operations \ {"restore"}, pixiFound \in BOOLEAN :
        Start(p, asked, pixiFound)

Next ==
    \/ \E p \in Procs : Ask(p) \/ Crash(p)
    \/ \E j \in Ids : StageEnds(j) \/ Progress(j) \/ Heartbeat(j) \/ Silence(j)
                      \/ OrphanEnds(j)
    \/ CommitLock

\* Children end, for the runner bounds their time; the claim of a dead process
\* goes stale.
Fairness ==
    \A j \in Ids : /\ WF_vars(StageEnds(j))
                   /\ WF_vars(OrphanEnds(j))
                   /\ WF_vars(jobs[j].owner = Nobody /\ Silence(j))

Spec == Init /\ [][Next]_vars /\ Fairness

-----------------------------------------------------------------------------
(* Properties                                                              *)

\* At most one job of the profile is active (admit's transaction; the unique
\* index of the table is never the one to refuse).
OneActiveJob ==
    \A i, k \in Ids : Running(i) /\ Running(k) => i = k

\* Two pixi children never write to .pixi at once, provided no claim goes stale
\* while its own child works: not after a crash, not between two processes, not
\* when a job was reclaimed.
OneWriter ==
    ~starved => \A i, k \in Ids :
        jobs[i].at \in Writers /\ jobs[k].at \in Writers => i = k

\* The types, and the exclusion of jobs and of pixi children.
Exclusion == TypeOK /\ OneActiveJob /\ OneWriter

\* A job that lost its claim (reclaimed by another process while its child ran)
\* writes nothing any more: its row stays as it is and it publishes nothing.
LostChangesNothing ==
    [][\A j \in Ids :
        j <= njobs /\ ~Running(j) =>
            /\ jobs'[j].state = jobs[j].state
            /\ jobs'[j].result = jobs[j].result
            /\ jobs'[j].at # jobs[j].at => published' = published]_vars

\* The marker of a cleanup that is still owed is erased only when the prefix is
\* gone, or by a verify, which publishes anew.
MarkerKept ==
    [][~starved /\ published.pending \in Projs /\ published'.pending = None =>
        \/ prefix'[published.pending] = "absent"
        \/ \E j \in Ids : Running(j) /\ jobs[j].op = "verify"]_vars

\* The projection that research workers resolve is not the one being removed,
\* except by an uninstall.  After a success a ready status is about that projection
\* and it is a complete environment, which no crash, orphaned child or reclaimed job
\* can have touched since.  After a failure it may be about another one, but only if
\* what was published cannot be used any more.
PublishedIsSound ==
    LET status == GetStatus
        ended == {i \in Ids : jobs[i].state \in {"succeeded", "failed"}}
        latest == jobs[Latest(ended)]
    IN ~starved =>
         /\ \A j \in Ids : jobs[j].at \in {"recover", "cleanup"} => jobs[j].on # Active
         /\ status.state = "ready" =>
              \/ latest.state = "succeeded" /\ status.proj = Active /\ prefix[Active] = "built"
              \/ latest.state = "failed" /\ (status.proj = Active \/ ~Usable(published.status))
=============================================================================
