---------------------------- MODULE StartupLock ----------------------------
(***************************************************************************)
(* The advisory lock around the opening of the database (startup-lock.ts): *)
(* a directory beside the file, with the pid of its owner in a file of its *)
(* own.  Desktop, headless host and MCP server take it, each for as long   *)
(* as it restores, opens and switches the database to WAL.  Each call of   *)
(* the file system is one step; a process may die before any of them.      *)
(*                                                                         *)
(* Abstractions.  A process has one pid, which nobody has after it.  The   *)
(* age of the directory is a flag: older than STARTUP_LOCK_STALE_MS or not.*)
(* Age is not a race: nobody waits five seconds between two adjacent calls *)
(* on the directory.  The 120 s deadline is a choice that is never forced. *)
(***************************************************************************)
EXTENDS Naturals

CONSTANTS
    Procs,         \* processes
    None,          \* no process
    SoloRecovery   \* what a dead process left is met by one process at a time

ASSUME LockAssumption == None \notin Procs /\ SoloRecovery \in BOOLEAN

VARIABLES
    lock,   \* the directory: is there, pid in its owner file, older than 5 s
    lpc,    \* where a process is in withDatabaseStartupLock
    seen    \* the dead owner a waiter has read, None if it found no pid

lockVars == <<lock, lpc, seen>>

NoLock == [dir |-> FALSE, owner |-> None, old |-> FALSE]
Waiting == {"mkdir", "look", "stat", "wait", "unlink", "rmdir"}
Tenancy == {"write", "cleanup", "held", "release", "relUnlink", "relRmdir"}
Over == {"idle", "done", "failed", "dead"}

Active(p) == lpc[p] \notin Over
Tenant(p) == lpc[p] \in Tenancy

LockInit ==
    /\ lock = NoLock
    /\ lpc = [p \in Procs |-> "idle"]
    /\ seen = [p \in Procs |-> None]

Goes(p, at) == lpc' = [lpc EXCEPT ![p] = at]

\* Nobody alive stands behind the directory.
Abandoned ==
    /\ lock.dir
    /\ \/ lock.owner # None /\ lpc[lock.owner] = "dead"
       \/ lock.owner = None /\ \A p \in Procs : ~Tenant(p)

Begin(p) ==
    /\ lpc[p] \in {"idle", "done"}
    /\ SoloRecovery /\ Abandoned => \A q \in Procs : ~Active(q)
    /\ Goes(p, "mkdir")
    /\ UNCHANGED <<lock, seen>>

Mkdir(p) ==
    /\ lpc[p] = "mkdir"
    /\ \/ ~lock.dir /\ lock' = [NoLock EXCEPT !.dir = TRUE] /\ Goes(p, "write")
       \/ lock.dir /\ UNCHANGED lock /\ Goes(p, "look")
    /\ UNCHANGED seen

\* The owner file is created only if there is none (wx).
WriteOwner(p) ==
    /\ lpc[p] = "write"
    /\ LET free == lock.dir /\ lock.owner = None IN
       /\ lock' = IF free THEN [lock EXCEPT !.owner = p, !.old = FALSE] ELSE lock
       /\ Goes(p, IF free THEN "held" ELSE IF lock.dir THEN "look" ELSE "cleanup")
    /\ UNCHANGED seen

WriteFails(p) == lpc[p] = "write" /\ Goes(p, "cleanup") /\ UNCHANGED <<lock, seen>>

\* rmdir of whatever is there now, if it is empty.
Rmdirs == lock' = IF lock.owner = None THEN NoLock ELSE lock

Cleanup(p) == lpc[p] = "cleanup" /\ Rmdirs /\ Goes(p, "failed") /\ UNCHANGED seen

\* Mutant: an owner is dead when its lock is old.
Look_ByAge(p) ==
    /\ lpc[p] = "look"
    /\ LET alive == lock.owner # None /\ ~lock.old IN
       \/ alive /\ Goes(p, "wait") /\ UNCHANGED seen
       \/ ~alive /\ Goes(p, "stat") /\ seen' = [seen EXCEPT ![p] = lock.owner]
    /\ UNCHANGED lock

\* readOwner and isProcessAlive.
Look(p) ==
    /\ lpc[p] = "look"
    /\ LET alive == lock.owner # None /\ lpc[lock.owner] # "dead" IN
       \/ alive /\ Goes(p, "wait") /\ UNCHANGED seen
       \/ ~alive /\ Goes(p, "stat") /\ seen' = [seen EXCEPT ![p] = lock.owner]
    /\ UNCHANGED lock

\* Mutant: a directory without an owner is removed at any age.
Stat_AnyAge(p) ==
    /\ lpc[p] = "stat"
    /\ Goes(p, IF lock.dir THEN "unlink" ELSE "mkdir")
    /\ seen' = [seen EXCEPT ![p] = None]
    /\ UNCHANGED lock

Stat(p) ==
    /\ lpc[p] = "stat"
    /\ \/ ~lock.dir /\ Goes(p, "mkdir")
       \/ lock.dir /\ seen[p] = None /\ ~lock.old /\ Goes(p, "wait")
       \/ lock.dir /\ (seen[p] # None \/ lock.old) /\ Goes(p, "unlink")
    /\ seen' = [seen EXCEPT ![p] = None]
    /\ UNCHANGED lock

Unlinks == lock' = IF lock.owner = None THEN lock ELSE [lock EXCEPT !.owner = None, !.old = FALSE]

Unlink(p) == lpc[p] = "unlink" /\ Unlinks /\ Goes(p, "rmdir") /\ UNCHANGED seen

Rmdir(p) ==
    /\ lpc[p] = "rmdir"
    /\ Rmdirs
    /\ Goes(p, IF lock.owner = None THEN "mkdir" ELSE "wait")
    /\ UNCHANGED seen

Retry(p) == lpc[p] = "wait" /\ Goes(p, "mkdir") /\ UNCHANGED <<lock, seen>>

TimeOut(p) == lpc[p] = "wait" /\ Goes(p, "failed") /\ UNCHANGED <<lock, seen>>

\* The task has returned or thrown.
Finish(p) == lpc[p] = "held" /\ Goes(p, "release") /\ UNCHANGED <<lock, seen>>

\* Mutant: the lock is left to those who find it abandoned.
Release_Leaves(p) == lpc[p] = "release" /\ Goes(p, "done") /\ UNCHANGED <<lock, seen>>

Release(p) ==
    /\ lpc[p] = "release"
    /\ Goes(p, IF lock.owner = p THEN "relUnlink" ELSE "done")
    /\ UNCHANGED <<lock, seen>>

ReleaseUnlink(p) ==
    /\ lpc[p] = "relUnlink"
    /\ Unlinks
    /\ Goes(p, IF lock.owner = None THEN "done" ELSE "relRmdir")
    /\ UNCHANGED seen

ReleaseRmdir(p) == lpc[p] = "relRmdir" /\ Rmdirs /\ Goes(p, "done") /\ UNCHANGED seen

\* Five seconds pass, and nobody is between two calls on the directory.
Age ==
    /\ lock.dir /\ ~lock.old
    /\ \A p \in Procs : lpc[p] \notin {"stat", "unlink", "rmdir", "write", "cleanup", "relRmdir"}
    /\ lock' = [lock EXCEPT !.old = TRUE]
    /\ UNCHANGED <<lpc, seen>>

Crash(p) ==
    /\ lpc[p] \notin {"idle", "failed", "dead"}
    /\ SoloRecovery /\ Tenant(p) =>
          \A q, r \in Procs : Active(q) /\ Active(r) => p \in {q, r} \/ q = r
    /\ Goes(p, "dead")
    /\ UNCHANGED <<lock, seen>>

Waits(p) == Mkdir(p) \/ WriteOwner(p) \/ Cleanup(p) \/ Look(p) \/ Stat(p) \/ Unlink(p) \/ Rmdir(p) \/ Retry(p)
Releases(p) == Release(p) \/ ReleaseUnlink(p) \/ ReleaseRmdir(p)
LockFaults(p) == WriteFails(p) \/ TimeOut(p)

LockNext ==
    \/ \E p \in Procs : Begin(p) \/ Waits(p) \/ Finish(p) \/ Releases(p) \/ LockFaults(p) \/ Crash(p)
    \/ Age

LockSpec == LockInit /\ [][LockNext]_lockVars

----------------------------------------------------------------------------
LockTypeOK ==
    /\ lock \in [dir : BOOLEAN, owner : Procs \cup {None}, old : BOOLEAN]
    /\ lock.owner # None \/ lock.old => lock.dir
    /\ lpc \in [Procs -> Waiting \cup Tenancy \cup Over]
    /\ seen \in [Procs -> Procs \cup {None}]

\* Hosts restore and open the database one after the other ("Both database
\* hosts use this short advisory lock around connection creation and WAL
\* activation"), whoever died with the lock before.
MutualExclusion ==
    \A p, q \in Procs : lpc[p] = "held" /\ lpc[q] = "held" => p = q
=============================================================================
