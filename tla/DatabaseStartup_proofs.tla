----------------------- MODULE DatabaseStartup_proofs -----------------------
(***************************************************************************)
(* For any number of hosts, backups and crashes, when what a dead host     *)
(* left is met by one host at a time (SoloRecovery): the startup lock      *)
(* excludes.  Without that assumption it does not: see the run             *)
(* DatabaseStartup_recovery.  The lock is proved by itself first; every    *)
(* step of a host is a step of the lock or leaves it alone.                *)
(*                                                                         *)
(* When restores are staged and applied in order (Orderly), a host that    *)
(* replaces the file is alone with it; when a restore fails before the WAL *)
(* is gone or after all is done (FailsInTime), the files implement         *)
(* DurableDatabase.  The invariant behind the first says who may be on the *)
(* way while a restore is staged (LifeInv), that behind the second what    *)
(* lies in the files between two steps of a restore (DurableInv).          *)
(***************************************************************************)
EXTENDS DatabaseStartup, TLAPS

\* The owner file is that of the one tenant, or of a dead host.
OwnerHolds ==
    /\ \A p \in Procs : lpc[p] \in {"held", "release", "relUnlink"} => lock.dir /\ lock.owner = p
    /\ \A p \in Procs : lpc[p] \in {"write", "cleanup", "relRmdir"} => lock.dir /\ lock.owner = None
    /\ lock.owner # None => lpc[lock.owner] \in {"held", "release", "relUnlink", "dead"}

OneTenant == \A p, q \in Procs : Tenant(p) /\ Tenant(q) => p = q

\* A directory without an owner gets old only after its creator has died.
OldIsLeft == lock.old /\ lock.owner = None => \A p \in Procs : ~Tenant(p)

Solo == \A p, q \in Procs : Active(p) /\ Active(q) => p = q

\* Who finds the lock abandoned is alone, and does not remove another lock.
Recovers ==
    /\ Abandoned => Solo
    /\ \A p \in Procs : lpc[p] \in {"unlink", "rmdir"} => Abandoned
    /\ \A p \in Procs : lpc[p] = "rmdir" => lock.owner = None
    /\ \A p \in Procs : lpc[p] = "stat" /\ seen[p] # None => Abandoned
    /\ \A p \in Procs : lpc[p] = "stat" /\ seen[p] = None /\ lock.old => lock.owner = None

LockInv == LockTypeOK /\ OwnerHolds /\ OneTenant /\ OldIsLeft /\ Recovers

\* A restore runs in a host with a DatabaseManager, under the lock, and what
\* is staged stays until it is over; whoever opens the file finds it applied.
RestoresHold ==
    \A p \in Procs :
        /\ step[p] \in RestoreSteps \cup {"open"} => lpc[p] = "held" /\ p \in Apps
        /\ step[p] \in RestoreSteps => marker # Absent
        /\ step[p] = "open" => marker = Absent
        /\ step[p] \in {"migrated", "again"} => p \notin Apps

\* Nothing is staged while an MCP host starts.
McpStarts ==
    \A p \in Procs \ Apps : Active(p) /\ step[p] \in {"off", "again"} => marker = Absent

\* Who starts with a restore staged finds nobody connected.
StartsAlone ==
    \A p, q \in Procs :
        marker # Absent /\ p # q /\ Active(p) /\ step[p] \in RestoreSteps \cup {"off"} => ~Connected(q)

\* Who is connected has a file to read.
ConnectedHasFile == \A p \in Procs : Connected(p) => db # Absent

\* A host that has moved the file still has it, until the WAL is gone.
MovedIsKept ==
    \A p \in Procs :
        /\ p \in moved => step[p] \in {"dropWal", "install", "dropMoved", "unmark"}
        /\ p \in moved /\ step[p] \in {"dropWal", "install"} => rollback # Absent
        /\ p \in moved /\ step[p] = "unmark" => rollback = Absent

\* A restore installs what is staged.
CopyIsStaged ==
    \A p \in Procs :
        /\ step[p] \in RestoreSteps => backups[marker] # Absent
        /\ step[p] \in {"dropRollback", "move", "dropWal", "install"} => tmp = backups[marker]
        /\ step[p] \in {"dropWal", "install"} => db = Absent
        /\ step[p] \in {"install", "dropMoved", "unmark"} => applied
        /\ step[p] \in {"dropMoved", "unmark"} => db # Absent

\* From its first effect a restore is what everybody reads.
AppliedIsRead ==
    applied =>
        /\ marker # Absent /\ backups[marker] # Absent /\ wal = Absent
        /\ db \in {Absent, backups[marker]}
        /\ \A p \in moved : step[p] = "dropWal" => rollback = backups[marker]
        /\ \A p \in Procs : ~Connected(p)

\* The file is away only while a restore is staged, or was never there.
FileIsAway ==
    db = Absent =>
        \/ marker = Absent /\ wal = Absent
        \/ /\ marker # Absent /\ backups[marker] # Absent
           /\ wal # Absent \/ applied \/ \E p \in moved : Task(p, "dropWal")

\* No backup has a number that is not given yet.
NumbersAreFree == \A b \in BackupIds : b > made => backups[b] = Absent

DurableInv == MovedIsKept /\ CopyIsStaged /\ AppliedIsRead /\ FileIsAway /\ NumbersAreFree

LEMMA LockInitOK == LockInit => LockInv
BY LockAssumption DEF LockInit, LockInv, LockTypeOK, OwnerHolds, OneTenant, OldIsLeft, Recovers,
   Abandoned, Solo, Active, Tenant, NoLock, Waiting, Tenancy, Over

\* The states of a host are disjoint; a step that moves host p changes no other.
LEMMA StepPreserves ==
    ASSUME SoloRecovery, LockInv, [LockNext]_lockVars
    PROVE  LockInv'
<1> USE LockAssumption DEF LockInv, LockTypeOK, OwnerHolds, OneTenant, OldIsLeft, Recovers, Abandoned, Solo,
        Active, Tenant, Waiting, Tenancy, Over, Goes
<1>1. ASSUME NEW p \in Procs, Begin(p) PROVE LockInv'
  <2>1. LockTypeOK'
    BY <1>1 DEF Begin
  <2>2. OwnerHolds'
    BY <1>1 DEF Begin
  <2>3. OneTenant'
    BY <1>1 DEF Begin
  <2>4. OldIsLeft'
    BY <1>1 DEF Begin
  <2>5. Recovers'
    BY <1>1 DEF Begin
  <2> QED  BY <2>1, <2>2, <2>3, <2>4, <2>5
<1>2. ASSUME NEW p \in Procs, Mkdir(p) PROVE LockInv'
  <2>1. LockTypeOK'
    BY <1>2 DEF Mkdir, NoLock
  <2>2. OwnerHolds'
    BY <1>2 DEF Mkdir, NoLock
  <2>3. OneTenant'
    BY <1>2 DEF Mkdir, NoLock
  <2>4. OldIsLeft'
    BY <1>2 DEF Mkdir, NoLock
  <2>5. Recovers'
    BY <1>2 DEF Mkdir, NoLock
  <2> QED  BY <2>1, <2>2, <2>3, <2>4, <2>5
<1>3. ASSUME NEW p \in Procs, WriteOwner(p) PROVE LockInv'
  <2>1. LockTypeOK'
    BY <1>3 DEF WriteOwner
  <2>2. OwnerHolds'
    BY <1>3 DEF WriteOwner
  <2>3. OneTenant'
    BY <1>3 DEF WriteOwner
  <2>4. OldIsLeft'
    BY <1>3 DEF WriteOwner
  <2>5. Recovers'
    BY <1>3 DEF WriteOwner
  <2> QED  BY <2>1, <2>2, <2>3, <2>4, <2>5
<1>4. ASSUME NEW p \in Procs, WriteFails(p) PROVE LockInv'
  <2>1. LockTypeOK'
    BY <1>4 DEF WriteFails
  <2>2. OwnerHolds'
    BY <1>4 DEF WriteFails
  <2>3. OneTenant'
    BY <1>4 DEF WriteFails
  <2>4. OldIsLeft'
    BY <1>4 DEF WriteFails
  <2>5. Recovers'
    BY <1>4 DEF WriteFails
  <2> QED  BY <2>1, <2>2, <2>3, <2>4, <2>5
<1>5. ASSUME NEW p \in Procs, Cleanup(p) PROVE LockInv'
  <2>1. LockTypeOK'
    BY <1>5 DEF Cleanup, Rmdirs, NoLock
  <2>2. OwnerHolds'
    BY <1>5 DEF Cleanup, Rmdirs, NoLock
  <2>3. OneTenant'
    BY <1>5 DEF Cleanup, Rmdirs, NoLock
  <2>4. OldIsLeft'
    BY <1>5 DEF Cleanup, Rmdirs, NoLock
  <2>5. Recovers'
    BY <1>5 DEF Cleanup, Rmdirs, NoLock
  <2> QED  BY <2>1, <2>2, <2>3, <2>4, <2>5
<1>6. ASSUME NEW p \in Procs, Look(p) PROVE LockInv'
  <2>1. LockTypeOK'
    BY <1>6 DEF Look
  <2>2. OwnerHolds'
    BY <1>6 DEF Look
  <2>3. OneTenant'
    BY <1>6 DEF Look
  <2>4. OldIsLeft'
    BY <1>6 DEF Look
  <2>5. Recovers'
    BY <1>6 DEF Look
  <2> QED  BY <2>1, <2>2, <2>3, <2>4, <2>5
<1>7. ASSUME NEW p \in Procs, Stat(p) PROVE LockInv'
  <2>1. LockTypeOK'
    BY <1>7 DEF Stat
  <2>2. OwnerHolds'
    BY <1>7 DEF Stat
  <2>3. OneTenant'
    BY <1>7 DEF Stat
  <2>4. OldIsLeft'
    BY <1>7 DEF Stat
  <2>5. Recovers'
    BY <1>7 DEF Stat
  <2> QED  BY <2>1, <2>2, <2>3, <2>4, <2>5
<1>8. ASSUME NEW p \in Procs, Unlink(p) PROVE LockInv'
  <2>1. LockTypeOK'
    BY <1>8 DEF Unlink, Unlinks
  <2>2. OwnerHolds'
    BY <1>8 DEF Unlink, Unlinks
  <2>3. OneTenant'
    BY <1>8 DEF Unlink, Unlinks
  <2>4. OldIsLeft'
    BY <1>8 DEF Unlink, Unlinks
  <2>5. Recovers'
    BY <1>8 DEF Unlink, Unlinks
  <2> QED  BY <2>1, <2>2, <2>3, <2>4, <2>5
<1>9. ASSUME NEW p \in Procs, Rmdir(p) PROVE LockInv'
  <2>1. LockTypeOK'
    BY <1>9 DEF Rmdir, Rmdirs, NoLock
  <2>2. OwnerHolds'
    BY <1>9 DEF Rmdir, Rmdirs, NoLock
  <2>3. OneTenant'
    BY <1>9 DEF Rmdir, Rmdirs, NoLock
  <2>4. OldIsLeft'
    BY <1>9 DEF Rmdir, Rmdirs, NoLock
  <2>5. Recovers'
    BY <1>9 DEF Rmdir, Rmdirs, NoLock
  <2> QED  BY <2>1, <2>2, <2>3, <2>4, <2>5
<1>10. ASSUME NEW p \in Procs, Retry(p) PROVE LockInv'
  <2>1. LockTypeOK'
    BY <1>10 DEF Retry
  <2>2. OwnerHolds'
    BY <1>10 DEF Retry
  <2>3. OneTenant'
    BY <1>10 DEF Retry
  <2>4. OldIsLeft'
    BY <1>10 DEF Retry
  <2>5. Recovers'
    BY <1>10 DEF Retry
  <2> QED  BY <2>1, <2>2, <2>3, <2>4, <2>5
<1>11. ASSUME NEW p \in Procs, TimeOut(p) PROVE LockInv'
  <2>1. LockTypeOK'
    BY <1>11 DEF TimeOut
  <2>2. OwnerHolds'
    BY <1>11 DEF TimeOut
  <2>3. OneTenant'
    BY <1>11 DEF TimeOut
  <2>4. OldIsLeft'
    BY <1>11 DEF TimeOut
  <2>5. Recovers'
    BY <1>11 DEF TimeOut
  <2> QED  BY <2>1, <2>2, <2>3, <2>4, <2>5
<1>12. ASSUME NEW p \in Procs, Finish(p) PROVE LockInv'
  <2>1. LockTypeOK'
    BY <1>12 DEF Finish
  <2>2. OwnerHolds'
    BY <1>12 DEF Finish
  <2>3. OneTenant'
    BY <1>12 DEF Finish
  <2>4. OldIsLeft'
    BY <1>12 DEF Finish
  <2>5. Recovers'
    BY <1>12 DEF Finish
  <2> QED  BY <2>1, <2>2, <2>3, <2>4, <2>5
<1>13. ASSUME NEW p \in Procs, Release(p) PROVE LockInv'
  <2>1. LockTypeOK'
    BY <1>13 DEF Release
  <2>2. OwnerHolds'
    BY <1>13 DEF Release
  <2>3. OneTenant'
    BY <1>13 DEF Release
  <2>4. OldIsLeft'
    BY <1>13 DEF Release
  <2>5. Recovers'
    BY <1>13 DEF Release
  <2> QED  BY <2>1, <2>2, <2>3, <2>4, <2>5
<1>14. ASSUME NEW p \in Procs, ReleaseUnlink(p) PROVE LockInv'
  <2>1. LockTypeOK'
    BY <1>14 DEF ReleaseUnlink, Unlinks
  <2>2. OwnerHolds'
    BY <1>14 DEF ReleaseUnlink, Unlinks
  <2>3. OneTenant'
    BY <1>14 DEF ReleaseUnlink, Unlinks
  <2>4. OldIsLeft'
    BY <1>14 DEF ReleaseUnlink, Unlinks
  <2>5. Recovers'
    BY <1>14 DEF ReleaseUnlink, Unlinks
  <2> QED  BY <2>1, <2>2, <2>3, <2>4, <2>5
<1>15. ASSUME NEW p \in Procs, ReleaseRmdir(p) PROVE LockInv'
  <2>1. LockTypeOK'
    BY <1>15 DEF ReleaseRmdir, Rmdirs, NoLock
  <2>2. OwnerHolds'
    BY <1>15 DEF ReleaseRmdir, Rmdirs, NoLock
  <2>3. OneTenant'
    BY <1>15 DEF ReleaseRmdir, Rmdirs, NoLock
  <2>4. OldIsLeft'
    BY <1>15 DEF ReleaseRmdir, Rmdirs, NoLock
  <2>5. Recovers'
    BY <1>15 DEF ReleaseRmdir, Rmdirs, NoLock
  <2> QED  BY <2>1, <2>2, <2>3, <2>4, <2>5
<1>16. ASSUME NEW p \in Procs, Crash(p) PROVE LockInv'
  <2>1. LockTypeOK'
    BY <1>16 DEF Crash
  <2>2. OwnerHolds'
    BY <1>16 DEF Crash
  <2>3. OneTenant'
    BY <1>16 DEF Crash
  <2>4. OldIsLeft'
    BY <1>16 DEF Crash
  <2>5. Recovers'
    BY <1>16 DEF Crash
  <2> QED  BY <2>1, <2>2, <2>3, <2>4, <2>5
<1>17. CASE Age
  <2> lpc' = lpc /\ seen' = seen /\ lock' = [lock EXCEPT !.old = TRUE] /\ lock.dir
    BY <1>17 DEF Age
  <2> \A p \in Procs : lpc[p] \notin {"stat", "unlink", "rmdir", "write", "cleanup", "relRmdir"}
    BY <1>17 DEF Age
  <2>1. LockTypeOK'
    OBVIOUS
  <2>2. OwnerHolds'
    OBVIOUS
  <2>3. OneTenant'
    OBVIOUS
  <2>4. OldIsLeft'
    OBVIOUS
  <2>5. Recovers'
    OBVIOUS
  <2> QED  BY <2>1, <2>2, <2>3, <2>4, <2>5
<1>18. CASE UNCHANGED lockVars
  <2> lock' = lock /\ lpc' = lpc /\ seen' = seen
    BY <1>18 DEF lockVars
  <2>1. LockTypeOK'
    OBVIOUS
  <2>2. OwnerHolds' /\ OneTenant' /\ OldIsLeft'
    OBVIOUS
  <2>3. Recovers'
    OBVIOUS
  <2> QED  BY <2>1, <2>2, <2>3
<1> QED
  BY <1>1, <1>2, <1>3, <1>4, <1>5, <1>6, <1>7, <1>8, <1>9, <1>10, <1>11, <1>12, <1>13, <1>14, <1>15,
     <1>16, <1>17, <1>18
     DEF LockNext, Waits, Releases, LockFaults

LEMMA InvExcludes == LockInv => MutualExclusion
BY DEF LockInv, OneTenant, MutualExclusion, Tenant, Tenancy

\* One host at a time restores and opens the database, however many wait and
\* whoever died with the lock (withDatabaseStartupLock).
THEOREM LockExcludes ==
    ASSUME SoloRecovery
    PROVE  LockSpec => []MutualExclusion
<1>1. LockInv /\ [LockNext]_lockVars => LockInv'
  BY StepPreserves
<1> QED
  BY <1>1, LockInitOK, InvExcludes, PTL DEF LockSpec

\* What a host does is a step of the lock, or leaves it alone.
LEMMA HostStep == [Next]_vars => [LockNext]_lockVars
<1> SUFFICES ASSUME [Next]_vars PROVE [LockNext]_lockVars
  OBVIOUS
<1>1. ASSUME NEW p \in Procs, Start(p) \/ Locks(p) \/ LockFails(p) \/ Leaves(p) \/ Dies(p)
      PROVE  LockNext
  BY <1>1 DEF Start, Locks, LockFails, Leaves, Dies, LockNext
<1>2. ASSUME NEW p \in Procs, Restores(p) \/ Open(p) \/ Undo(p)
      PROVE  UNCHANGED lockVars
  BY <1>2 DEF Restores, LookForRestore, Copy, DropRollback, Move, DropWal, Install, DropMoved,
     Unmark, Open, Undo
<1>3. ASSUME NEW p \in Procs, CheckPending(p) \/ PreMigrationBackup(p) \/ PreLock(p) \/ Apply(p) \/ EndBootstrap(p)
      PROVE  UNCHANGED lockVars
  BY <1>3 DEF CheckPending, PreMigrationBackup, PreLock, Apply, EndBootstrap
<1>4. ASSUME NEW p \in Procs, Works(p)
      PROVE  UNCHANGED lockVars
  BY <1>4 DEF Works, Commit, ManualBackup, Checkpoint, Close, StageRestore
<1>5. CASE Ages
  BY <1>5 DEF Ages, LockNext
<1>6. CASE UNCHANGED vars
  BY <1>6 DEF vars
<1> QED
  BY <1>1, <1>2, <1>3, <1>4, <1>5, <1>6 DEF Next, StartSteps

\* The same of the whole start of the database, with its restores and crashes.
THEOREM HostsExclude ==
    ASSUME SoloRecovery
    PROVE  Spec => []MutualExclusion
<1>1. Init => LockInit
  BY DEF Init
<1>2. LockInv /\ [Next]_vars => LockInv'
  BY HostStep, StepPreserves
<1> QED
  BY <1>1, <1>2, LockInitOK, InvExcludes, PTL DEF Spec
\* How a step moves host p and what is staged: the four kinds of steps.
Moves(p, s) == \A q \in Procs : step'[q] = IF q = p THEN s ELSE step[q]
Turns(p, x) == \A q \in Procs : lpc'[q] = IF q = p THEN x ELSE lpc[q]

LifeInv == RestoresHold /\ McpStarts /\ StartsAlone /\ ConnectedHasFile

\* A host moves in the lock, or leaves it.
LEMMA LockTurn ==
    ASSUME LifeInv, NEW p \in Procs, NEW x, Turns(p, x), Active(p), x # "dead",
           lpc[p] # "held" \/ step[p] \in {"opened", "ready", "threw"},
           step' = step, marker' = marker, db' = db
    PROVE  LifeInv'
<1> USE DEF Turns, Active, Over
<1>1. RestoresHold'
  BY DEF LifeInv, RestoresHold, RestoreSteps
<1>2. McpStarts'
  BY DEF LifeInv, McpStarts
<1>3. StartsAlone'
  BY DEF LifeInv, StartsAlone, Connected
<1>4. ConnectedHasFile'
  BY DEF LifeInv, ConnectedHasFile, Connected
<1> QED  BY <1>1, <1>2, <1>3, <1>4 DEF LifeInv

\* A host begins to start.
LEMMA StartTurn ==
    ASSUME LifeInv, NEW p \in Procs, Turns(p, "mkdir"), lpc[p] \in {"idle", "done"},
           marker # Absent => p \in Apps /\ ~OthersConnected(p),
           step' = step, marker' = marker, db' = db
    PROVE  LifeInv'
<1> USE DEF Turns, Active, Over
<1>1. RestoresHold'
  BY DEF LifeInv, RestoresHold, RestoreSteps
<1>2. McpStarts'
  BY DEF LifeInv, McpStarts
<1>3. StartsAlone'
  BY DEF LifeInv, StartsAlone, Connected, OthersConnected
<1>4. ConnectedHasFile'
  BY DEF LifeInv, ConnectedHasFile, Connected
<1> QED  BY <1>1, <1>2, <1>3, <1>4 DEF LifeInv

\* The holder of the lock looks for a restore, or takes a step of it.
LEMMA RestoreTurn ==
    ASSUME LifeInv, MutualExclusion, NEW p \in Apps, NEW s, Moves(p, s), lpc[p] = "held",
           step[p] \in RestoreSteps \cup {"off"}, lpc' = lpc,
           \/ s \in RestoreSteps /\ marker # Absent /\ marker' = marker
           \/ s = "threw" /\ marker' = marker
           \/ s = "open" /\ marker' = Absent,
           db' = db \/ marker # Absent
    PROVE  LifeInv'
<1> p \in Procs
  BY DatabaseAssumption
<1> USE DEF Moves, Active, Over, RestoreSteps
<1>1. RestoresHold'
  BY DEF LifeInv, RestoresHold, MutualExclusion
<1>2. McpStarts'
  BY DEF LifeInv, McpStarts
<1>3. StartsAlone'
  BY DEF LifeInv, StartsAlone, Connected
<1>4. ConnectedHasFile'
  BY DEF LifeInv, ConnectedHasFile, StartsAlone, Connected
<1> QED  BY <1>1, <1>2, <1>3, <1>4 DEF LifeInv

\* The holder of the lock opens the file.
LEMMA OpenTurn ==
    ASSUME LifeInv, MutualExclusion, NEW p \in Procs, NEW s, Moves(p, s), lpc[p] = "held",
           step[p] = "open" \/ (step[p] \in {"off", "again"} /\ p \notin Apps),
           s \in {"opened", "ready"}, lpc' = lpc, marker' = marker, db' # Absent
    PROVE  LifeInv'
<1> USE DEF Moves, Active, Over, RestoreSteps
<1>0. marker = Absent
  BY DEF LifeInv, RestoresHold, McpStarts
<1>1. RestoresHold'
  BY <1>0 DEF LifeInv, RestoresHold
<1>2. McpStarts' /\ StartsAlone' /\ ConnectedHasFile'
  BY <1>0 DEF LifeInv, McpStarts, StartsAlone, ConnectedHasFile
<1> QED  BY <1>1, <1>2 DEF LifeInv

\* A connected host goes on, stages a restore, or stops.
LEMMA WorkTurn ==
    ASSUME LifeInv, NEW p \in Procs, NEW s, Moves(p, s), lpc[p] = "done", Connected(p),
           s \in {"backup", "prelock", "apply", "ready", "migrated", "again", "closed"},
           s \in {"migrated", "again"} => p \notin Apps, lpc' = lpc,
           \/ marker' = marker
           \/ p \in Apps /\ marker' # Absent /\ \A q \in Procs \ {p} : ~Active(q) /\ ~Connected(q),
           db' # Absent
    PROVE  LifeInv'
<1> USE DEF Moves, Active, Over, RestoreSteps
<1>1. RestoresHold'
  BY DEF LifeInv, RestoresHold
<1>2. McpStarts'
  BY DEF LifeInv, McpStarts
<1>3. StartsAlone'
  BY DEF LifeInv, StartsAlone, Connected
<1>4. ConnectedHasFile'
  BY DEF LifeInv, ConnectedHasFile
<1> QED  BY <1>1, <1>2, <1>3, <1>4 DEF LifeInv

\* A host dies.
LEMMA DeathTurn ==
    ASSUME LifeInv, NEW p \in Procs, Turns(p, "dead"), Moves(p, "closed"), marker' = marker, db' = db
    PROVE  LifeInv'
<1> USE DEF Moves, Turns, Active, Over, RestoreSteps
<1>1. RestoresHold' /\ McpStarts'
  BY DEF LifeInv, RestoresHold, McpStarts
<1>2. StartsAlone' /\ ConnectedHasFile'
  BY DEF LifeInv, StartsAlone, ConnectedHasFile, Connected
<1> QED  BY <1>1, <1>2 DEF LifeInv

LEMMA TopIsImage == TypeOK /\ db # Absent => Top \in Images
BY DEF TypeOK, Top

\* A step of a host keeps the types: what it copies is there.
LEMMA TypeTurn ==
    ASSUME LockTypeOK', TypeOK, LifeInv, Next
    PROVE  TypeOK'
<1> USE DatabaseAssumption DEF TypeOK
<1>1. ASSUME NEW p \in Procs, Start(p) PROVE TypeOK'
  BY <1>1 DEF Start, Begin, Goes, Active, Over, store, files
<1>2. ASSUME NEW p \in Procs, Locks(p) \/ LockFails(p) PROVE TypeOK'
  BY <1>2 DEF Locks, LockFails, store, files
<1>3. ASSUME NEW p \in Procs, Leaves(p) PROVE TypeOK'
  BY <1>3 DEF Leaves, Finish, Goes, store, files
<1>4. ASSUME NEW p \in Procs, LookForRestore(p) PROVE TypeOK'
  BY <1>4 DEF LookForRestore, Task, At, To, store, files
<1>5. ASSUME NEW p \in Procs, Copy(p) PROVE TypeOK'
  BY <1>5 DEF Copy, Task, At, To, store, files, LifeInv, RestoresHold, RestoreSteps
<1>6. ASSUME NEW p \in Procs, DropRollback(p) PROVE TypeOK'
  BY <1>6 DEF DropRollback, Task, At, To, store, files
<1>7. ASSUME NEW p \in Procs, Move(p) PROVE TypeOK'
  BY <1>7 DEF Move, Task, At, To, store, files, LifeInv, RestoresHold, RestoreSteps
<1>8. ASSUME NEW p \in Procs, DropWal(p) PROVE TypeOK'
  BY <1>8 DEF DropWal, Task, At, To, store, files
<1>9. ASSUME NEW p \in Procs, Install(p) PROVE TypeOK'
  BY <1>9 DEF Install, Task, At, To, store, files
<1>10. ASSUME NEW p \in Procs, DropMoved(p) PROVE TypeOK'
  BY <1>10 DEF DropMoved, Task, At, To, store, files
<1>11. ASSUME NEW p \in Procs, Unmark(p) PROVE TypeOK'
  BY <1>11 DEF Unmark, Task, At, To, store, files
<1>12. ASSUME NEW p \in Procs, Undo(p) PROVE TypeOK'
  BY <1>12 DEF Undo, At, To, store, files
<1>13. ASSUME NEW p \in Procs, Open(p) PROVE TypeOK'
  BY <1>13 DEF Open, Task, At, store, files, Fresh, Images
<1>14. ASSUME NEW p \in Procs, CheckPending(p) PROVE TypeOK'
  BY <1>14 DEF CheckPending, At, To, store, files
<1>15. ASSUME NEW p \in Procs, PreMigrationBackup(p) PROVE TypeOK'
  <2>1. Top \in Images
    BY <1>15, TopIsImage DEF LifeInv, ConnectedHasFile, Connected, PreMigrationBackup, At
  <2> QED  BY <1>15, <2>1 DEF PreMigrationBackup, MakeBackup, At, To, store, files, BackupIds
<1>16. ASSUME NEW p \in Procs, PreLock(p) PROVE TypeOK'
  BY <1>16 DEF PreLock, Migrated, At, To, store, files
<1>17. ASSUME NEW p \in Procs, Apply(p) PROVE TypeOK'
  <2>1. Top \in Images
    BY <1>17, TopIsImage DEF LifeInv, ConnectedHasFile, Connected, Apply, At
  <2> QED  BY <1>17, <2>1 DEF Apply, Migrated, At, To, store, files, Images
<1>18. ASSUME NEW p \in Procs, EndBootstrap(p) PROVE TypeOK'
  <2>1. Top \in Images
    BY <1>18, TopIsImage DEF LifeInv, ConnectedHasFile, Connected, EndBootstrap, At
  <2> QED  BY <1>18, <2>1 DEF EndBootstrap, Disconnects, Checkpoints, OthersConnected, At, To,
              store, files
<1>19. ASSUME NEW p \in Procs, Commit(p) PROVE TypeOK'
  <2>1. Top \in Images
    BY <1>19, TopIsImage DEF LifeInv, ConnectedHasFile, Connected, Commit, At
  <2> QED  BY <1>19, <2>1 DEF Commit, At, store, files, Images
<1>20. ASSUME NEW p \in Procs, ManualBackup(p) PROVE TypeOK'
  <2>1. Top \in Images
    BY <1>20, TopIsImage DEF LifeInv, ConnectedHasFile, Connected, ManualBackup, At
  <2> QED  BY <1>20, <2>1 DEF ManualBackup, MakeBackup, At, store, files, BackupIds
<1>21. ASSUME NEW p \in Procs, NEW b \in BackupIds, StageRestore(p, b) PROVE TypeOK'
  BY <1>21 DEF StageRestore, At, store, files
<1>22. ASSUME NEW p \in Procs, Checkpoint(p) PROVE TypeOK'
  <2>1. Top \in Images
    BY <1>22, TopIsImage DEF LifeInv, ConnectedHasFile, Connected, Checkpoint, At
  <2> QED  BY <1>22, <2>1 DEF Checkpoint, Checkpoints, At, store, files
<1>23. ASSUME NEW p \in Procs, Close(p) PROVE TypeOK'
  <2>1. Top \in Images
    BY <1>23, TopIsImage DEF LifeInv, ConnectedHasFile, Connected, Close, At
  <2> QED  BY <1>23, <2>1 DEF Close, Disconnects, Checkpoints, OthersConnected, At, To, store, files
<1>24. ASSUME NEW p \in Procs, Dies(p) PROVE TypeOK'
  BY <1>24 DEF Dies, Crash, Goes, At, To, store, files
<1>25. CASE Ages
  BY <1>25 DEF Ages, store, files
<1> QED
  BY <1>1, <1>2, <1>3, <1>4, <1>5, <1>6, <1>7, <1>8, <1>9, <1>10, <1>11, <1>12, <1>13, <1>14, <1>15,
     <1>16, <1>17, <1>18, <1>19, <1>20, <1>21, <1>22, <1>23, <1>24, <1>25
     DEF Next, StartSteps, Restores, Works

\* A step of the lock moves one host, which is on its way and not inside.
LEMMA LockMoves ==
    ASSUME LockInv, NEW p \in Procs, Waits(p) \/ Releases(p) \/ LockFaults(p)
    PROVE  Active(p) /\ lpc[p] # "held" /\ \E x \in Waiting \cup Tenancy \cup {"done", "failed"} : Turns(p, x)
BY DEF LockInv, LockTypeOK, Waits, Releases, LockFaults, Mkdir, WriteOwner, Cleanup, Look, Stat,
   Unlink, Rmdir, Retry,
   Release, ReleaseUnlink, ReleaseRmdir, WriteFails, TimeOut, Goes, Active, Waiting, Tenancy, Over, Turns

\* Every step of a host is one of these turns.
LEMMA HostTurn ==
    ASSUME Orderly, LockInv, TypeOK, LifeInv, Next
    PROVE  LifeInv'
<1> MutualExclusion
  BY InvExcludes
<1> USE DatabaseAssumption DEF TypeOK, LockTypeOK
<1>1. ASSUME NEW p \in Procs, Start(p) PROVE LifeInv'
  <2>1. /\ Turns(p, "mkdir") /\ lpc[p] \in {"idle", "done"}
        /\ (marker # Absent => p \in Apps /\ ~OthersConnected(p))
    BY <1>1 DEF Start, Begin, Goes, Turns
  <2>2. step' = step /\ marker' = marker /\ db' = db
    BY <1>1 DEF Start, store, files
  <2> QED  BY <2>1, <2>2, StartTurn
<1>2. ASSUME NEW p \in Procs, Locks(p) \/ LockFails(p) PROVE LifeInv'
  <2>1. step' = step /\ marker' = marker /\ db' = db
    BY <1>2 DEF Locks, LockFails, store, files
  <2>2. Active(p) /\ lpc[p] # "held" /\ \E x \in Waiting \cup Tenancy \cup {"done", "failed"} : Turns(p, x)
    BY <1>2, LockMoves DEF Locks, LockFails
  <2>3. "dead" \notin Waiting \cup Tenancy \cup {"done", "failed"}
    BY DEF Waiting, Tenancy
  <2> QED  BY <2>1, <2>2, <2>3, LockTurn
<1>3. ASSUME NEW p \in Procs, Leaves(p) PROVE LifeInv'
  <2>1. Turns(p, "release") /\ Active(p) /\ step[p] \in {"opened", "ready", "threw"}
    BY <1>3 DEF Leaves, Finish, Goes, Turns, Active, Over
  <2>2. step' = step /\ marker' = marker /\ db' = db
    BY <1>3 DEF Leaves, store, files
  <2> QED  BY <2>1, <2>2, LockTurn
<1>4. ASSUME NEW p \in Procs, LookForRestore(p) PROVE LifeInv'
  <2> DEFINE s == IF marker = Absent THEN "open" ELSE IF backups[marker] = Absent THEN "threw" ELSE "copy"
  <2>1. Moves(p, s) /\ lpc[p] = "held" /\ lpc' = lpc /\ step[p] \in RestoreSteps \cup {"off"}
    BY <1>4 DEF LookForRestore, Task, At, To, Moves, lockVars, RestoreSteps
  <2>2. p \in Apps
    BY <1>4, <2>1 DEF LifeInv, RestoresHold, RestoreSteps, LookForRestore, Task, At
  <2>3. marker' = marker /\ db' = db
    BY <1>4 DEF LookForRestore, store, files
  <2>4. (s \in RestoreSteps /\ marker # Absent) \/ s = "threw" \/ (s = "open" /\ marker = Absent)
    BY DEF RestoreSteps
  <2> HIDE DEF s
  <2> QED  BY <2>1, <2>2, <2>3, <2>4, RestoreTurn
<1>5. ASSUME NEW p \in Procs, Copy(p) PROVE LifeInv'
  <2> DEFINE s == "dropRollback"
  <2>1. Moves(p, s) /\ lpc[p] = "held" /\ lpc' = lpc /\ step[p] \in RestoreSteps \cup {"off"}
    BY <1>5 DEF Copy, Task, At, To, Moves, lockVars, RestoreSteps
  <2>2. p \in Apps
    BY <1>5, <2>1 DEF LifeInv, RestoresHold, RestoreSteps, Copy, Task, At
  <2>3. marker # Absent /\ marker' = marker
    BY <1>5 DEF Copy, Task, At, To, LifeInv, RestoresHold, RestoreSteps
  <2> QED  BY <2>1, <2>2, <2>3, RestoreTurn DEF RestoreSteps
<1>6. ASSUME NEW p \in Procs, DropRollback(p) PROVE LifeInv'
  <2> DEFINE s == "move"
  <2>1. Moves(p, s) /\ lpc[p] = "held" /\ lpc' = lpc /\ step[p] \in RestoreSteps \cup {"off"}
    BY <1>6 DEF DropRollback, Task, At, To, Moves, lockVars, RestoreSteps
  <2>2. p \in Apps
    BY <1>6, <2>1 DEF LifeInv, RestoresHold, RestoreSteps, DropRollback, Task, At
  <2>3. marker # Absent /\ marker' = marker
    BY <1>6 DEF DropRollback, Task, At, To, LifeInv, RestoresHold, RestoreSteps
  <2> QED  BY <2>1, <2>2, <2>3, RestoreTurn DEF RestoreSteps
<1>7. ASSUME NEW p \in Procs, Move(p) PROVE LifeInv'
  <2> DEFINE s == "dropWal"
  <2>1. Moves(p, s) /\ lpc[p] = "held" /\ lpc' = lpc /\ step[p] \in RestoreSteps \cup {"off"}
    BY <1>7 DEF Move, Task, At, To, Moves, lockVars, RestoreSteps
  <2>2. p \in Apps
    BY <1>7, <2>1 DEF LifeInv, RestoresHold, RestoreSteps, Move, Task, At
  <2>3. marker # Absent /\ marker' = marker
    BY <1>7 DEF Move, Task, At, To, LifeInv, RestoresHold, RestoreSteps
  <2> QED  BY <2>1, <2>2, <2>3, RestoreTurn DEF RestoreSteps
<1>8. ASSUME NEW p \in Procs, DropWal(p) PROVE LifeInv'
  <2> DEFINE s == "install"
  <2>1. Moves(p, s) /\ lpc[p] = "held" /\ lpc' = lpc /\ step[p] \in RestoreSteps \cup {"off"}
    BY <1>8 DEF DropWal, Task, At, To, Moves, lockVars, RestoreSteps
  <2>2. p \in Apps
    BY <1>8, <2>1 DEF LifeInv, RestoresHold, RestoreSteps, DropWal, Task, At
  <2>3. marker # Absent /\ marker' = marker
    BY <1>8 DEF DropWal, Task, At, To, LifeInv, RestoresHold, RestoreSteps
  <2> QED  BY <2>1, <2>2, <2>3, RestoreTurn DEF RestoreSteps
<1>9. ASSUME NEW p \in Procs, Install(p) PROVE LifeInv'
  <2> DEFINE s == "dropMoved"
  <2>1. Moves(p, s) /\ lpc[p] = "held" /\ lpc' = lpc /\ step[p] \in RestoreSteps \cup {"off"}
    BY <1>9 DEF Install, Task, At, To, Moves, lockVars, RestoreSteps
  <2>2. p \in Apps
    BY <1>9, <2>1 DEF LifeInv, RestoresHold, RestoreSteps, Install, Task, At
  <2>3. marker # Absent /\ marker' = marker
    BY <1>9 DEF Install, Task, At, To, LifeInv, RestoresHold, RestoreSteps
  <2> QED  BY <2>1, <2>2, <2>3, RestoreTurn DEF RestoreSteps
<1>10. ASSUME NEW p \in Procs, DropMoved(p) PROVE LifeInv'
  <2> DEFINE s == "unmark"
  <2>1. Moves(p, s) /\ lpc[p] = "held" /\ lpc' = lpc /\ step[p] \in RestoreSteps \cup {"off"}
    BY <1>10 DEF DropMoved, Task, At, To, Moves, lockVars, RestoreSteps
  <2>2. p \in Apps
    BY <1>10, <2>1 DEF LifeInv, RestoresHold, RestoreSteps, DropMoved, Task, At
  <2>3. marker # Absent /\ marker' = marker
    BY <1>10 DEF DropMoved, Task, At, To, LifeInv, RestoresHold, RestoreSteps
  <2> QED  BY <2>1, <2>2, <2>3, RestoreTurn DEF RestoreSteps
<1>11. ASSUME NEW p \in Procs, Unmark(p) PROVE LifeInv'
  <2> DEFINE s == "open"
  <2>1. Moves(p, s) /\ lpc[p] = "held" /\ lpc' = lpc /\ step[p] \in RestoreSteps \cup {"off"}
    BY <1>11 DEF Unmark, Task, At, To, Moves, lockVars, RestoreSteps
  <2>2. p \in Apps
    BY <1>11, <2>1 DEF LifeInv, RestoresHold, RestoreSteps, Unmark, Task, At
  <2>3. marker # Absent /\ marker' = Absent
    BY <1>11 DEF Unmark, Task, At, To, LifeInv, RestoresHold, RestoreSteps
  <2> QED  BY <2>1, <2>2, <2>3, RestoreTurn DEF RestoreSteps
<1>12. ASSUME NEW p \in Procs, Undo(p) PROVE LifeInv'
  <2> DEFINE s == "threw"
  <2>1. Moves(p, s) /\ lpc[p] = "held" /\ lpc' = lpc /\ step[p] \in RestoreSteps \cup {"off"}
    BY <1>12 DEF Undo, At, To, Moves, lockVars, RestoreSteps
  <2>2. p \in Apps
    BY <1>12, <2>1 DEF LifeInv, RestoresHold, RestoreSteps, Undo
  <2>3. marker # Absent /\ marker' = marker
    BY <1>12 DEF Undo, At, To, LifeInv, RestoresHold, RestoreSteps
  <2> QED  BY <2>1, <2>2, <2>3, RestoreTurn DEF RestoreSteps
<1>13. ASSUME NEW p \in Procs, Open(p) PROVE LifeInv'
  <2> DEFINE s == IF At(p, "again") THEN "ready" ELSE "opened"
  <2>1. Moves(p, s) /\ lpc[p] = "held" /\ lpc' = lpc /\ marker' = marker /\ db' # Absent
    BY <1>13 DEF Open, Task, At, Moves, lockVars, Fresh, Images
  <2>2. step[p] = "open" \/ (step[p] \in {"off", "again"} /\ p \notin Apps)
    BY <1>13 DEF Open, Task, At, LifeInv, RestoresHold
  <2>3. s \in {"opened", "ready"}
    OBVIOUS
  <2> HIDE DEF s
  <2> QED  BY <2>1, <2>2, <2>3, OpenTurn
<1>14. ASSUME NEW p \in Procs, CheckPending(p) PROVE LifeInv'
  <2> DEFINE s == IF p \in Apps /\ Top.schema = 0 THEN "backup" ELSE "prelock"
  <2>1. lpc[p] = "done" /\ Connected(p) /\ Moves(p, s) /\ lpc' = lpc
    BY <1>14 DEF CheckPending, At, To, Connected, Moves, lockVars, store
  <2>2. marker' = marker
    BY <1>14 DEF CheckPending, store, files
  <2>3. db # Absent
    BY <2>1 DEF LifeInv, ConnectedHasFile
  <2>4. db' # Absent
    BY <1>14, <2>3 DEF CheckPending, store, files
  <2>5. /\ s \in {"backup", "prelock", "apply", "ready", "migrated", "again", "closed"}
        /\ (s \in {"migrated", "again"} => p \notin Apps)
    BY <1>14 DEF Migrated
  <2> HIDE DEF s
  <2> QED  BY <2>1, <2>2, <2>4, <2>5, WorkTurn
<1>15. ASSUME NEW p \in Procs, PreMigrationBackup(p) PROVE LifeInv'
  <2> DEFINE s == "prelock"
  <2>1. lpc[p] = "done" /\ Connected(p) /\ Moves(p, s) /\ lpc' = lpc
    BY <1>15 DEF PreMigrationBackup, At, To, Connected, Moves, lockVars, store
  <2>2. marker' = marker
    BY <1>15 DEF PreMigrationBackup, store, files
  <2>3. db # Absent
    BY <2>1 DEF LifeInv, ConnectedHasFile
  <2>4. db' # Absent
    BY <1>15, <2>3 DEF PreMigrationBackup, store, files
  <2>5. /\ s \in {"backup", "prelock", "apply", "ready", "migrated", "again", "closed"}
        /\ (s \in {"migrated", "again"} => p \notin Apps)
    BY <1>15 DEF Migrated
  <2> HIDE DEF s
  <2> QED  BY <2>1, <2>2, <2>4, <2>5, WorkTurn
<1>16. ASSUME NEW p \in Procs, PreLock(p) PROVE LifeInv'
  <2> DEFINE s == IF Top.schema = 0 THEN "apply" ELSE Migrated(p)
  <2>1. lpc[p] = "done" /\ Connected(p) /\ Moves(p, s) /\ lpc' = lpc
    BY <1>16 DEF PreLock, At, To, Connected, Moves, lockVars, store
  <2>2. marker' = marker
    BY <1>16 DEF PreLock, store, files
  <2>3. db # Absent
    BY <2>1 DEF LifeInv, ConnectedHasFile
  <2>4. db' # Absent
    BY <1>16, <2>3 DEF PreLock, store, files
  <2>5. /\ s \in {"backup", "prelock", "apply", "ready", "migrated", "again", "closed"}
        /\ (s \in {"migrated", "again"} => p \notin Apps)
    BY <1>16 DEF Migrated
  <2> HIDE DEF s
  <2> QED  BY <2>1, <2>2, <2>4, <2>5, WorkTurn
<1>17. ASSUME NEW p \in Procs, Apply(p) PROVE LifeInv'
  <2> DEFINE s == Migrated(p)
  <2>1. lpc[p] = "done" /\ Connected(p) /\ Moves(p, s) /\ lpc' = lpc
    BY <1>17 DEF Apply, At, To, Connected, Moves, lockVars, store
  <2>2. marker' = marker
    BY <1>17 DEF Apply, store, files
  <2>3. db # Absent
    BY <2>1 DEF LifeInv, ConnectedHasFile
  <2>4. db' # Absent
    BY <1>17, <2>3 DEF Apply, store, files
  <2>5. /\ s \in {"backup", "prelock", "apply", "ready", "migrated", "again", "closed"}
        /\ (s \in {"migrated", "again"} => p \notin Apps)
    BY <1>17 DEF Migrated
  <2> HIDE DEF s
  <2> QED  BY <2>1, <2>2, <2>4, <2>5, WorkTurn
<1>18. ASSUME NEW p \in Procs, EndBootstrap(p) PROVE LifeInv'
  <2> DEFINE s == "again"
  <2>1. lpc[p] = "done" /\ Connected(p) /\ Moves(p, s) /\ lpc' = lpc
    BY <1>18 DEF EndBootstrap, At, To, Connected, Moves, lockVars, store
  <2>2. marker' = marker
    BY <1>18 DEF EndBootstrap, store, files
  <2>3. db # Absent /\ Top # Absent
    BY <2>1 DEF LifeInv, ConnectedHasFile, Top
  <2>4. db' # Absent
    BY <1>18, <2>3 DEF EndBootstrap, Disconnects, Checkpoints
  <2>5. /\ s \in {"backup", "prelock", "apply", "ready", "migrated", "again", "closed"}
        /\ (s \in {"migrated", "again"} => p \notin Apps)
    BY <1>18 DEF Migrated, EndBootstrap, LifeInv, RestoresHold, At
  <2> HIDE DEF s
  <2> QED  BY <2>1, <2>2, <2>4, <2>5, WorkTurn
<1>19. ASSUME NEW p \in Procs, Commit(p) PROVE LifeInv'
  <2> DEFINE s == "ready"
  <2>1. lpc[p] = "done" /\ Connected(p) /\ Moves(p, s) /\ lpc' = lpc
    BY <1>19 DEF Commit, At, To, Connected, Moves, lockVars, store
  <2>2. marker' = marker
    BY <1>19 DEF Commit, store, files
  <2>3. db # Absent
    BY <2>1 DEF LifeInv, ConnectedHasFile
  <2>4. db' # Absent
    BY <1>19, <2>3 DEF Commit, store, files
  <2>5. /\ s \in {"backup", "prelock", "apply", "ready", "migrated", "again", "closed"}
        /\ (s \in {"migrated", "again"} => p \notin Apps)
    BY <1>19 DEF Migrated
  <2> HIDE DEF s
  <2> QED  BY <2>1, <2>2, <2>4, <2>5, WorkTurn
<1>20. ASSUME NEW p \in Procs, ManualBackup(p) PROVE LifeInv'
  <2> DEFINE s == "ready"
  <2>1. lpc[p] = "done" /\ Connected(p) /\ Moves(p, s) /\ lpc' = lpc
    BY <1>20 DEF ManualBackup, At, To, Connected, Moves, lockVars, store
  <2>2. marker' = marker
    BY <1>20 DEF ManualBackup, store, files
  <2>3. db # Absent
    BY <2>1 DEF LifeInv, ConnectedHasFile
  <2>4. db' # Absent
    BY <1>20, <2>3 DEF ManualBackup, store, files
  <2>5. /\ s \in {"backup", "prelock", "apply", "ready", "migrated", "again", "closed"}
        /\ (s \in {"migrated", "again"} => p \notin Apps)
    BY <1>20 DEF Migrated
  <2> HIDE DEF s
  <2> QED  BY <2>1, <2>2, <2>4, <2>5, WorkTurn
<1>21. ASSUME NEW p \in Procs, NEW b \in BackupIds, StageRestore(p, b) PROVE LifeInv'
  <2> DEFINE s == "ready"
  <2>1. lpc[p] = "done" /\ Connected(p) /\ Moves(p, s) /\ lpc' = lpc
    BY <1>21 DEF StageRestore, At, To, Connected, Moves, lockVars, store
  <2>2. p \in Apps /\ marker' # Absent /\ \A q \in Procs \ {p} : ~Active(q) /\ ~Connected(q)
    BY <1>21 DEF StageRestore, BackupIds
  <2>3. db # Absent
    BY <2>1 DEF LifeInv, ConnectedHasFile
  <2>4. db' # Absent
    BY <1>21, <2>3 DEF StageRestore, store, files
  <2>5. /\ s \in {"backup", "prelock", "apply", "ready", "migrated", "again", "closed"}
        /\ (s \in {"migrated", "again"} => p \notin Apps)
    BY <1>21 DEF Migrated
  <2> HIDE DEF s
  <2> QED  BY <2>1, <2>2, <2>4, <2>5, WorkTurn
<1>22. ASSUME NEW p \in Procs, Checkpoint(p) PROVE LifeInv'
  <2> DEFINE s == "ready"
  <2>1. lpc[p] = "done" /\ Connected(p) /\ Moves(p, s) /\ lpc' = lpc
    BY <1>22 DEF Checkpoint, At, To, Connected, Moves, lockVars, store
  <2>2. marker' = marker
    BY <1>22 DEF Checkpoint, store, files
  <2>3. db # Absent /\ Top # Absent
    BY <2>1 DEF LifeInv, ConnectedHasFile, Top
  <2>4. db' # Absent
    BY <1>22, <2>3 DEF Checkpoint, Disconnects, Checkpoints
  <2>5. /\ s \in {"backup", "prelock", "apply", "ready", "migrated", "again", "closed"}
        /\ (s \in {"migrated", "again"} => p \notin Apps)
    BY <1>22 DEF Migrated
  <2> HIDE DEF s
  <2> QED  BY <2>1, <2>2, <2>4, <2>5, WorkTurn
<1>23. ASSUME NEW p \in Procs, Close(p) PROVE LifeInv'
  <2> DEFINE s == "closed"
  <2>1. lpc[p] = "done" /\ Connected(p) /\ Moves(p, s) /\ lpc' = lpc
    BY <1>23 DEF Close, At, To, Connected, Moves, lockVars, store
  <2>2. marker' = marker
    BY <1>23 DEF Close, store, files
  <2>3. db # Absent /\ Top # Absent
    BY <2>1 DEF LifeInv, ConnectedHasFile, Top
  <2>4. db' # Absent
    BY <1>23, <2>3 DEF Close, Disconnects, Checkpoints
  <2>5. /\ s \in {"backup", "prelock", "apply", "ready", "migrated", "again", "closed"}
        /\ (s \in {"migrated", "again"} => p \notin Apps)
    BY <1>23 DEF Migrated
  <2> HIDE DEF s
  <2> QED  BY <2>1, <2>2, <2>4, <2>5, WorkTurn
<1>24. ASSUME NEW p \in Procs, Dies(p) PROVE LifeInv'
  <2>1. Turns(p, "dead") /\ Moves(p, "closed") /\ marker' = marker /\ db' = db
    BY <1>24 DEF Dies, Crash, Goes, To, Turns, Moves, files
  <2> QED  BY <2>1, DeathTurn
<1>25. CASE Ages
  <2> lpc' = lpc /\ step' = step /\ marker' = marker /\ db' = db
    BY <1>25 DEF Ages, Age, store, files
  <2> QED  BY DEF LifeInv, RestoresHold, McpStarts, StartsAlone, ConnectedHasFile, Connected, Active
<1> QED
  BY <1>1, <1>2, <1>3, <1>4, <1>5, <1>6, <1>7, <1>8, <1>9, <1>10, <1>11, <1>12, <1>13, <1>14, <1>15,
     <1>16, <1>17, <1>18, <1>19, <1>20, <1>21, <1>22, <1>23, <1>24, <1>25
     DEF Next, StartSteps, Restores, Works

StartInv == LockInv /\ TypeOK /\ LifeInv

LEMMA StartInitOK == Init => StartInv
<1> SUFFICES ASSUME Init PROVE StartInv
  OBVIOUS
<1>1. LockInv
  BY LockInitOK DEF Init
<1>2. TypeOK
  <2>1. 1 \in BackupIds /\ {0, 1} \subseteq 0..NumBackups
    BY DatabaseAssumption DEF BackupIds
  <2>2. {Fresh, [Fresh EXCEPT !.schema = 1]} \subseteq Images
    BY DEF Images, Fresh
  <2>3. /\ {db, wal, rollback, tmp} \subseteq Images \cup {Absent}
        /\ marker \in BackupIds \cup {Absent}
    BY <2>1, <2>2 DEF Init
  <2>4. backups \in [BackupIds -> Images \cup {Absent}]
    BY <2>2 DEF Init
  <2>5. made \in 0..NumBackups /\ moved \subseteq Apps /\ applied \in BOOLEAN
    BY <2>1 DEF Init
  <2> QED  BY <1>1, <2>3, <2>4, <2>5 DEF Init, LockInv, TypeOK
<1>3. LifeInv
  BY DEF Init, LockInit, LifeInv, RestoresHold, McpStarts, StartsAlone, ConnectedHasFile, Connected,
     Active, Over,
     RestoreSteps
<1> QED  BY <1>1, <1>2, <1>3 DEF StartInv

LEMMA StartIsInductive ==
    ASSUME Orderly, SoloRecovery, StartInv, [Next]_vars
    PROVE  StartInv'
<1>1. LockInv'
  BY HostStep, StepPreserves DEF StartInv
<1>2. CASE UNCHANGED vars
  <2> /\ UNCHANGED <<lockVars, db, wal, rollback, tmp, marker, backups, made, step, moved, applied>>
      /\ lpc' = lpc
    BY <1>2 DEF vars, store, files, lockVars
  <2> QED
    BY <1>1 DEF StartInv, LockInv, TypeOK, LifeInv, RestoresHold, McpStarts, StartsAlone,
       ConnectedHasFile,
       Connected, Active
<1>3. CASE Next
  BY <1>1, <1>3, HostTurn, TypeTurn DEF StartInv, LockInv
<1> QED
  BY <1>2, <1>3

\* A host that replaces the file is alone with it: nobody is connected to what
\* applyPendingDatabaseRestore moves away, and nobody opens or restores.
THEOREM RestoresAreAlone ==
    ASSUME SoloRecovery, Orderly
    PROVE  Spec => []RestoresAlone
<1>1. StartInv /\ [Next]_vars => StartInv'
  BY StartIsInductive
<1>2. StartInv => RestoresAlone
  BY InvExcludes DEF StartInv, LifeInv, RestoresAlone, MutualExclusion, Replacing, RestoresHold,
     StartsAlone,
     RestoreSteps, Active, Over
<1> QED
  BY <1>1, <1>2, StartInitOK, PTL DEF Spec

----------------------------------------------------------------------------
(* The files are a database: the refinement of DurableDatabase *)

\* A host can still take back the move of the file.
Undoable == \E p \in moved : Task(p, "dropWal")

Quiet == UNCHANGED <<db, wal, rollback, tmp, marker, backups, made, moved, applied>>

\* While a host restores, nobody else restores, holds the lock or is connected.
LEMMA RestorerIsAlone ==
    ASSUME StartInv, DurableInv, NEW p \in Procs, step[p] \in RestoreSteps
    PROVE  /\ lpc[p] = "held" /\ p \in Apps /\ marker # Absent /\ backups[marker] # Absent
           /\ \A q \in Procs \ {p} : step[q] \notin RestoreSteps /\ lpc[q] # "held" /\ q \notin moved
           /\ \A q \in Procs : ~Connected(q)
<1>1. lpc[p] = "held" /\ p \in Apps /\ marker # Absent /\ backups[marker] # Absent
  BY DEF StartInv, LifeInv, RestoresHold, DurableInv, CopyIsStaged
<1>2. ASSUME NEW q \in Procs \ {p}
      PROVE  step[q] \notin RestoreSteps /\ lpc[q] # "held" /\ q \notin moved
  BY <1>1, InvExcludes DEF StartInv, LifeInv, RestoresHold, MutualExclusion, DurableInv,
     MovedIsKept, RestoreSteps
<1>3. ASSUME NEW q \in Procs PROVE ~Connected(q)
  BY <1>1 DEF StartInv, LifeInv, StartsAlone, Active, Over, Connected, RestoreSteps
<1> QED  BY <1>1, <1>2, <1>3

\* A step that touches no file.
LEMMA QuietTurn ==
    ASSUME DurableInv, Quiet, moved \subseteq Procs,
           \A q \in Procs : step'[q] \in RestoreSteps \ {"copy"} \/ q \in moved => step'[q] = step[q],
           \A q \in Procs : step'[q] = "copy" => backups[marker] # Absent,
           Undoable => Undoable',
           applied => \A q \in Procs : ~Connected(q)'
    PROVE  DurableInv'
<1>1. MovedIsKept'
  BY DEF DurableInv, MovedIsKept, Quiet
<1>2. CopyIsStaged'
  BY DEF DurableInv, CopyIsStaged, Quiet, RestoreSteps
<1>3. AppliedIsRead'
  BY DEF DurableInv, AppliedIsRead, Quiet
<1>4. FileIsAway' /\ NumbersAreFree'
  BY DEF DurableInv, FileIsAway, NumbersAreFree, Quiet, Undoable
<1> QED  BY <1>1, <1>2, <1>3, <1>4 DEF DurableInv

\* A step of a host that is or gets connected: nothing is being restored.
LEMMA FileTurn ==
    ASSUME \A q \in Procs : step'[q] \notin RestoreSteps, moved' = {}, ~applied', db' # Absent, NumbersAreFree'
    PROVE  DurableInv'
BY DEF DurableInv, MovedIsKept, CopyIsStaged, AppliedIsRead, FileIsAway, RestoreSteps

\* The next step of a restore.
LEMMA RestorerTurn ==
    ASSUME StartInv, DurableInv, NEW p \in Procs, NEW s, step[p] \in RestoreSteps, Moves(p, s),
           s \in RestoreSteps \cup {"open", "threw"},
           UNCHANGED <<lpc, backups, made>>, moved' \subseteq moved \cup {p},
           p \in moved' => /\ s \in {"dropWal", "install", "dropMoved", "unmark"}
                           /\ s \in {"dropWal", "install"} => rollback' # Absent
                           /\ s = "unmark" => rollback' = Absent,
           s \in RestoreSteps \ {"copy", "dropMoved", "unmark"} => tmp' = backups[marker],
           s \in {"dropWal", "install"} => db' = Absent,
           s \in {"install", "dropMoved", "unmark"} => applied',
           s \in {"dropMoved", "unmark"} => db' # Absent,
           \/ marker' = marker /\ (applied' => wal' = Absent /\ db' \in {Absent, backups[marker]})
           \/ s = "open" /\ ~applied',
           applied' /\ p \in moved' /\ s = "dropWal" => rollback' = backups[marker],
           db' = Absent => /\ marker' = marker
                           /\ wal' # Absent \/ applied' \/ (p \in moved' /\ s = "dropWal")
    PROVE  DurableInv'
<1>1. lpc[p] = "held" /\ marker # Absent /\ backups[marker] # Absent
  BY RestorerIsAlone
<1>2. \A q \in Procs \ {p} : step'[q] \notin RestoreSteps /\ q \notin moved'
  BY RestorerIsAlone DEF Moves
<1>3. \A q \in Procs : ~Connected(q)'
  BY RestorerIsAlone DEF Moves, Connected, RestoreSteps
<1>4. step'[p] = s /\ moved' \subseteq {p} \cup moved
  BY DEF Moves
<1>5. MovedIsKept'
  BY <1>2, <1>4 DEF MovedIsKept
<1>6. CopyIsStaged'
  BY <1>1, <1>2, <1>4 DEF CopyIsStaged, RestoreSteps
<1>7. AppliedIsRead'
  BY <1>1, <1>2, <1>3, <1>4, DatabaseAssumption DEF AppliedIsRead, StartInv, TypeOK
<1>8. FileIsAway'
  BY <1>1, <1>4 DEF FileIsAway, Task, At
<1>9. NumbersAreFree'
  BY DEF DurableInv, NumbersAreFree
<1> QED  BY <1>5, <1>6, <1>7, <1>8, <1>9 DEF DurableInv

\* A restore fails before it has removed the WAL, or when all but the marker
\* is done.
FailsInTime == FailAt \cap {"install", "dropMoved"} = {}

\* Who is connected, or opens, meets no restore.
LEMMA NothingIsRestored ==
    ASSUME StartInv, DurableInv, NEW p \in Procs,
           Connected(p) \/ (lpc[p] = "held" /\ step[p] \notin RestoreSteps)
    PROVE  moved = {} /\ \A q \in Procs : step[q] \notin RestoreSteps
<1>1. \A q \in Procs : step[q] \notin RestoreSteps
  BY RestorerIsAlone
<1>2. \A q \in moved : q \in Procs /\ step[q] \in RestoreSteps
  BY DatabaseAssumption DEF StartInv, TypeOK, DurableInv, MovedIsKept, RestoreSteps
<1> QED  BY <1>1, <1>2

\* Every step of a host keeps the files in order.
LEMMA FilesTurn ==
    ASSUME FailsInTime, Orderly, StartInv, DurableInv, Next
    PROVE  DurableInv'
<1> USE DatabaseAssumption DEF StartInv, TypeOK, LockTypeOK
<1>1. ASSUME NEW p \in Procs, Start(p) PROVE DurableInv'
  <2>1. Quiet /\ step' = step /\ \A q \in Procs \ {p} : lpc'[q] = lpc[q]
    BY <1>1 DEF Start, Begin, Goes, Quiet, store, files
  <2>2. lpc[p] # "held" \/ step[p] # "dropWal"
    BY <1>1 DEF Start, Begin, Goes
  <2>3. lpc[p] # "dead"
    BY <1>1 DEF Start, Begin, Goes
  <2>4. Undoable => Undoable'
    BY <2>1, <2>2 DEF Undoable, Task, At, Quiet
  <2>5. applied => \A q \in Procs : ~Connected(q)'
    BY <2>1, <2>3 DEF DurableInv, AppliedIsRead, Connected
  <2>6. \A q \in Procs : step'[q] = "copy" => backups[marker] # Absent
    BY <2>1 DEF DurableInv, CopyIsStaged, RestoreSteps
  <2> QED  BY <2>1, <2>4, <2>5, <2>6, QuietTurn
<1>2. ASSUME NEW p \in Procs, Locks(p) \/ LockFails(p) PROVE DurableInv'
  <2>0. lpc[p] # "held" /\ \E x \in Waiting \cup Tenancy \cup {"done", "failed"} : Turns(p, x)
    BY <1>2, LockMoves DEF Locks, LockFails
  <2>1. Quiet /\ step' = step /\ \A q \in Procs \ {p} : lpc'[q] = lpc[q]
    BY <1>2, <2>0 DEF Locks, LockFails, Quiet, store, files, Turns
  <2>2. lpc[p] # "held" \/ step[p] # "dropWal"
    BY <2>0
  <2>3. lpc[p] # "dead"
    BY <1>2, LockMoves DEF Locks, LockFails, Active, Over
  <2>4. Undoable => Undoable'
    BY <2>1, <2>2 DEF Undoable, Task, At, Quiet
  <2>5. applied => \A q \in Procs : ~Connected(q)'
    BY <2>1, <2>3 DEF DurableInv, AppliedIsRead, Connected
  <2>6. \A q \in Procs : step'[q] = "copy" => backups[marker] # Absent
    BY <2>1 DEF DurableInv, CopyIsStaged, RestoreSteps
  <2> QED  BY <2>1, <2>4, <2>5, <2>6, QuietTurn
<1>3. ASSUME NEW p \in Procs, Leaves(p) PROVE DurableInv'
  <2>1. Quiet /\ step' = step /\ \A q \in Procs \ {p} : lpc'[q] = lpc[q]
    BY <1>3 DEF Leaves, Finish, Goes, Quiet, store, files
  <2>2. lpc[p] # "held" \/ step[p] # "dropWal"
    BY <1>3 DEF Leaves, Finish, Goes
  <2>3. lpc[p] # "dead"
    BY <1>3 DEF Leaves, Finish, Goes
  <2>4. Undoable => Undoable'
    BY <2>1, <2>2 DEF Undoable, Task, At, Quiet
  <2>5. applied => \A q \in Procs : ~Connected(q)'
    BY <2>1, <2>3 DEF DurableInv, AppliedIsRead, Connected
  <2>6. \A q \in Procs : step'[q] = "copy" => backups[marker] # Absent
    BY <2>1 DEF DurableInv, CopyIsStaged, RestoreSteps
  <2> QED  BY <2>1, <2>4, <2>5, <2>6, QuietTurn
<1>4. ASSUME NEW p \in Procs, LookForRestore(p) PROVE DurableInv'
  <2> DEFINE s == IF marker = Absent THEN "open" ELSE IF backups[marker] = Absent THEN "threw" ELSE "copy"
  <2>1. Quiet /\ lpc' = lpc /\ Moves(p, s) /\ lpc[p] = "held" /\ step[p] = "off"
    BY <1>4 DEF LookForRestore, Quiet, store, files, Moves, Task, At, To, lockVars
  <2>2. moved = {}
    BY <2>1, NothingIsRestored DEF RestoreSteps
  <2>3. s \in {"open", "threw", "copy"} /\ (s = "copy" => backups[marker] # Absent)
    OBVIOUS
  <2> HIDE DEF s
  <2>4. applied => \A q \in Procs : ~Connected(q)'
    BY <2>1, <2>3 DEF DurableInv, AppliedIsRead, Connected, Moves
  <2>5. \A q \in Procs : step'[q] = "copy" => backups[marker] # Absent
    BY <2>1, <2>3 DEF DurableInv, CopyIsStaged, RestoreSteps, Moves
  <2>6. \A q \in Procs : step'[q] \in RestoreSteps \ {"copy"} => step'[q] = step[q]
    BY <2>1, <2>3 DEF Moves, RestoreSteps
  <2> QED  BY <2>1, <2>2, <2>4, <2>5, <2>6, QuietTurn DEF Undoable
<1>5. ASSUME NEW p \in Procs, Copy(p) PROVE DurableInv'
  <2>1. step[p] \in RestoreSteps /\ Moves(p, "dropRollback") /\ UNCHANGED <<lpc, backups, made>>
    BY <1>5 DEF Copy, Task, At, To, Moves, RestoreSteps, lockVars
  <2>2. backups[marker] # Absent /\ marker # Absent
    BY <2>1, RestorerIsAlone
  <2>3. ~Undoable \/ (p \in moved /\ step[p] = "dropWal")
    BY <2>1, RestorerIsAlone DEF Undoable, Task, At
  <2> QED
    BY <1>5, <2>1, <2>2, <2>3, RestorerTurn
       DEF Copy, Task, At, To, DurableInv, MovedIsKept, CopyIsStaged, AppliedIsRead, FileIsAway,
           Undoable, RestoreSteps
<1>6. ASSUME NEW p \in Procs, DropRollback(p) PROVE DurableInv'
  <2>1. step[p] \in RestoreSteps /\ Moves(p, "move") /\ UNCHANGED <<lpc, backups, made>>
    BY <1>6 DEF DropRollback, Task, At, To, Moves, RestoreSteps, lockVars
  <2>2. backups[marker] # Absent /\ marker # Absent
    BY <2>1, RestorerIsAlone
  <2>3. ~Undoable \/ (p \in moved /\ step[p] = "dropWal")
    BY <2>1, RestorerIsAlone DEF Undoable, Task, At
  <2> QED
    BY <1>6, <2>1, <2>2, <2>3, RestorerTurn
       DEF DropRollback, Task, At, To, DurableInv, MovedIsKept, CopyIsStaged, AppliedIsRead,
           FileIsAway, Undoable, RestoreSteps
<1>7. ASSUME NEW p \in Procs, Move(p) PROVE DurableInv'
  <2>1. step[p] \in RestoreSteps /\ Moves(p, "dropWal") /\ UNCHANGED <<lpc, backups, made>>
    BY <1>7 DEF Move, Task, At, To, Moves, RestoreSteps, lockVars
  <2>2. backups[marker] # Absent /\ marker # Absent
    BY <2>1, RestorerIsAlone
  <2>3. ~Undoable \/ (p \in moved /\ step[p] = "dropWal")
    BY <2>1, RestorerIsAlone DEF Undoable, Task, At
  <2> QED
    BY <1>7, <2>1, <2>2, <2>3, RestorerTurn
       DEF Move, Task, At, To, DurableInv, MovedIsKept, CopyIsStaged, AppliedIsRead, FileIsAway,
           Undoable, RestoreSteps
<1>8. ASSUME NEW p \in Procs, DropWal(p) PROVE DurableInv'
  <2>1. step[p] \in RestoreSteps /\ Moves(p, "install") /\ UNCHANGED <<lpc, backups, made>>
    BY <1>8 DEF DropWal, Task, At, To, Moves, RestoreSteps, lockVars
  <2>2. backups[marker] # Absent /\ marker # Absent
    BY <2>1, RestorerIsAlone
  <2>3. ~Undoable \/ (p \in moved /\ step[p] = "dropWal")
    BY <2>1, RestorerIsAlone DEF Undoable, Task, At
  <2> QED
    BY <1>8, <2>1, <2>2, <2>3, RestorerTurn
       DEF DropWal, Task, At, To, DurableInv, MovedIsKept, CopyIsStaged, AppliedIsRead, FileIsAway,
           Undoable, RestoreSteps
<1>9. ASSUME NEW p \in Procs, Install(p) PROVE DurableInv'
  <2>1. step[p] \in RestoreSteps /\ Moves(p, "dropMoved") /\ UNCHANGED <<lpc, backups, made>>
    BY <1>9 DEF Install, Task, At, To, Moves, RestoreSteps, lockVars
  <2>2. backups[marker] # Absent /\ marker # Absent
    BY <2>1, RestorerIsAlone
  <2>3. ~Undoable \/ (p \in moved /\ step[p] = "dropWal")
    BY <2>1, RestorerIsAlone DEF Undoable, Task, At
  <2> QED
    BY <1>9, <2>1, <2>2, <2>3, RestorerTurn
       DEF Install, Task, At, To, DurableInv, MovedIsKept, CopyIsStaged, AppliedIsRead, FileIsAway,
           Undoable, RestoreSteps
<1>10. ASSUME NEW p \in Procs, DropMoved(p) PROVE DurableInv'
  <2>1. step[p] \in RestoreSteps /\ Moves(p, "unmark") /\ UNCHANGED <<lpc, backups, made>>
    BY <1>10 DEF DropMoved, Task, At, To, Moves, RestoreSteps, lockVars
  <2>2. backups[marker] # Absent /\ marker # Absent
    BY <2>1, RestorerIsAlone
  <2>3. ~Undoable \/ (p \in moved /\ step[p] = "dropWal")
    BY <2>1, RestorerIsAlone DEF Undoable, Task, At
  <2> QED
    BY <1>10, <2>1, <2>2, <2>3, RestorerTurn
       DEF DropMoved, Task, At, To, DurableInv, MovedIsKept, CopyIsStaged, AppliedIsRead,
           FileIsAway, Undoable, RestoreSteps
<1>11. ASSUME NEW p \in Procs, Unmark(p) PROVE DurableInv'
  <2>1. step[p] \in RestoreSteps /\ Moves(p, "open") /\ UNCHANGED <<lpc, backups, made>>
    BY <1>11 DEF Unmark, Task, At, To, files, Moves, RestoreSteps, lockVars
  <2>2. backups[marker] # Absent /\ marker # Absent
    BY <2>1, RestorerIsAlone
  <2>3. ~Undoable \/ (p \in moved /\ step[p] = "dropWal")
    BY <2>1, RestorerIsAlone DEF Undoable, Task, At
  <2> QED
    BY <1>11, <2>1, <2>2, <2>3, RestorerTurn
       DEF Unmark, Task, At, To, files, DurableInv, MovedIsKept, CopyIsStaged, AppliedIsRead,
           FileIsAway, Undoable, RestoreSteps
<1>12. ASSUME NEW p \in Procs, Undo(p) PROVE DurableInv'
  <2>1. step[p] \in RestoreSteps /\ Moves(p, "threw") /\ UNCHANGED <<lpc, backups, made>>
    BY <1>12 DEF Undo, At, To, Moves, RestoreSteps, lockVars
  <2>2. backups[marker] # Absent /\ marker # Absent
    BY <2>1, RestorerIsAlone
  <2>3. step[p] \notin {"install", "dropMoved"}
    BY <1>12 DEF Undo, FailsInTime
  <2>4. p \in moved => step[p] \in {"dropWal", "unmark"} /\ (step[p] = "unmark" => rollback = Absent)
    BY <2>3 DEF DurableInv, MovedIsKept
  <2>5. moved' = moved \ {p} /\ UNCHANGED <<wal, marker, applied>>
    BY <1>12 DEF Undo
  <2>6. applied => wal = Absent /\ db' \in {Absent, backups[marker]}
    BY <1>12, <2>3, <2>4 DEF Undo, DurableInv, AppliedIsRead
  <2>7. db' = Absent => wal # Absent \/ applied
    <3>1. ~Undoable \/ (p \in moved /\ step[p] = "dropWal")
      BY <2>1, RestorerIsAlone DEF Undoable, Task, At
    <3>2. p \in moved /\ step[p] = "dropWal" => db' # Absent
      BY <1>12 DEF Undo, DurableInv, MovedIsKept
    <3>3. step[p] = "unmark" => applied
      BY DEF DurableInv, CopyIsStaged
    <3>4. db = Absent /\ ~Undoable => wal # Absent \/ applied
      BY <2>2 DEF DurableInv, FileIsAway, Undoable
    <3>5. step[p] # "unmark" /\ ~(p \in moved /\ step[p] = "dropWal") => db' = db
      BY <1>12, <2>3, <2>4 DEF Undo
    <3> QED  BY <3>1, <3>2, <3>3, <3>4, <3>5
  <2> QED  BY <2>1, <2>2, <2>5, <2>6, <2>7, RestorerTurn DEF RestoreSteps
<1>13. ASSUME NEW p \in Procs, Open(p) PROVE DurableInv'
  <2>1. lpc[p] = "held" /\ step[p] \notin RestoreSteps
    BY <1>13 DEF Open, At, Task, RestoreSteps, StartInv, TypeOK
  <2>2. moved = {} /\ \A q \in Procs : step[q] \notin RestoreSteps
    BY <2>1, NothingIsRestored
  <2>3. \A q \in Procs : step'[q] \notin RestoreSteps
    BY <1>13, <2>2 DEF Open, At, To, RestoreSteps, store, files
  <2>4. ~applied'
    <3>1. marker = Absent
      BY <1>13 DEF Open, Task, At, LifeInv, RestoresHold, McpStarts, Active, Over
    <3> QED  BY <1>13, <3>1 DEF Open, DurableInv, AppliedIsRead
  <2>5. db' # Absent
    BY <1>13 DEF Open, Fresh, Images
  <2>6. NumbersAreFree'
    BY <1>13 DEF Open, DurableInv, NumbersAreFree, BackupIds, store
  <2>7. moved' = {}
    BY <1>13, <2>2 DEF Open
  <2> QED  BY <2>3, <2>4, <2>5, <2>6, <2>7, FileTurn
<1>14. ASSUME NEW p \in Procs, CheckPending(p) PROVE DurableInv'
  <2>1. Connected(p)
    BY <1>14 DEF CheckPending, At, Connected
  <2>2. moved = {} /\ \A q \in Procs : step[q] \notin RestoreSteps
    BY <2>1, NothingIsRestored
  <2>3. \A q \in Procs : step'[q] \notin RestoreSteps
    BY <1>14, <2>2 DEF CheckPending, At, To, RestoreSteps, store, files
  <2>4. ~applied'
    BY <1>14, <2>1 DEF CheckPending, DurableInv, AppliedIsRead, store
  <2>5. db' # Absent
    BY <1>14, <2>1 DEF CheckPending, LifeInv, ConnectedHasFile, store, files
  <2>6. NumbersAreFree'
    BY <1>14 DEF CheckPending, DurableInv, NumbersAreFree, BackupIds, store
  <2>7. moved' = {}
    BY <1>14, <2>2 DEF CheckPending
  <2> QED  BY <2>3, <2>4, <2>5, <2>6, <2>7, FileTurn
<1>15. ASSUME NEW p \in Procs, PreMigrationBackup(p) PROVE DurableInv'
  <2>1. Connected(p)
    BY <1>15 DEF PreMigrationBackup, At, Connected
  <2>2. moved = {} /\ \A q \in Procs : step[q] \notin RestoreSteps
    BY <2>1, NothingIsRestored
  <2>3. \A q \in Procs : step'[q] \notin RestoreSteps
    BY <1>15, <2>2 DEF PreMigrationBackup, At, To, RestoreSteps, store, files
  <2>4. ~applied'
    BY <1>15, <2>1 DEF PreMigrationBackup, DurableInv, AppliedIsRead, store
  <2>5. db' # Absent
    BY <1>15, <2>1 DEF PreMigrationBackup, LifeInv, ConnectedHasFile, store, files
  <2>6. NumbersAreFree'
    BY <1>15 DEF PreMigrationBackup, MakeBackup, DurableInv, NumbersAreFree, BackupIds, store
  <2>7. moved' = {}
    BY <1>15, <2>2 DEF PreMigrationBackup
  <2> QED  BY <2>3, <2>4, <2>5, <2>6, <2>7, FileTurn
<1>16. ASSUME NEW p \in Procs, PreLock(p) PROVE DurableInv'
  <2>1. Connected(p)
    BY <1>16 DEF PreLock, At, Connected
  <2>2. moved = {} /\ \A q \in Procs : step[q] \notin RestoreSteps
    BY <2>1, NothingIsRestored
  <2>3. \A q \in Procs : step'[q] \notin RestoreSteps
    BY <1>16, <2>2 DEF PreLock, At, To, RestoreSteps, Migrated, store, files
  <2>4. ~applied'
    BY <1>16, <2>1 DEF PreLock, DurableInv, AppliedIsRead, store
  <2>5. db' # Absent
    BY <1>16, <2>1 DEF PreLock, LifeInv, ConnectedHasFile, store, files
  <2>6. NumbersAreFree'
    BY <1>16 DEF PreLock, DurableInv, NumbersAreFree, BackupIds, store
  <2>7. moved' = {}
    BY <1>16, <2>2 DEF PreLock
  <2> QED  BY <2>3, <2>4, <2>5, <2>6, <2>7, FileTurn
<1>17. ASSUME NEW p \in Procs, Apply(p) PROVE DurableInv'
  <2>1. Connected(p)
    BY <1>17 DEF Apply, At, Connected
  <2>2. moved = {} /\ \A q \in Procs : step[q] \notin RestoreSteps
    BY <2>1, NothingIsRestored
  <2>3. \A q \in Procs : step'[q] \notin RestoreSteps
    BY <1>17, <2>2 DEF Apply, At, To, RestoreSteps, Migrated, store, files
  <2>4. ~applied'
    BY <1>17, <2>1 DEF Apply, DurableInv, AppliedIsRead, store
  <2>5. db' # Absent
    BY <1>17, <2>1 DEF Apply, LifeInv, ConnectedHasFile, store, files
  <2>6. NumbersAreFree'
    BY <1>17 DEF Apply, DurableInv, NumbersAreFree, BackupIds, store
  <2>7. moved' = {}
    BY <1>17, <2>2 DEF Apply
  <2> QED  BY <2>3, <2>4, <2>5, <2>6, <2>7, FileTurn
<1>18. ASSUME NEW p \in Procs, EndBootstrap(p) PROVE DurableInv'
  <2>1. Connected(p)
    BY <1>18 DEF EndBootstrap, At, Connected
  <2>2. moved = {} /\ \A q \in Procs : step[q] \notin RestoreSteps
    BY <2>1, NothingIsRestored
  <2>3. \A q \in Procs : step'[q] \notin RestoreSteps
    BY <1>18, <2>2 DEF EndBootstrap, At, To, RestoreSteps, store, files
  <2>4. ~applied'
    BY <1>18, <2>1 DEF EndBootstrap, DurableInv, AppliedIsRead, store
  <2>5. db' # Absent
    BY <1>18, <2>1 DEF EndBootstrap, LifeInv, ConnectedHasFile, store, files, Disconnects,
       Checkpoints, Top
  <2>6. NumbersAreFree'
    BY <1>18 DEF EndBootstrap, DurableInv, NumbersAreFree, BackupIds, store
  <2>7. moved' = {}
    BY <1>18, <2>2 DEF EndBootstrap
  <2> QED  BY <2>3, <2>4, <2>5, <2>6, <2>7, FileTurn
<1>19. ASSUME NEW p \in Procs, Commit(p) PROVE DurableInv'
  <2>1. Connected(p)
    BY <1>19 DEF Commit, At, Connected
  <2>2. moved = {} /\ \A q \in Procs : step[q] \notin RestoreSteps
    BY <2>1, NothingIsRestored
  <2>3. \A q \in Procs : step'[q] \notin RestoreSteps
    BY <1>19, <2>2 DEF Commit, At, To, RestoreSteps, store, files
  <2>4. ~applied'
    BY <1>19, <2>1 DEF Commit, DurableInv, AppliedIsRead, store
  <2>5. db' # Absent
    BY <1>19, <2>1 DEF Commit, LifeInv, ConnectedHasFile, store, files
  <2>6. NumbersAreFree'
    BY <1>19 DEF Commit, DurableInv, NumbersAreFree, BackupIds, store
  <2>7. moved' = {}
    BY <1>19, <2>2 DEF Commit
  <2> QED  BY <2>3, <2>4, <2>5, <2>6, <2>7, FileTurn
<1>20. ASSUME NEW p \in Procs, ManualBackup(p) PROVE DurableInv'
  <2>1. Connected(p)
    BY <1>20 DEF ManualBackup, At, Connected
  <2>2. moved = {} /\ \A q \in Procs : step[q] \notin RestoreSteps
    BY <2>1, NothingIsRestored
  <2>3. \A q \in Procs : step'[q] \notin RestoreSteps
    BY <1>20, <2>2 DEF ManualBackup, At, To, RestoreSteps, store, files
  <2>4. ~applied'
    BY <1>20, <2>1 DEF ManualBackup, DurableInv, AppliedIsRead, store
  <2>5. db' # Absent
    BY <1>20, <2>1 DEF ManualBackup, LifeInv, ConnectedHasFile, store, files
  <2>6. NumbersAreFree'
    BY <1>20 DEF ManualBackup, MakeBackup, DurableInv, NumbersAreFree, BackupIds, store
  <2>7. moved' = {}
    BY <1>20, <2>2 DEF ManualBackup
  <2> QED  BY <2>3, <2>4, <2>5, <2>6, <2>7, FileTurn
<1>21. ASSUME NEW p \in Procs, NEW b \in BackupIds, StageRestore(p, b) PROVE DurableInv'
  <2>1. Connected(p)
    BY <1>21 DEF StageRestore, At, Connected
  <2>2. moved = {} /\ \A q \in Procs : step[q] \notin RestoreSteps
    BY <2>1, NothingIsRestored
  <2>3. \A q \in Procs : step'[q] \notin RestoreSteps
    BY <1>21, <2>2 DEF StageRestore, At, To, RestoreSteps, store, files
  <2>4. ~applied'
    BY <1>21, <2>1 DEF StageRestore, DurableInv, AppliedIsRead, store
  <2>5. db' # Absent
    BY <1>21, <2>1 DEF StageRestore, LifeInv, ConnectedHasFile, store, files
  <2>6. NumbersAreFree'
    BY <1>21 DEF StageRestore, DurableInv, NumbersAreFree, BackupIds, store
  <2>7. moved' = {}
    BY <1>21, <2>2 DEF StageRestore
  <2> QED  BY <2>3, <2>4, <2>5, <2>6, <2>7, FileTurn
<1>22. ASSUME NEW p \in Procs, Checkpoint(p) PROVE DurableInv'
  <2>1. Connected(p)
    BY <1>22 DEF Checkpoint, At, Connected
  <2>2. moved = {} /\ \A q \in Procs : step[q] \notin RestoreSteps
    BY <2>1, NothingIsRestored
  <2>3. \A q \in Procs : step'[q] \notin RestoreSteps
    BY <1>22, <2>2 DEF Checkpoint, At, To, RestoreSteps, store, files
  <2>4. ~applied'
    BY <1>22, <2>1 DEF Checkpoint, DurableInv, AppliedIsRead, store
  <2>5. db' # Absent
    BY <1>22, <2>1 DEF Checkpoint, LifeInv, ConnectedHasFile, store, files, Checkpoints, Top
  <2>6. NumbersAreFree'
    BY <1>22 DEF Checkpoint, DurableInv, NumbersAreFree, BackupIds, store
  <2>7. moved' = {}
    BY <1>22, <2>2 DEF Checkpoint
  <2> QED  BY <2>3, <2>4, <2>5, <2>6, <2>7, FileTurn
<1>23. ASSUME NEW p \in Procs, Close(p) PROVE DurableInv'
  <2>1. Connected(p)
    BY <1>23 DEF Close, At, Connected
  <2>2. moved = {} /\ \A q \in Procs : step[q] \notin RestoreSteps
    BY <2>1, NothingIsRestored
  <2>3. \A q \in Procs : step'[q] \notin RestoreSteps
    BY <1>23, <2>2 DEF Close, At, To, RestoreSteps, store, files
  <2>4. ~applied'
    BY <1>23, <2>1 DEF Close, DurableInv, AppliedIsRead, store
  <2>5. db' # Absent
    BY <1>23, <2>1 DEF Close, LifeInv, ConnectedHasFile, store, files, Disconnects, Checkpoints, Top
  <2>6. NumbersAreFree'
    BY <1>23 DEF Close, DurableInv, NumbersAreFree, BackupIds, store
  <2>7. moved' = {}
    BY <1>23, <2>2 DEF Close
  <2> QED  BY <2>3, <2>4, <2>5, <2>6, <2>7, FileTurn
<1>24. ASSUME NEW p \in Procs, Dies(p) PROVE DurableInv'
  <2>1. Turns(p, "dead") /\ Moves(p, "closed") /\ moved' = moved \ {p}
    BY <1>24 DEF Dies, Crash, Goes, To, Turns, Moves
  <2>2. UNCHANGED <<db, wal, rollback, tmp, marker, backups, made>>
    BY <1>24 DEF Dies, files
  <2>3. applied' = (applied \/ (step[p] = "dropWal" /\ wal = Absent))
    BY <1>24 DEF Dies, At
  <2>4. \A q \in Procs : step'[q] \in RestoreSteps => step'[q] = step[q] /\ q # p
    BY <2>1 DEF Moves, RestoreSteps
  <2>5. MovedIsKept'
    BY <2>1, <2>2 DEF DurableInv, MovedIsKept, Moves
  <2>6. CopyIsStaged'
    BY <2>2, <2>3, <2>4 DEF DurableInv, CopyIsStaged, RestoreSteps
  <2>7. AppliedIsRead'
    <3>1. CASE applied
      BY <2>1, <2>2, <2>3, <2>4, <3>1 DEF DurableInv, AppliedIsRead, Connected, Moves, Turns,
         RestoreSteps
    <3>2. CASE step[p] = "dropWal" /\ wal = Absent
      <4>1. /\ marker # Absent /\ backups[marker] # Absent /\ db = Absent
            /\ \A q \in Procs : ~Connected(q)
            /\ \A q \in moved : q = p
        BY <3>2, RestorerIsAlone DEF RestoreSteps, DurableInv, CopyIsStaged
      <4> QED  BY <2>1, <2>2, <4>1, <3>2 DEF AppliedIsRead, Connected, Moves, Turns
    <3> QED  BY <2>3, <3>1, <3>2 DEF AppliedIsRead
  <2>8. FileIsAway'
    BY <2>1, <2>2, <2>3 DEF DurableInv, FileIsAway, Task, At, Moves, Turns
  <2> QED  BY <2>2, <2>5, <2>6, <2>7, <2>8 DEF DurableInv, NumbersAreFree
<1>25. CASE Ages
  <2>1. Quiet /\ lpc' = lpc /\ step' = step
    BY <1>25 DEF Ages, Age, Quiet, store, files
  <2> QED
    BY <2>1 DEF Quiet, DurableInv, MovedIsKept, CopyIsStaged, AppliedIsRead, FileIsAway,
       NumbersAreFree, Connected,
       Task, At
<1> QED
  BY <1>1, <1>2, <1>3, <1>4, <1>5, <1>6, <1>7, <1>8, <1>9, <1>10, <1>11, <1>12, <1>13, <1>14, <1>15,
     <1>16, <1>17, <1>18, <1>19, <1>20, <1>21, <1>22, <1>23, <1>24, <1>25
     DEF Next, StartSteps, Restores, Works

\* The staged backup as DurableDatabase sees it.
Staged == IF applied THEN Absent ELSE marker

LEMMA Stutters ==
    ASSUME Content' = Content, backups' = backups, Staged' = Staged
    PROVE  UNCHANGED Durable!vars
BY DEF Durable!vars, Staged

LEMMA ContentIsTop == db # Absent \/ wal # Absent => Content = Top
BY DEF Content

LEMMA QuietKeepsContent ==
    ASSUME UNCHANGED <<db, wal, rollback, marker, backups, moved, applied>>,
           \A q \in moved : Task(q, "dropWal")' <=> Task(q, "dropWal")
    PROVE  UNCHANGED Durable!vars
<1>1. Content' = Content
  BY DEF Content, Top
<1> QED  BY <1>1, Stutters DEF Staged

\* A step of a restore is the moment at which it takes effect, or is not seen.
LEMMA RestoreIsDurable ==
    ASSUME FailsInTime, StartInv, DurableInv, NEW p \in Procs,
           Copy(p) \/ DropRollback(p) \/ Move(p) \/ DropWal(p) \/ Install(p) \/ DropMoved(p) \/ Unmark(p) \/ Undo(p)
    PROVE  [Durable!Next]_(Durable!vars)
<1> USE DatabaseAssumption DEF StartInv, TypeOK, LockTypeOK
<1>1. step[p] \in RestoreSteps
  BY DEF Copy, DropRollback, Move, DropWal, Install, DropMoved, Unmark, Undo, Task, At, RestoreSteps
<1>2. marker # Absent /\ backups[marker] # Absent
  BY <1>1, RestorerIsAlone
<1>3. \A q \in Procs : Task(q, "dropWal") => q = p
  BY <1>1, RestorerIsAlone DEF Task, At, RestoreSteps
<1>4. Undoable <=> p \in moved /\ step[p] = "dropWal"
  BY <1>1, <1>3, RestorerIsAlone DEF Undoable, Task, At
<1>5. ASSUME NEW s, Moves(p, s), lpc' = lpc, moved' \subseteq moved \cup {p}
      PROVE  Undoable' <=> p \in moved' /\ s = "dropWal"
  <2>1. \A q \in Procs \ {p} : ~Task(q, "dropWal")'
    BY <1>3, <1>5 DEF Moves, Task, At
  <2>2. lpc[p] = "held" /\ step'[p] = s
    BY <1>1, <1>5, RestorerIsAlone DEF Moves
  <2> QED  BY <2>1, <2>2, <1>5 DEF Undoable, Task, At
<1>6. CASE Copy(p) \/ DropRollback(p)
  <2>1. /\ UNCHANGED <<db, wal, marker, backups, moved, applied, lpc>> /\ step[p] # "dropWal"
        /\ Moves(p, step'[p]) /\ step'[p] # "dropWal"
    BY <1>6 DEF Copy, DropRollback, Task, At, To, Moves, lockVars
  <2>2. ~Undoable /\ ~Undoable'
    BY <2>1, <1>4, <1>5
  <2>3. Content' = Content
    BY <2>1, <2>2 DEF Content, Top, Undoable
  <2> QED  BY <2>1, <2>3, Stutters DEF Staged
<1>7. CASE Move(p)
  <2>1. /\ step[p] = "move" /\ Moves(p, "dropWal")
        /\ UNCHANGED <<lpc, wal, marker, backups, applied>> /\ db' = Absent
    BY <1>7 DEF Move, Task, At, To, Moves, lockVars
  <2>2. ~Undoable /\ p \notin moved
    BY <2>1, <1>4 DEF DurableInv, MovedIsKept
  <2>3. /\ rollback' = (IF db = Absent THEN rollback ELSE db)
        /\ moved' = (IF db = Absent THEN moved ELSE moved \cup {p})
    BY <1>7 DEF Move
  <2>4. Undoable' <=> db # Absent
    BY <2>1, <2>2, <2>3, <1>5
  <2>5. Content' = Content
    BY <2>1, <2>2, <2>3, <2>4 DEF Content, Top, Undoable
  <2> QED  BY <2>1, <2>5, Stutters DEF Staged
<1>8. CASE DropWal(p)
  <2>1. /\ step[p] = "dropWal" /\ Moves(p, "install")
        /\ UNCHANGED <<lpc, db, rollback, marker, backups, moved>>
    BY <1>8 DEF DropWal, Task, At, To, Moves, lockVars
  <2>2. wal' = Absent /\ applied' = TRUE /\ db = Absent
    BY <1>8, <2>1 DEF DropWal, DurableInv, CopyIsStaged
  <2>3. ~Undoable'
    BY <2>1, <1>5
  <2>4. Content' = backups[marker]
    BY <1>2, <2>1, <2>2, <2>3 DEF Content, Undoable
  <2>5. CASE applied
    <3>1. Content = backups[marker]
      BY <1>2, <1>3, <2>1, <2>2, <2>5 DEF Content, Undoable, DurableInv, AppliedIsRead, Task
    <3> QED  BY <2>1, <2>2, <2>4, <2>5, <3>1, Stutters DEF Staged
  <2>6. CASE ~applied
    BY <1>2, <2>1, <2>2, <2>4, <2>6 DEF Durable!Next, Durable!Restore
  <2> QED  BY <2>5, <2>6
<1>9. CASE Install(p) \/ DropMoved(p)
  <2>1. /\ UNCHANGED <<lpc, wal, marker, backups, moved, applied>> /\ step[p] # "dropWal"
        /\ Moves(p, step'[p]) /\ step'[p] # "dropWal"
    BY <1>9 DEF Install, DropMoved, Task, At, To, Moves, lockVars
  <2>2. ~Undoable /\ ~Undoable'
    BY <2>1, <1>4, <1>5
  <2>3. CASE Install(p)
    <3>1. applied /\ db = Absent /\ tmp = backups[marker] /\ wal = Absent /\ db' = tmp
      BY <2>3 DEF Install, Task, At, DurableInv, CopyIsStaged, AppliedIsRead
    <3>2. Content = backups[marker] /\ Content' = backups[marker]
      BY <1>2, <2>1, <2>2, <3>1 DEF Content, Undoable, Top
    <3> QED  BY <2>1, <3>2, Stutters DEF Staged
  <2>4. CASE DropMoved(p)
    <3>1. db # Absent /\ db' = db
      BY <2>4 DEF DropMoved, Task, At, DurableInv, CopyIsStaged
    <3>2. Content' = Content
      BY <2>1, <3>1 DEF Content, Top
    <3> QED  BY <2>1, <3>2, Stutters DEF Staged
  <2> QED  BY <1>9, <2>3, <2>4
<1>10. CASE Unmark(p)
  <2>1. /\ UNCHANGED <<db, wal, backups>> /\ marker' = Absent /\ applied' = FALSE /\ db # Absent
        /\ applied
    BY <1>10 DEF Unmark, Task, At, files, DurableInv, CopyIsStaged
  <2>2. Content' = Content
    BY <2>1 DEF Content, Top
  <2> QED  BY <2>1, <2>2, Stutters DEF Staged
<1>11. CASE Undo(p)
  <2>1. /\ UNCHANGED <<lpc, wal, marker, backups, applied>> /\ moved' = moved \ {p}
        /\ Moves(p, "threw")
    BY <1>11 DEF Undo, To, Moves, lockVars
  <2>2. step[p] \notin {"install", "dropMoved"}
    BY <1>11 DEF Undo, FailsInTime
  <2>3. ~Undoable'
    BY <2>1, <1>5
  <2>4. CASE Undoable
    <3>1. db = Absent /\ rollback # Absent /\ db' = rollback
      BY <1>4, <1>11, <2>4 DEF Undo, DurableInv, MovedIsKept, CopyIsStaged
    <3>2. Content' = Content
      BY <2>1, <2>4, <3>1 DEF Content, Top, Undoable
    <3> QED  BY <2>1, <3>2, Stutters DEF Staged
  <2>5. CASE step[p] = "unmark"
    <3>1. applied /\ db # Absent /\ db = backups[marker] /\ wal = Absent /\ db' = Absent
      BY <1>11, <2>5 DEF Undo, DurableInv, MovedIsKept, CopyIsStaged, AppliedIsRead
    <3>2. Content = backups[marker] /\ Content' = backups[marker]
      BY <1>2, <2>1, <2>3, <3>1 DEF Content, Top, Undoable
    <3> QED  BY <2>1, <3>2, Stutters DEF Staged
  <2>6. CASE ~Undoable /\ step[p] # "unmark"
    <3>1. db' = db
      BY <1>4, <1>11, <2>2, <2>6 DEF Undo, DurableInv, MovedIsKept
    <3>2. Content' = Content
      BY <2>1, <2>3, <2>6, <3>1 DEF Content, Top, Undoable
    <3> QED  BY <2>1, <3>2, Stutters DEF Staged
  <2> QED  BY <2>4, <2>5, <2>6
<1> QED  BY <1>6, <1>7, <1>8, <1>9, <1>10, <1>11

\* A backup copies the content under a number of its own.
LEMMA BackupIsDurable ==
    ASSUME StartInv, StartInv', DurableInv, MakeBackup, db # Absent,
           UNCHANGED <<db, wal, marker, applied>>
    PROVE  Durable!Next
<1>1. Content = Top /\ Content' = Content /\ Top # Absent
  BY DEF Content, Top
<1>2. made' \in BackupIds /\ made' = made + 1 /\ made \in Nat /\ made' > made
  BY DatabaseAssumption DEF MakeBackup, StartInv, TypeOK, BackupIds
<1>3. backups[made'] = Absent
  BY <1>2 DEF DurableInv, NumbersAreFree
<1>4. backups' = [b \in BackupIds |-> IF b = made' THEN Top
                                     ELSE IF b + MaxBackups <= made' THEN Absent ELSE backups[b]]
  BY DEF MakeBackup
<1>5. backups'[made'] = Content /\ \A o \in BackupIds \ {made'} : backups'[o] \in {backups[o], Absent}
  BY <1>1, <1>2, <1>4
<1>6. backups' \in [BackupIds -> Durable!Contents \cup {Absent}]
  BY DEF StartInv, TypeOK, Images, Durable!Contents
<1>7. Durable!Backup(made')
  BY <1>1, <1>3, <1>5, <1>6 DEF Durable!Backup
<1> QED  BY <1>2, <1>7 DEF Durable!Next

\* Who dies after the WAL is gone leaves the restore in force.
LEMMA DeathIsDurable ==
    ASSUME FailsInTime, StartInv, DurableInv, NEW p \in Procs, Dies(p)
    PROVE  [Durable!Next]_(Durable!vars)
<1> USE DatabaseAssumption DEF StartInv, TypeOK, LockTypeOK
<1>1. Turns(p, "dead") /\ Moves(p, "closed") /\ moved' = moved \ {p}
  BY DEF Dies, Crash, Goes, To, Turns, Moves
<1>2. UNCHANGED <<db, wal, rollback, marker, backups>>
  BY DEF Dies, files
<1>3. applied' = (applied \/ (step[p] = "dropWal" /\ wal = Absent))
  BY DEF Dies, At
<1>4. \A q \in Procs \ {p} : Task(q, "dropWal")' <=> Task(q, "dropWal")
  BY <1>1 DEF Task, At, Turns, Moves
<1>5. CASE step[p] # "dropWal"
  <2>1. Undoable' <=> Undoable
    BY <1>1, <1>4, <1>5 DEF Undoable, Task, At, Turns, Moves
  <2>2. Content' = Content
    BY <1>2, <2>1 DEF Content, Top, Undoable
  <2> QED  BY <1>2, <1>3, <1>5, <2>2, Stutters DEF Staged
<1>6. CASE step[p] = "dropWal" /\ wal # Absent
  <2>1. Content' = Content
    BY <1>2, <1>6 DEF Content, Top
  <2> QED  BY <1>2, <1>3, <1>6, <2>1, Stutters DEF Staged
<1>7. CASE step[p] = "dropWal" /\ wal = Absent
  <2>1. marker # Absent /\ backups[marker] # Absent /\ db = Absent
    BY <1>7, RestorerIsAlone DEF RestoreSteps, DurableInv, CopyIsStaged
  <2>2. \A q \in moved : q = p
    BY <1>7, RestorerIsAlone DEF RestoreSteps
  <2>3. Content' = backups[marker] /\ applied'
    BY <1>1, <1>2, <1>3, <1>7, <2>1, <2>2 DEF Content
  <2>4. CASE applied
    <3>1. Content = backups[marker]
      BY <1>7, <2>1, <2>2, <2>4 DEF Content, Task, At, DurableInv, AppliedIsRead
    <3> QED  BY <1>2, <2>3, <2>4, <3>1, Stutters DEF Staged
  <2>5. CASE ~applied
    BY <1>2, <2>1, <2>3, <2>5 DEF Durable!Next, Durable!Restore
  <2> QED  BY <2>4, <2>5
<1> QED  BY <1>5, <1>6, <1>7

\* Opening creates what was never there, and nothing else.
LEMMA OpenIsDurable ==
    ASSUME Orderly, StartInv, DurableInv, NEW p \in Procs, Open(p)
    PROVE  [Durable!Next]_(Durable!vars)
<1>1. lpc[p] = "held" /\ step[p] \notin RestoreSteps
  BY DEF Open, Task, At, RestoreSteps
<1>2. moved = {}
  BY <1>1, NothingIsRestored
<1>3. marker = Absent
  BY DEF StartInv, Open, Task, At, LifeInv, RestoresHold, McpStarts, Active, Over
<1>4. UNCHANGED <<marker, backups, applied>>
  BY DEF Open
<1>5. CASE db = Absent
  <2>1. wal = Absent
    BY <1>3, <1>5 DEF DurableInv, FileIsAway
  <2>2. Content = Absent
    BY <1>2, <1>3, <1>5, <2>1 DEF Content
  <2>3. db' = Fresh /\ wal' = Absent /\ Fresh # Absent
    BY <1>5, DatabaseAssumption DEF Open, Fresh, Images
  <2>4. Content' = Durable!Fresh
    BY <2>3 DEF Content, Top, Fresh, Durable!Fresh
  <2> QED  BY <1>4, <2>2, <2>4 DEF Durable!Next, Durable!Create
<1>6. CASE db # Absent
  <2>1. Content' = Content
    BY <1>6 DEF Open, Content, Top
  <2> QED  BY <1>4, <2>1, Stutters DEF Staged
<1> QED  BY <1>5, <1>6

\* A connected host commits, migrates, backs up, stages, or moves the frames
\* of the WAL.
LEMMA WorkIsDurable ==
    ASSUME Orderly, StartInv, StartInv', DurableInv, NEW p \in Procs,
           \/ CheckPending(p) \/ PreMigrationBackup(p) \/ PreLock(p) \/ Apply(p) \/ EndBootstrap(p)
           \/ Works(p)
    PROVE  [Durable!Next]_(Durable!vars)
<1>1. Connected(p)
  BY DEF CheckPending, PreMigrationBackup, PreLock, Apply, EndBootstrap, Works, Commit,
     ManualBackup, Checkpoint,
     Close, StageRestore, At, Connected
<1>2. db # Absent /\ Top \in Images /\ Top # Absent /\ Content = Top
  BY <1>1, TopIsImage, ContentIsTop, DatabaseAssumption DEF StartInv, LifeInv, ConnectedHasFile
<1>3. CASE CheckPending(p) \/ PreLock(p)
  <2>1. UNCHANGED <<db, wal, marker, backups, applied>>
    BY <1>3 DEF CheckPending, PreLock, store, files
  <2>2. Content' = Content
    BY <1>2, <2>1 DEF Content, Top
  <2> QED  BY <2>1, <2>2, Stutters DEF Staged
<1>4. CASE PreMigrationBackup(p) \/ ManualBackup(p)
  <2>1. UNCHANGED <<db, wal, marker, applied>>
    BY <1>4 DEF PreMigrationBackup, ManualBackup, files
  <2>2. Content' = Content
    BY <1>2, <2>1 DEF Content, Top
  <2>3. MakeBackup \/ backups' = backups
    BY <1>4 DEF PreMigrationBackup, ManualBackup
  <2> QED  BY <1>2, <2>1, <2>2, <2>3, Stutters, BackupIsDurable DEF Staged
<1>5. CASE Apply(p)
  <2>1. UNCHANGED <<db, marker, backups, applied>> /\ wal' = IF Top.schema = 0 THEN [Top EXCEPT !.schema = @ + 1] ELSE wal
    BY <1>5 DEF Apply
  <2>2. CASE Top.schema = 0
    <3>1. wal' = [Top EXCEPT !.schema = 1] /\ wal' \in Images
      BY <1>2, <2>1, <2>2 DEF Images
    <3>2. Content' = [Content EXCEPT !.schema = 1]
      BY <1>2, <2>1, <3>1, DatabaseAssumption DEF Content, Top
    <3> QED  BY <1>2, <2>1, <2>2, <3>2 DEF Durable!Next, Durable!Migrate
  <2>3. CASE Top.schema # 0
    <3>1. Content' = Content
      BY <1>2, <2>1, <2>3 DEF Content, Top
    <3> QED  BY <2>1, <3>1, Stutters DEF Staged
  <2> QED  BY <2>2, <2>3
<1>6. CASE EndBootstrap(p) \/ Checkpoint(p) \/ Close(p)
  <2>1. UNCHANGED <<marker, backups, applied>> /\ (UNCHANGED <<db, wal>> \/ Checkpoints)
    BY <1>6 DEF EndBootstrap, Checkpoint, Close, Disconnects, Checkpoints
  <2>2. Content' = Content
    BY <1>2, <2>1 DEF Content, Top, Checkpoints
  <2> QED  BY <2>1, <2>2, Stutters DEF Staged
<1>7. CASE Commit(p)
  <2>1. UNCHANGED <<db, marker, backups, applied>> /\ wal' = [Top EXCEPT !.rows = @ \cup {p}]
    BY <1>7 DEF Commit
  <2>2. wal' \in Images
    BY <1>2, <2>1 DEF Images
  <2>3. Content' = [Content EXCEPT !.rows = @ \cup {p}]
    BY <1>2, <2>1, <2>2, DatabaseAssumption DEF Content, Top
  <2> QED  BY <1>2, <2>1, <2>3 DEF Durable!Next, Durable!Commit
<1>8. ASSUME NEW b \in BackupIds, StageRestore(p, b) PROVE [Durable!Next]_(Durable!vars)
  <2>1. UNCHANGED <<db, wal, backups>> /\ backups[b] # Absent /\ marker' = b /\ ~applied'
    BY <1>8 DEF StageRestore, files
  <2>2. Content' = Content
    BY <1>2, <2>1 DEF Content, Top
  <2>3. Durable!Stage(b)
    BY <2>1, <2>2 DEF Durable!Stage
  <2> QED  BY <2>3 DEF Durable!Next
<1> QED  BY <1>3, <1>4, <1>5, <1>6, <1>7, <1>8 DEF Works

\* Every other step leaves the files alone.
LEMMA OthersAreDurable ==
    ASSUME StartInv, DurableInv,
           Ages \/ \E p \in Procs : Start(p) \/ Locks(p) \/ LockFails(p) \/ Leaves(p) \/ LookForRestore(p)
    PROVE  [Durable!Next]_(Durable!vars)
<1> USE DatabaseAssumption DEF StartInv, TypeOK, LockTypeOK
<1>1. ASSUME NEW p \in Procs, Start(p) \/ Locks(p) \/ LockFails(p) \/ Leaves(p)
      PROVE  \A q \in moved : Task(q, "dropWal")' <=> Task(q, "dropWal")
  <2>1. step' = step
    BY <1>1 DEF Start, Locks, LockFails, Leaves
  <2>2. CASE Locks(p) \/ LockFails(p)
    <3>1. lpc[p] # "held" /\ \E x \in Waiting \cup Tenancy \cup {"done", "failed"} : Turns(p, x)
      BY <2>2, LockMoves DEF Locks, LockFails
    <3>2. \A q \in moved : q = p => step[q] # "dropWal"
      BY <3>1, RestorerIsAlone DEF RestoreSteps
    <3> QED  BY <2>1, <3>1, <3>2 DEF Task, At, Turns
  <2>3. CASE Start(p) \/ Leaves(p)
    <3>1. \A q \in Procs \ {p} : lpc'[q] = lpc[q]
      BY <2>3 DEF Start, Begin, Leaves, Finish, Goes
    <3>2. step[p] # "dropWal"
      BY <2>3 DEF Start, Leaves, At
    <3> QED  BY <2>1, <3>1, <3>2 DEF Task, At
  <2> QED  BY <1>1, <2>2, <2>3
<1>2. ASSUME NEW p \in Procs, LookForRestore(p)
      PROVE  \A q \in moved : Task(q, "dropWal")' <=> Task(q, "dropWal")
  BY <1>2, NothingIsRestored DEF LookForRestore, Task, At, RestoreSteps
<1>3. CASE Ages
  BY <1>3, QuietKeepsContent DEF Ages, Age, store, files, Task, At
<1>4. ASSUME NEW p \in Procs, Start(p) \/ Locks(p) \/ LockFails(p) \/ Leaves(p) \/ LookForRestore(p)
      PROVE  UNCHANGED <<db, wal, rollback, marker, backups, moved, applied>>
  BY <1>4 DEF Start, Locks, LockFails, Leaves, LookForRestore, store, files
<1> QED  BY <1>1, <1>2, <1>3, <1>4, QuietKeepsContent

LEMMA StepIsDurable ==
    ASSUME FailsInTime, Orderly, StartInv, StartInv', DurableInv, [Next]_vars
    PROVE  [Durable!Next]_(Durable!vars)
<1>1. CASE UNCHANGED vars
  <2> UNCHANGED <<db, wal, rollback, marker, backups, moved, applied>> /\ lpc' = lpc /\ step' = step
    BY <1>1 DEF vars, store, files, lockVars
  <2> QED  BY QuietKeepsContent DEF Task, At
<1>2. CASE Next
  BY <1>2, OthersAreDurable, RestoreIsDurable, OpenIsDurable, WorkIsDurable, DeathIsDurable
     DEF Next, StartSteps, Restores
<1> QED  BY <1>1, <1>2

LEMMA DurableInitOK == Init => DurableInv /\ Durable!Init
<1> SUFFICES ASSUME Init PROVE DurableInv /\ Durable!Init
  OBVIOUS
<1>1. TypeOK
  BY StartInitOK DEF StartInv
<1>2. moved = {} /\ ~applied /\ wal = Absent /\ \A p \in Procs : step[p] = "off"
  BY DEF Init
<1>3. db = Absent => marker = Absent
  BY DatabaseAssumption DEF Init, Fresh, Images
<1>4. NumbersAreFree
  <2> SUFFICES ASSUME NEW b \in BackupIds, b > made PROVE backups[b] = Absent
    BY DEF NumbersAreFree
  <2>1. b # 1 \/ made = 0
    BY DatabaseAssumption DEF BackupIds, Init
  <2> QED  BY <2>1 DEF Init
<1>5. DurableInv
  BY <1>2, <1>3, <1>4 DEF DurableInv, MovedIsKept, CopyIsStaged, AppliedIsRead, FileIsAway,
     RestoreSteps
<1>6. Content = db
  BY <1>2, <1>3 DEF Content, Top
<1>7. Durable!Init
  BY <1>1, <1>2, <1>6 DEF TypeOK, Images, Durable!Init, Durable!Contents
<1> QED  BY <1>5, <1>7

LEMMA FilesAreInductive ==
    ASSUME FailsInTime, Orderly, StartInv, DurableInv, [Next]_vars
    PROVE  DurableInv'
<1>1. CASE UNCHANGED vars
  <2> Quiet /\ lpc' = lpc /\ step' = step
    BY <1>1 DEF vars, store, files, lockVars, Quiet
  <2> QED
    BY DEF Quiet, DurableInv, MovedIsKept, CopyIsStaged, AppliedIsRead, FileIsAway, NumbersAreFree,
       Connected, Task, At
<1>2. CASE Next
  BY <1>2, FilesTurn
<1> QED  BY <1>1, <1>2

\* Whatever order the hosts start, restore, migrate and die in, the files
\* behave as one database: DurableDatabase, step by step.
THEOREM FilesAreDurable ==
    ASSUME SoloRecovery, Orderly, FailsInTime
    PROVE  Spec => ImplementsDurable
<1>1. StartInv /\ DurableInv /\ [Next]_vars => StartInv' /\ DurableInv' /\ [Durable!Next]_(Durable!vars)
  BY StartIsInductive, FilesAreInductive, StepIsDurable
<1>2. Init => StartInv /\ DurableInv /\ Durable!Init
  BY StartInitOK, DurableInitOK
<1> QED
  BY <1>1, <1>2, PTL DEF Spec, ImplementsDurable, Durable!Spec

=============================================================================
