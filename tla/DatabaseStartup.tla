-------------------------- MODULE DatabaseStartup --------------------------
(***************************************************************************)
(* The life of a host with the database: it takes the startup lock,        *)
(* applies a staged restore (applyPendingDatabaseRestore), opens the file, *)
(* backs it up and migrates it (DatabaseManager.initialize,                *)
(* MigrationManager.migrate), then commits, backs up and stages restores   *)
(* until it stops.  The MCP host bootstraps the file with a connection of  *)
(* its own, opens it again, and knows nothing of restores.  A host may die *)
(* before any call of the file system.                                     *)
(*                                                                         *)
(* Abstractions.  A database image is the set of hosts whose commit is in  *)
(* it and how often the pending migrations were applied to it.  The WAL is *)
(* the image with its frames, Absent when it has none that the file lacks. *)
(* The order of backups is their number.  attemptRecovery, damaged files   *)
(* and a loss of power are left out.                                       *)
(*                                                                         *)
(* Assumptions on the hosts (Orderly): a restore is staged when no other   *)
(* host is connected or starts, a host that starts while one is staged     *)
(* finds nobody connected, and it is not the MCP host.  On the disk: a     *)
(* restore fails only at the steps FailAt.                                 *)
(***************************************************************************)
EXTENDS StartupLock, FiniteSets

CONSTANTS
    Apps,         \* hosts with a DatabaseManager; the others are MCP hosts
    Absent,       \* no file
    NumBackups,   \* bound: backups ever made
    MaxBackups,   \* backups kept
    Orderly, FailAt

BackupIds == 1..NumBackups
Images == [rows : SUBSET Procs, schema : {0, 1}]

\* What applyPendingDatabaseRestore does once it has found a marker.
RestoreSteps == {"copy", "dropRollback", "move", "dropWal", "install", "dropMoved", "unmark"}

ASSUME DatabaseAssumption ==
    /\ Apps \subseteq Procs /\ Absent \notin BackupIds \cup Images
    /\ NumBackups \in Nat \ {0} /\ MaxBackups \in 1..NumBackups /\ Orderly \in BOOLEAN
    /\ FailAt \subseteq RestoreSteps

VARIABLES
    db, wal, rollback, tmp,   \* the file and what lies beside it
    marker,    \* the staged backup
    backups,   \* the image of a backup
    made,      \* backups made so far
    step,      \* where a host is in its life
    moved,     \* hosts that moved the file aside (originalMoved)
    applied    \* history: the content of the staged backup is in force

files == <<db, wal, rollback, tmp>>
store == <<files, marker, backups, made, applied>>
vars == <<lockVars, store, step, moved>>

Fresh == [rows |-> {}, schema |-> 0]

\* What a connection reads.
Top == IF wal = Absent THEN db ELSE wal

Connected(p) == step[p] \in {"opened", "backup", "prelock", "apply", "ready", "migrated"} /\ lpc[p] # "dead"
OthersConnected(p) == \E q \in Procs \ {p} : Connected(q)

\* A first start; a database of the last version; a migrated one with the
\* backup made before, which may be staged.
Init ==
    /\ LockInit
    /\ wal = Absent /\ rollback = Absent /\ tmp = Absent
    /\ \/ /\ db \in {Absent, Fresh} /\ marker = Absent
          /\ backups = [b \in BackupIds |-> Absent] /\ made = 0
       \/ /\ db = [Fresh EXCEPT !.schema = 1] /\ marker \in {Absent, 1}
          /\ backups = [b \in BackupIds |-> IF b = 1 THEN Fresh ELSE Absent] /\ made = 1
    /\ step = [p \in Procs |-> "off"] /\ moved = {} /\ applied = FALSE

At(p, s) == step[p] = s
To(p, s) == step' = [step EXCEPT ![p] = s]
Task(p, s) == lpc[p] = "held" /\ At(p, s)

----------------------------------------------------------------------------
(* The lock *)

Start(p) ==
    /\ At(p, "off") \/ At(p, "again")
    /\ Orderly /\ marker # Absent => p \in Apps /\ ~OthersConnected(p)
    /\ Begin(p)
    /\ UNCHANGED <<store, step, moved>>

Locks(p) == (Waits(p) \/ Releases(p)) /\ UNCHANGED <<store, step, moved>>

LockFails(p) == LockFaults(p) /\ UNCHANGED <<store, step, moved>>

\* withDatabaseStartupLock leaves the task, with a connection or an error.
Leaves(p) ==
    /\ step[p] \in {"opened", "ready", "threw"}
    /\ Finish(p)
    /\ UNCHANGED <<store, step, moved>>

----------------------------------------------------------------------------
(* applyPendingDatabaseRestore *)

\* The marker, and the integrity of its backup.
LookForRestore(p) ==
    /\ Task(p, "off") /\ p \in Apps
    /\ To(p, IF marker = Absent THEN "open" ELSE IF backups[marker] = Absent THEN "threw" ELSE "copy")
    /\ UNCHANGED <<lockVars, store, moved>>

\* Mutant: the marker is consumed with the backup it names.
Copy_Unmarks(p) ==
    /\ Task(p, "copy")
    /\ tmp' = backups[marker]
    /\ marker' = Absent
    /\ To(p, "dropRollback")
    /\ UNCHANGED <<lockVars, db, wal, rollback, backups, made, moved, applied>>

Copy(p) ==
    /\ Task(p, "copy")
    /\ tmp' = backups[marker]
    /\ To(p, "dropRollback")
    /\ UNCHANGED <<lockVars, db, wal, rollback, marker, backups, made, moved, applied>>

DropRollback(p) ==
    /\ Task(p, "dropRollback")
    /\ rollback' = Absent
    /\ To(p, "move")
    /\ UNCHANGED <<lockVars, db, wal, tmp, marker, backups, made, moved, applied>>

Move(p) ==
    /\ Task(p, "move")
    /\ rollback' = IF db = Absent THEN rollback ELSE db
    /\ moved' = IF db = Absent THEN moved ELSE moved \cup {p}
    /\ db' = Absent
    /\ To(p, "dropWal")
    /\ UNCHANGED <<lockVars, wal, tmp, marker, backups, made, applied>>

DropWal(p) ==
    /\ Task(p, "dropWal")
    /\ wal' = Absent
    /\ applied' = TRUE
    /\ To(p, "install")
    /\ UNCHANGED <<lockVars, db, rollback, tmp, marker, backups, made, moved>>

Install(p) ==
    /\ Task(p, "install")
    /\ db' = tmp /\ tmp' = Absent
    /\ To(p, "dropMoved")
    /\ UNCHANGED <<lockVars, wal, rollback, marker, backups, made, moved, applied>>

DropMoved(p) ==
    /\ Task(p, "dropMoved")
    /\ rollback' = IF p \in moved THEN Absent ELSE rollback
    /\ To(p, "unmark")
    /\ UNCHANGED <<lockVars, db, wal, tmp, marker, backups, made, moved, applied>>

Unmark(p) ==
    /\ Task(p, "unmark")
    /\ marker' = Absent /\ applied' = FALSE
    /\ moved' = moved \ {p}
    /\ To(p, "open")
    /\ UNCHANGED <<lockVars, files, backups, made>>

\* A step throws, and the catch puts back what was moved.
Undo(p) ==
    /\ lpc[p] = "held" /\ step[p] \in FailAt
    /\ LET left == IF step[p] \in {"dropMoved", "unmark"} THEN Absent ELSE db
           back == p \in moved /\ rollback # Absent
       IN /\ db' = IF back THEN rollback ELSE left
          /\ rollback' = IF back THEN Absent ELSE rollback
    /\ tmp' = Absent /\ moved' = moved \ {p}
    /\ To(p, "threw")
    /\ UNCHANGED <<lockVars, wal, marker, backups, made, applied>>

----------------------------------------------------------------------------
(* The connection and the migration *)

\* SQLite creates a file that is not there; a WAL without a file is void.
Open(p) ==
    /\ Task(p, "open") \/ Task(p, "again") \/ (Task(p, "off") /\ p \notin Apps)
    /\ db' = IF db = Absent THEN Fresh ELSE db
    /\ wal' = IF db = Absent THEN Absent ELSE wal
    /\ step' = [step EXCEPT ![p] = IF At(p, "again") THEN "ready" ELSE "opened"]
    /\ UNCHANGED <<lockVars, rollback, tmp, marker, backups, made, moved, applied>>

\* getPendingCount; only the DatabaseManager makes a backup.
CheckPending(p) ==
    /\ At(p, "opened") /\ lpc[p] = "done"
    /\ To(p, IF p \in Apps /\ Top.schema = 0 THEN "backup" ELSE "prelock")
    /\ UNCHANGED <<lockVars, store, moved>>

MakeBackup ==
    /\ made < NumBackups
    /\ made' = made + 1
    /\ backups' = [b \in BackupIds |-> IF b = made' THEN Top
                                       ELSE IF b + MaxBackups <= made' THEN Absent ELSE backups[b]]

\* A backup that fails does not stop the start.
PreMigrationBackup(p) ==
    /\ At(p, "backup") /\ lpc[p] = "done"
    /\ \/ MakeBackup
       \/ UNCHANGED <<made, backups>>
    /\ To(p, "prelock")
    /\ UNCHANGED <<lockVars, files, marker, moved, applied>>

Migrated(p) == IF p \in Apps THEN "ready" ELSE "migrated"

\* The version before BEGIN IMMEDIATE.
PreLock(p) ==
    /\ At(p, "prelock") /\ lpc[p] = "done"
    /\ To(p, IF Top.schema = 0 THEN "apply" ELSE Migrated(p))
    /\ UNCHANGED <<lockVars, store, moved>>

\* The version under the write lock, the pending migrations, COMMIT.
Apply(p) ==
    /\ At(p, "apply") /\ lpc[p] = "done"
    /\ wal' = IF Top.schema = 0 THEN [Top EXCEPT !.schema = @ + 1] ELSE wal
    /\ To(p, Migrated(p))
    /\ UNCHANGED <<lockVars, db, rollback, tmp, marker, backups, made, moved, applied>>

----------------------------------------------------------------------------
(* The host at work *)

Commit(p) ==
    /\ At(p, "ready") /\ lpc[p] = "done" /\ p \notin Top.rows
    /\ wal' = [Top EXCEPT !.rows = @ \cup {p}]
    /\ UNCHANGED <<lockVars, db, rollback, tmp, marker, backups, made, step, moved, applied>>

ManualBackup(p) ==
    /\ At(p, "ready") /\ lpc[p] = "done" /\ p \in Apps
    /\ MakeBackup
    /\ UNCHANGED <<lockVars, files, marker, step, moved, applied>>

StageRestore(p, b) ==
    /\ At(p, "ready") /\ lpc[p] = "done" /\ p \in Apps
    /\ Orderly => \A q \in Procs \ {p} : ~Active(q) /\ ~Connected(q)
    /\ backups[b] # Absent
    /\ marker' = b /\ applied' = FALSE
    /\ UNCHANGED <<lockVars, files, backups, made, step, moved>>

\* SQLite moves the frames of the WAL into the file.
Checkpoints == db' = Top /\ wal' = Absent

Checkpoint(p) ==
    /\ At(p, "ready") /\ lpc[p] = "done"
    /\ wal # Absent
    /\ Checkpoints
    /\ UNCHANGED <<lockVars, rollback, tmp, marker, backups, made, step, moved, applied>>

\* The last connection checkpoints.
Disconnects(p) == IF OthersConnected(p) THEN UNCHANGED <<db, wal>> ELSE Checkpoints

\* The MCP host ends its bootstrap and opens the file anew.
EndBootstrap(p) ==
    /\ At(p, "migrated") /\ lpc[p] = "done"
    /\ Disconnects(p)
    /\ To(p, "again")
    /\ UNCHANGED <<lockVars, rollback, tmp, marker, backups, made, moved, applied>>

Close(p) ==
    /\ At(p, "ready") /\ lpc[p] = "done"
    /\ Disconnects(p)
    /\ To(p, "closed")
    /\ UNCHANGED <<lockVars, rollback, tmp, marker, backups, made, moved, applied>>

Dies(p) ==
    /\ step[p] # "closed"
    /\ Crash(p)
    /\ applied' = (applied \/ (At(p, "dropWal") /\ wal = Absent))
    /\ To(p, "closed") /\ moved' = moved \ {p}
    /\ UNCHANGED <<files, marker, backups, made>>

----------------------------------------------------------------------------
Restores(p) ==
    \/ LookForRestore(p) \/ Copy(p) \/ DropRollback(p) \/ Move(p) \/ DropWal(p)
    \/ Install(p) \/ DropMoved(p) \/ Unmark(p)
StartSteps(p) ==
    \/ Locks(p) \/ Leaves(p) \/ Restores(p) \/ Open(p)
    \/ CheckPending(p) \/ PreMigrationBackup(p) \/ PreLock(p) \/ Apply(p) \/ EndBootstrap(p)
Works(p) == Commit(p) \/ ManualBackup(p) \/ Checkpoint(p) \/ Close(p) \/ \E b \in BackupIds : StageRestore(p, b)

Ages == Age /\ UNCHANGED <<store, step, moved>>

Next ==
    \/ \E p \in Procs : Start(p) \/ StartSteps(p) \/ LockFails(p) \/ Undo(p) \/ Works(p) \/ Dies(p)
    \/ Ages

\* A start is a synchronous task and a few promises of the same process: it
\* goes on by itself.  Time passes while waiters sleep, so a directory that
\* stays gets old (strongly fair: a waiter that looks interrupts nothing).
\* Nobody has to start, work, stop or time out.
Spec == Init /\ [][Next]_vars /\ SF_vars(Ages) /\ \A p \in Procs : WF_vars(StartSteps(p))

----------------------------------------------------------------------------
TypeOK ==
    /\ LockTypeOK
    /\ {db, wal, rollback, tmp} \subseteq Images \cup {Absent}
    /\ marker \in BackupIds \cup {Absent}
    /\ backups \in [BackupIds -> Images \cup {Absent}] /\ made \in 0..NumBackups
    /\ step \in [Procs -> {"off", "copy", "dropRollback", "move", "dropWal", "install", "dropMoved",
                            "unmark", "threw", "open", "opened", "backup", "prelock", "apply",
                            "migrated", "again", "ready", "closed"}]
    /\ moved \subseteq Apps /\ applied \in BOOLEAN

Replacing(p) == lpc[p] = "held" /\ step[p] \in {"move", "dropWal", "install", "dropMoved", "unmark"}

\* A host that replaces the file is alone with it: nobody else is connected,
\* opens the file or restores ("Active connections are never closed or
\* replaced").
RestoresAlone ==
    /\ TypeOK
    /\ \A p, q \in Procs : p # q /\ Replacing(p) => ~Connected(q) /\ lpc[q] # "held"

\* What the next host will read: between the removal of the WAL and the
\* installation it is the backup, since no host can go back any more.
Content ==
    IF db # Absent \/ wal # Absent THEN Top
    ELSE IF \E p \in moved : Task(p, "dropWal") THEN rollback
    ELSE IF marker # Absent THEN backups[marker] ELSE Absent

Durable == INSTANCE DurableDatabase WITH
    Hosts <- Procs, Backups <- BackupIds, content <- Content, saved <- backups,
    staged <- IF applied THEN Absent ELSE marker

\* Whatever order the hosts start, restore, migrate and die in, the files are
\* a database whose commits last until a restore takes effect, once.
ImplementsDurable == Durable!Spec

\* Who begins to start gets ready, or fails for the lock or the restore:
\* again and again nobody is on the way (a host starts once or twice).
Settled(p) ==
    \/ lpc[p] \in {"idle", "failed", "dead"}
    \/ lpc[p] = "done" /\ step[p] \in {"ready", "threw", "again", "closed"}

StartsSettle == []<>(\A p \in Procs : Settled(p))
=============================================================================
