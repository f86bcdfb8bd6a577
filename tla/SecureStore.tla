---------------------------- MODULE SecureStore ----------------------------
(***************************************************************************)
(* The secure store (packages/secure-store): credentials are rows of a     *)
(* SQLite table, encrypted under a master key that the keyring of the      *)
(* operating system keeps.  The desktop application and the MCP server     *)
(* open the same table.  A call reads and decrypts outside a transaction,  *)
(* then writes in an IMMEDIATE one that checks again what it relies on;    *)
(* other processes run between the two.                                    *)
(*                                                                         *)
(* gcm1 rows are under the one legacy key, 0.  A gcm2 row names its key;   *)
(* keys are numbered by the generation they were made for.  b64 rows are   *)
(* not encrypted.  That a row is as it was read is known by `fresh`: every *)
(* encryption has an IV of its own, so a row that was written differs.     *)
(***************************************************************************)
EXTENDS Naturals

CONSTANTS
    Procs,
    Creds,
    Vals,
    Absent,        \* no row
    AnyValue,           \* setSecret, not compare-and-swap
    Critical,      \* the credentials of tier T0
    Protocol,      \* process -> its writer protocol
    MaxGen,        \* bound: generations of keys
    MaxCalls       \* bound: calls

ASSUME ConstantsAssumption ==
    /\ Absent \notin Vals /\ AnyValue \notin Vals \cup {Absent}
    /\ Critical \subseteq Creds
    /\ Protocol \in [Procs -> {1, 2}]
    /\ MaxGen \in Nat \ {0} /\ MaxCalls \in Nat

VARIABLES
    row,           \* the table credentials
    gen,           \* active_generation, 0: the table secure_store_state is empty
    minimum,       \* minimum_writer_protocol
    keys,          \* the table secure_store_key
    ring,          \* the keys the keyring holds
    keyring,       \* whether it answers
    lease,         \* processes with a live row in secure_store_writer_lease
    proc,          \* proc[p]: the call process p is in
    calls,
    late           \* history: a process lost its lease inside a call

vars == <<row, gen, minimum, keys, ring, keyring, lease, proc, calls, late>>
custody == <<gen, minimum, keys, ring>>
outside == <<keyring, calls, late>>

Schemes == {"none", "b64", "gcm1", "gcm2"}
Rows == [scheme : Schemes, key : 0..MaxGen, val : Vals \cup {Absent}]
Healths == {"usable", "missing", "lost", "locked", "unavailable"}
NoRow == [scheme |-> "none", key |-> 0, val |-> Absent]
NoCall ==
    [op |-> "none", at |-> "idle", cs |-> {}, v |-> Absent, old |-> AnyValue,
     g |-> 0, mode |-> "none", fresh |-> {}, plain |-> [c \in Creds |-> Absent],
     health |-> "usable"]

ProcCalls ==
    [op : {"none", "get", "set", "delete", "archive", "reset", "upgrade", "migrate", "rotate"},
     at : {"idle", "check", "commit"}, cs : SUBSET Creds, v : Vals \cup {Absent},
     old : Vals \cup {Absent, AnyValue}, g : 0..MaxGen, mode : Schemes,
     fresh : SUBSET Creds, plain : [Creds -> Vals \cup {Absent}], health : Healths]

TypeOK ==
    /\ row \in [Creds -> Rows]
    /\ gen \in 0..MaxGen /\ minimum \in 0..2
    /\ keys \subseteq 0..MaxGen /\ ring \subseteq 0..MaxGen
    /\ keyring \in {"answers", "locked", "unavailable"}
    /\ lease \subseteq Procs
    /\ proc \in [Procs -> ProcCalls]
    /\ calls \in 0..MaxCalls /\ late \in BOOLEAN

\* A fresh installation, or one of the versions before gcm2.
Init ==
    /\ \E old \in [Creds -> Vals \cup {Absent}] :
          row = [c \in Creds |-> IF old[c] = Absent THEN NoRow
                                 ELSE [scheme |-> "gcm1", key |-> 0, val |-> old[c]]]
    /\ gen = 0 /\ minimum = 0 /\ keys = {} /\ ring = {0} /\ keyring = "answers"
    /\ lease = {} /\ proc = [p \in Procs |-> NoCall]
    /\ calls = 0 /\ late = FALSE

-----------------------------------------------------------------------------
(* What a process reads *)

Of(scheme) == {c \in Creds : row[c].scheme = scheme}
InRing(k) == keyring = "answers" /\ k \in ring

\* credentialHealth; the key of a gcm2 row must be registered too
Health(c) ==
    CASE row[c] = NoRow -> "missing"
      [] row[c].scheme = "b64" -> "usable"
      [] row[c].scheme = "gcm2" /\ row[c].key \notin keys -> "lost"
      [] keyring # "answers" -> keyring
      [] row[c].key \notin ring -> "lost"
      [] OTHER -> "usable"

Usable(c) == Health(c) = "usable"
Unreadable(c) == Health(c) \notin {"usable", "missing"}

(* Parts of the calls *)

Begins(p, new) ==
    /\ proc[p] = NoCall /\ calls < MaxCalls
    /\ calls' = calls + 1
    /\ proc' = [proc EXCEPT ![p] = new]
Returns(p) == proc' = [proc EXCEPT ![p] = NoCall]
Goes(p, new) == proc' = [proc EXCEPT ![p] = new]
\* Process p returns after it wrote the rows of S: nobody has them fresh.
ReturnsWriting(p, S) ==
    proc' = [q \in Procs |-> IF q = p THEN NoCall ELSE [proc[q] EXCEPT !.fresh = @ \ S]]

Fails(p) == Returns(p) /\ UNCHANGED <<row, custody, lease>>

\* registerWriter, and with it assertGenerationForWrite
MayWrite(p) == Protocol[p] >= minimum
GenerationHolds_Any(p) == MayWrite(p)
GenerationHolds(p) == gen = proc[p].g /\ MayWrite(p)

\* assertRowUnchanged: the rows of the call are as they were read, or none again.
RowsHold_Unchecked(p) == TRUE
RowsHold(p) ==
    \A c \in proc[p].cs :
        c \in proc[p].fresh \/ (row[c] = NoRow /\ proc[p].health = "missing")

\* A key of a new generation, in keyring and table.
NewKey(k) == ring' = ring \cup {k} /\ keys' = keys \cup {k}

\* activeKeyForWrite, its three ways to a key
LegacyKey(p) ==
    /\ gen = 0 /\ Of("gcm1") # {} /\ InRing(0)
    /\ Goes(p, [proc[p] EXCEPT !.at = "commit", !.mode = "gcm1"])
    /\ UNCHANGED custody
FirstKey(p) ==
    /\ gen = 0 /\ Of("gcm1") = {} /\ keyring = "answers"
    /\ gen' = 1 /\ minimum' = Protocol[p] /\ NewKey(1)
    /\ Goes(p, [proc[p] EXCEPT !.at = "commit", !.mode = "gcm2", !.g = 1])
ActiveKey(p) ==
    /\ gen # 0 /\ MayWrite(p) /\ InRing(gen)
    /\ Goes(p, [proc[p] EXCEPT !.at = "commit", !.mode = "gcm2", !.g = gen])
    /\ UNCHANGED custody

KeyForWrite(p) ==
    /\ LegacyKey(p) \/ FirstKey(p) \/ ActiveKey(p)
    /\ lease' = lease \cup {p}
    /\ UNCHANGED row

\* It fails for want of a keyring, not because the store needs repair.
KeyUnavailable(p) == keyring = "unavailable" /\ (gen # 0 => MayWrite(p))

Encoded(mode, g, v) == [scheme |-> mode, key |-> IF mode = "gcm2" THEN g ELSE 0, val |-> v]

-----------------------------------------------------------------------------
(* getSecret: the row is read, then the key that its envelope names *)

GetBegin(p) ==
    /\ \E c \in Creds :
          Begins(p, [NoCall EXCEPT !.op = "get", !.at = "commit", !.cs = {c},
                                   !.mode = row[c].scheme, !.g = row[c].key])
    /\ UNCHANGED <<row, custody, keyring, lease, late>>

GetEnd(p) ==
    /\ proc[p].op = "get"
    /\ Fails(p)
    /\ UNCHANGED outside

(* setSecret, compareAndSwapSecret *)

SetBegin(p) ==
    /\ \E c \in Creds, v \in Vals, old \in Vals \cup {Absent, AnyValue} :
          Begins(p, [NoCall EXCEPT !.op = "set", !.at = "check", !.cs = {c}, !.v = v,
                                   !.old = old, !.fresh = {c},
                                   !.health = IF row[c] = NoRow THEN "missing" ELSE "usable"])
    /\ UNCHANGED <<row, custody, keyring, lease, late>>

Compares(p, c) ==
    CASE proc[p].old = AnyValue -> TRUE
      [] proc[p].old = Absent -> row[c] = NoRow
      [] OTHER -> Usable(c) /\ row[c].val = proc[p].old

\* Compare, health of the old row, key.
SetKey(p) ==
    /\ proc[p].op = "set" /\ proc[p].at = "check"
    /\ \A c \in proc[p].cs : Compares(p, c) /\ ~Unreadable(c)
    /\ KeyForWrite(p)
    /\ UNCHANGED outside

SetInsecure(p) ==
    /\ proc[p].op = "set" /\ proc[p].at = "check"
    /\ \A c \in proc[p].cs : Compares(p, c) /\ ~Unreadable(c) /\ c \notin Critical
    /\ KeyUnavailable(p)
    /\ Goes(p, [proc[p] EXCEPT !.at = "commit", !.mode = "b64"])
    /\ UNCHANGED <<row, custody, lease, outside>>

\* The generation must be the one of the key; in a legacy store the legacy key
\* must open every gcm1 row there is.
SetCommit(p) ==
    /\ proc[p].op = "set" /\ proc[p].at = "commit"
    /\ proc[p].mode = "gcm2" => GenerationHolds(p)
    /\ proc[p].mode = "gcm1" => InRing(0)
    /\ RowsHold(p)
    /\ row' = [c \in Creds |-> IF c \in proc[p].cs
                               THEN Encoded(proc[p].mode, proc[p].g, proc[p].v) ELSE row[c]]
    /\ ReturnsWriting(p, proc[p].cs)
    /\ lease' = IF proc[p].mode = "gcm2" THEN lease \cup {p} ELSE lease
    /\ UNCHANGED <<custody, outside>>

-----------------------------------------------------------------------------
(* deleteSecret, archiveAndDeleteUnreadable, resetUnreadableCredentials *)

DeleteBegin(p) ==
    /\ \E c \in Creds :
          /\ Usable(c)
          /\ Begins(p, [NoCall EXCEPT !.op = "delete", !.at = "commit", !.cs = {c}, !.fresh = {c}])
    /\ UNCHANGED <<row, custody, keyring, lease, late>>

\* The caller has seen the credential unreadable.
ArchiveBegin(p) ==
    /\ \E c \in Creds :
          /\ Unreadable(c)
          /\ Begins(p, [NoCall EXCEPT !.op = "archive", !.at = "commit", !.cs = {c},
                                      !.health = Health(c)])
    /\ UNCHANGED <<row, custody, keyring, lease, late>>

ResetBegin(p) ==
    LET targets == {c \in Creds : Unreadable(c)} IN
    /\ targets # {} /\ gen = 0
    /\ Begins(p, [NoCall EXCEPT !.op = "reset", !.at = "commit", !.cs = targets])
    /\ UNCHANGED <<row, custody, keyring, lease, late>>

Removes(p) ==
    /\ row' = [c \in Creds |-> IF c \in proc[p].cs THEN NoRow ELSE row[c]]
    /\ ReturnsWriting(p, proc[p].cs)
    /\ UNCHANGED <<custody, lease, outside>>

DeleteCommit(p) ==
    /\ proc[p].op = "delete" /\ RowsHold(p)
    /\ Removes(p)

ArchiveCommit(p) ==
    /\ proc[p].op = "archive" /\ \A c \in proc[p].cs : Health(c) = proc[p].health
    /\ Removes(p)

\* Neither the state of the store nor the health of the rows is looked at again.
ResetCommit(p) ==
    /\ proc[p].op = "reset"
    /\ Removes(p)

-----------------------------------------------------------------------------
(* upgradeInsecureRows *)

UpgradeBegin(p) ==
    /\ Begins(p, [NoCall EXCEPT !.op = "upgrade", !.at = "check"])
    /\ UNCHANGED <<row, custody, keyring, lease, late>>

UpgradeKey(p) ==
    /\ proc[p].op = "upgrade" /\ proc[p].at = "check"
    /\ KeyForWrite(p)
    /\ UNCHANGED outside

UpgradeCommit(p) ==
    /\ proc[p].op = "upgrade" /\ proc[p].mode = "gcm2" /\ GenerationHolds(p)
    /\ row' = [c \in Creds |-> IF c \in Of("b64")
                               THEN Encoded("gcm2", proc[p].g, row[c].val) ELSE row[c]]
    /\ ReturnsWriting(p, Of("b64"))
    /\ lease' = lease \cup {p}
    /\ UNCHANGED <<custody, outside>>

-----------------------------------------------------------------------------
(* migrateLegacyToGcm2, rotateMasterKey *)

\* The rows of a scheme, decrypted.
Cohort(op, scheme) ==
    [NoCall EXCEPT !.op = op, !.at = "commit", !.g = gen, !.cs = Of(scheme), !.fresh = Of(scheme),
                   !.plain = [c \in Creds |-> IF c \in Of(scheme) THEN row[c].val ELSE Absent]]
CohortHolds(p, scheme) == proc[p].cs = Of(scheme) /\ RowsHold(p)

\* The rows of the cohort under the key of generation g.
Reencrypts(p, g) ==
    /\ row' = [c \in Creds |-> IF c \in proc[p].cs
                               THEN Encoded("gcm2", g, proc[p].plain[c]) ELSE row[c]]
    /\ ReturnsWriting(p, proc[p].cs)

MigrateBegin(p) ==
    /\ InRing(0)
    /\ Begins(p, Cohort("migrate", "gcm1"))
    /\ UNCHANGED <<row, custody, keyring, lease, late>>

\* No process of an older protocol holds a lease.
NoOlderWriter_Ignored(p) == TRUE
NoOlderWriter(p) == \A q \in lease \ {p} : Protocol[q] >= 2

MigrateCommit(p) ==
    /\ proc[p].op = "migrate" /\ gen = 0 /\ keyring = "answers"
    /\ Protocol[p] >= 2 /\ NoOlderWriter(p)
    /\ CohortHolds(p, "gcm1")
    /\ gen' = 1 /\ minimum' = 2 /\ ring' = ring \cup {1} /\ keys' = keys \cup {0, 1}
    /\ Reencrypts(p, 1)
    /\ UNCHANGED <<lease, outside>>

RotateBegin(p) ==
    /\ gen # 0 /\ gen < MaxGen
    /\ \A c \in Of("gcm2") : Usable(c)
    /\ Begins(p, Cohort("rotate", "gcm2"))
    /\ UNCHANGED <<row, custody, keyring, lease, late>>

RotateCommit(p) ==
    /\ proc[p].op = "rotate" /\ GenerationHolds(p) /\ keyring = "answers"
    /\ CohortHolds(p, "gcm2")
    /\ gen' = gen + 1 /\ NewKey(gen + 1)
    /\ Reencrypts(p, gen + 1)
    /\ lease' = lease \cup {p}
    /\ UNCHANGED <<minimum, outside>>

-----------------------------------------------------------------------------
\* A call finds something changed, is refused a key, or its process dies.
Refused(p) ==
    /\ proc[p].op \notin {"none", "get"}
    /\ Fails(p)
    /\ UNCHANGED outside

\* The lease of a process that has not written for its term runs out.
LeaseExpires(p) ==
    /\ p \in lease
    /\ lease' = lease \ {p}
    /\ late' = (late \/ (proc[p].mode = "gcm1" /\ proc[p].op = "set"))
    /\ UNCHANGED <<row, custody, keyring, proc, calls>>

KeyringChanges ==
    /\ keyring' \in {"answers", "locked", "unavailable"} \ {keyring}
    /\ UNCHANGED <<row, custody, lease, proc, calls, late>>

\* A rebuilt keyring, another machine.
KeysLost ==
    /\ ring # {} /\ ring' = {}
    /\ UNCHANGED <<row, gen, minimum, keys, keyring, lease, proc, calls, late>>

Next ==
    \/ \E p \in Procs :
          \/ GetBegin(p) \/ GetEnd(p)
          \/ SetBegin(p) \/ SetKey(p) \/ SetInsecure(p) \/ SetCommit(p)
          \/ DeleteBegin(p) \/ DeleteCommit(p)
          \/ ArchiveBegin(p) \/ ArchiveCommit(p) \/ ResetBegin(p) \/ ResetCommit(p)
          \/ UpgradeBegin(p) \/ UpgradeKey(p) \/ UpgradeCommit(p)
          \/ MigrateBegin(p) \/ MigrateCommit(p) \/ RotateBegin(p) \/ RotateCommit(p)
          \/ Refused(p) \/ LeaseExpires(p)
    \/ KeyringChanges \/ KeysLost

Spec == Init /\ [][Next]_vars

-----------------------------------------------------------------------------
(* Properties *)

\* Every gcm2 row is under the active key: a rotation leaves none behind, and a
\* write that began before it cannot add one under the old key afterwards.
UnderActiveKey == \A c \in Of("gcm2") : gen # 0 /\ row[c].key = gen

\* The key of a gcm2 row stays registered, also for a process that has read the
\* envelope and looks for its key only after a rotation.
KeysRegistered ==
    /\ \A c \in Of("gcm2") : row[c].key \in keys
    /\ \A p \in Procs : proc[p].op = "get" /\ proc[p].mode = "gcm2" => proc[p].g \in keys

\* What the store relies on to read what it wrote: types, the active key, the keys
\* that are registered.
KeysUsable == TypeOK /\ UnderActiveKey /\ KeysRegistered

\* A store that was migrated has no legacy row, which neither migration nor
\* rotation would ever see again: the lease of a writer of the older protocol
\* keeps the migration out.  Excepted are those that outlive it inside a call.
NoLegacyLeft == 0 \in keys /\ ~late => Of("gcm1") = {}

\* What a caller sees of the store: values, and the calls that change them.
Values == [c \in Creds |-> row[c].val]
CallsSeen ==
    [p \in Procs |->
        CASE proc[p].op = "set" ->
                [op |-> "set", cs |-> proc[p].cs, v |-> proc[p].v, old |-> proc[p].old]
          [] proc[p].op \in {"delete", "archive", "reset"} ->
                [op |-> "delete", cs |-> proc[p].cs]
          [] OTHER -> [op |-> "none"]]

\* The store is a map of credentials on which every call takes effect at once,
\* but that a compare-and-swap may also create the value another call removed.
Map == INSTANCE CredentialMap WITH val <- Values, call <- CallsSeen
ImplementsMap == Map!Spec
=============================================================================
