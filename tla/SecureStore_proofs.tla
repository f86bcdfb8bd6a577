------------------------- MODULE SecureStore_proofs -------------------------
(***************************************************************************)
(* Theorems about the secure store, for any number of processes,           *)
(* credentials, values and key generations.                                *)
(***************************************************************************)
EXTENDS SecureStore, TLAPS

(* Types *)

LEMMA NoCallTyped == NoCall \in ProcCalls
  BY ConstantsAssumption DEF NoCall, ProcCalls, Schemes, Healths

LEMMA NoRowTyped == NoRow \in Rows
  BY ConstantsAssumption DEF NoRow, Rows, Schemes

\* The outcome of a step of process p on the table of calls.
LEMMA ReturnsTyped ==
  ASSUME TypeOK, NEW p \in Procs, Returns(p)
  PROVE  proc' \in [Procs -> ProcCalls]
  BY NoCallTyped DEF TypeOK, Returns

LEMMA ReturnsWritingTyped ==
  ASSUME TypeOK, NEW p \in Procs, NEW S, ReturnsWriting(p, S)
  PROVE  proc' \in [Procs -> ProcCalls]
<1>1. ASSUME NEW q \in Procs
      PROVE  [proc[q] EXCEPT !.fresh = @ \ S] \in ProcCalls
  <2>1. proc[q] \in ProcCalls
    BY DEF TypeOK
  <2>2. QED
    BY <2>1 DEF ProcCalls
<1>2. QED
  BY <1>1, NoCallTyped DEF ReturnsWriting

LEMMA BeginsTyped ==
  ASSUME TypeOK, NEW p \in Procs, NEW new \in ProcCalls, Begins(p, new)
  PROVE  proc' \in [Procs -> ProcCalls] /\ calls' \in 0..MaxCalls
<1>1. proc' \in [Procs -> ProcCalls]
  BY DEF TypeOK, Begins
<1>2. calls' \in 0..MaxCalls
  BY ConstantsAssumption DEF TypeOK, Begins
<1>3. QED
  BY <1>1, <1>2

\* The key a write is given.
LEMMA KeyForWriteTyped ==
  ASSUME TypeOK, NEW p \in Procs, KeyForWrite(p)
  PROVE  /\ row' = row /\ lease' \subseteq Procs
         /\ gen' \in 0..MaxGen /\ minimum' \in 0..2
         /\ keys' \subseteq 0..MaxGen /\ ring' \subseteq 0..MaxGen
         /\ proc' \in [Procs -> ProcCalls]
<1>0. proc[p] \in ProcCalls
  BY DEF TypeOK
<1>1. row' = row /\ lease' \subseteq Procs
  BY DEF TypeOK, KeyForWrite
<1>2. CASE LegacyKey(p)
  <2>1. [proc[p] EXCEPT !.at = "commit", !.mode = "gcm1"] \in ProcCalls
    BY <1>0 DEF ProcCalls, Schemes
  <2>2. proc' \in [Procs -> ProcCalls]
    BY <2>1, <1>2 DEF TypeOK, LegacyKey, Goes
  <2>3. QED
    BY <1>1, <2>2, <1>2 DEF TypeOK, LegacyKey, custody
<1>3. CASE FirstKey(p)
  <2>0. 1 \in 0..MaxGen
    BY ConstantsAssumption
  <2>1. [proc[p] EXCEPT !.at = "commit", !.mode = "gcm2", !.g = 1] \in ProcCalls
    BY <1>0, <2>0 DEF ProcCalls, Schemes
  <2>2. proc' \in [Procs -> ProcCalls]
    BY <2>1, <1>3 DEF TypeOK, FirstKey, Goes
  <2>3. minimum' \in 0..2
    BY <1>3, ConstantsAssumption DEF FirstKey
  <2>4. QED
    BY <1>1, <2>0, <2>2, <2>3, <1>3 DEF TypeOK, FirstKey, NewKey
<1>4. CASE ActiveKey(p)
  <2>1. [proc[p] EXCEPT !.at = "commit", !.mode = "gcm2", !.g = gen] \in ProcCalls
    BY <1>0 DEF ProcCalls, Schemes, TypeOK
  <2>2. proc' \in [Procs -> ProcCalls]
    BY <2>1, <1>4 DEF TypeOK, ActiveKey, Goes
  <2>3. QED
    BY <1>1, <2>2, <1>4 DEF TypeOK, ActiveKey, custody
<1>5. QED
  BY <1>2, <1>3, <1>4 DEF KeyForWrite

LEMMA FailsTyped ==
  ASSUME TypeOK, NEW p \in Procs, Fails(p), UNCHANGED outside
  PROVE  TypeOK'
<1>1. proc' \in [Procs -> ProcCalls]
  BY ReturnsTyped DEF Fails
<1>2. QED
  BY <1>1 DEF TypeOK, Fails, custody, outside

LEMMA EncodedTyped ==
  ASSUME NEW mode \in Schemes, NEW g \in 0..MaxGen, NEW v \in Vals \cup {Absent}
  PROVE  Encoded(mode, g, v) \in Rows
  BY ConstantsAssumption DEF Encoded, Rows

LEMMA CohortTyped ==
  ASSUME TypeOK, NEW op \in {"migrate", "rotate"}, NEW scheme \in Schemes
  PROVE  Cohort(op, scheme) \in ProcCalls
<1>1. Of(scheme) \subseteq Creds
  BY DEF Of
<1>2. [c \in Creds |-> IF c \in Of(scheme) THEN row[c].val ELSE Absent]
        \in [Creds -> Vals \cup {Absent}]
  BY DEF TypeOK, Rows
<1>3. gen \in 0..MaxGen
  BY DEF TypeOK
<1>4. QED
  BY <1>1, <1>2, <1>3, NoCallTyped DEF Cohort, ProcCalls

\* A step that leaves everything but the calls as it is.
LEMMA BeginTyped ==
  ASSUME TypeOK, NEW p \in Procs, NEW new \in ProcCalls, Begins(p, new),
         UNCHANGED <<row, custody, keyring, lease, late>>
  PROVE  TypeOK'
<1>1. proc' \in [Procs -> ProcCalls] /\ calls' \in 0..MaxCalls
  BY BeginsTyped
<1>2. QED
  BY <1>1 DEF TypeOK, custody

LEMMA BeginningsTyped ==
  ASSUME TypeOK, NEW p \in Procs,
         \/ GetBegin(p) \/ SetBegin(p) \/ DeleteBegin(p) \/ ArchiveBegin(p) \/ ResetBegin(p)
         \/ UpgradeBegin(p) \/ MigrateBegin(p) \/ RotateBegin(p)
  PROVE  TypeOK'
<1>0. row \in [Creds -> Rows]
  BY DEF TypeOK
<1>1. CASE GetBegin(p)
  <2>1. PICK c \in Creds :
          Begins(p, [NoCall EXCEPT !.op = "get", !.at = "commit", !.cs = {c},
                                   !.mode = row[c].scheme, !.g = row[c].key])
    BY <1>1 DEF GetBegin
  <2>2. row[c].scheme \in Schemes /\ row[c].key \in 0..MaxGen
    BY <1>0 DEF Rows
  <2>3. [NoCall EXCEPT !.op = "get", !.at = "commit", !.cs = {c},
                       !.mode = row[c].scheme, !.g = row[c].key] \in ProcCalls
    BY <2>2, NoCallTyped DEF ProcCalls
  <2>4. QED
    BY <2>1, <2>3, <1>1, BeginTyped DEF GetBegin
<1>2. CASE SetBegin(p)
  <2>1. PICK c \in Creds, v \in Vals, old \in Vals \cup {Absent, AnyValue} :
          Begins(p, [NoCall EXCEPT !.op = "set", !.at = "check", !.cs = {c}, !.v = v,
                                   !.old = old, !.fresh = {c},
                                   !.health = IF row[c] = NoRow THEN "missing" ELSE "usable"])
    BY <1>2 DEF SetBegin
  <2>2. [NoCall EXCEPT !.op = "set", !.at = "check", !.cs = {c}, !.v = v,
                       !.old = old, !.fresh = {c},
                       !.health = IF row[c] = NoRow THEN "missing" ELSE "usable"] \in ProcCalls
    BY NoCallTyped DEF ProcCalls, Healths
  <2>3. QED
    BY <2>1, <2>2, <1>2, BeginTyped DEF SetBegin
<1>3. CASE DeleteBegin(p)
  <2>1. PICK c \in Creds :
          Begins(p, [NoCall EXCEPT !.op = "delete", !.at = "commit", !.cs = {c}, !.fresh = {c}])
    BY <1>3 DEF DeleteBegin
  <2>2. [NoCall EXCEPT !.op = "delete", !.at = "commit", !.cs = {c}, !.fresh = {c}] \in ProcCalls
    BY NoCallTyped DEF ProcCalls
  <2>3. QED
    BY <2>1, <2>2, <1>3, BeginTyped DEF DeleteBegin
<1>4. CASE ArchiveBegin(p)
  <2>1. PICK c \in Creds :
          Begins(p, [NoCall EXCEPT !.op = "archive", !.at = "commit", !.cs = {c},
                                   !.health = Health(c)])
    BY <1>4 DEF ArchiveBegin
  <2>2. Health(c) \in Healths
    BY DEF Health, Healths, TypeOK
  <2>3. [NoCall EXCEPT !.op = "archive", !.at = "commit", !.cs = {c},
                       !.health = Health(c)] \in ProcCalls
    BY <2>2, NoCallTyped DEF ProcCalls
  <2>4. QED
    BY <2>1, <2>3, <1>4, BeginTyped DEF ArchiveBegin
<1>5. CASE ResetBegin(p)
  <2>1. [NoCall EXCEPT !.op = "reset", !.at = "commit",
                       !.cs = {c \in Creds : Unreadable(c)}] \in ProcCalls
    BY NoCallTyped DEF ProcCalls
  <2>2. QED
    BY <2>1, <1>5, BeginTyped DEF ResetBegin
<1>6. CASE UpgradeBegin(p)
  <2>1. [NoCall EXCEPT !.op = "upgrade", !.at = "check"] \in ProcCalls
    BY NoCallTyped DEF ProcCalls
  <2>2. QED
    BY <2>1, <1>6, BeginTyped DEF UpgradeBegin
<1>7. CASE MigrateBegin(p)
  <2>1. Cohort("migrate", "gcm1") \in ProcCalls
    BY CohortTyped DEF Schemes
  <2>2. QED
    BY <2>1, <1>7, BeginTyped DEF MigrateBegin
<1>8. CASE RotateBegin(p)
  <2>1. Cohort("rotate", "gcm2") \in ProcCalls
    BY CohortTyped DEF Schemes
  <2>2. QED
    BY <2>1, <1>8, BeginTyped DEF RotateBegin
<1>9. QED
  BY <1>1, <1>2, <1>3, <1>4, <1>5, <1>6, <1>7, <1>8

-----------------------------------------------------------------------------
(* The inductive invariant *)

\* The generation a call relies on is one the store has had.
KeyHeld(x, G) ==
    /\ x.op \in {"get", "set", "upgrade"} /\ x.mode = "gcm2" => x.g \in 1..G
    /\ x.op = "rotate" => x.g \in 1..G /\ x.g < MaxGen
    /\ x.op \in {"migrate", "rotate"} => x.health = "usable"

\* What a call knows of the rows that nobody has written since it read them.
SnapshotHolds(x, r) ==
    \A c \in x.cs \cap x.fresh :
        /\ x.op \in {"migrate", "rotate"} => x.plain[c] = r[c].val
        /\ x.op = "set" /\ x.at = "commit" /\ x.old # AnyValue => r[c].val = x.old

Registered == \A k \in 1..gen : k \in keys
KeysHeld == \A p \in Procs : KeyHeld(proc[p], gen)
SnapshotsHold == \A p \in Procs : SnapshotHolds(proc[p], row)

Inv == TypeOK /\ UnderActiveKey /\ Registered /\ KeysHeld /\ SnapshotsHold

LEMMA NoCallHolds ==
  ASSUME NEW G, NEW r
  PROVE  KeyHeld(NoCall, G) /\ SnapshotHolds(NoCall, r)
  BY DEF NoCall, KeyHeld, SnapshotHolds

\* A later generation holds what an earlier one did.
LEMMA KeyHeldLater ==
  ASSUME NEW G \in Nat, NEW H \in Nat, G <= H, NEW x \in ProcCalls, KeyHeld(x, G)
  PROVE  KeyHeld(x, H)
  BY DEF KeyHeld, ProcCalls

LEMMA GenNat == TypeOK => gen \in Nat /\ MaxGen \in Nat
  BY ConstantsAssumption DEF TypeOK

\* A step that gives process p the call new, and leaves rows and keys alone.
LEMMA CallChanges ==
  ASSUME Inv, NEW p \in Procs, NEW new \in ProcCalls, proc' = [proc EXCEPT ![p] = new],
         KeyHeld(new, gen), SnapshotHolds(new, row), UNCHANGED <<row, custody>>
  PROVE  UnderActiveKey' /\ Registered' /\ KeysHeld' /\ SnapshotsHold'
<1>1. UnderActiveKey' /\ Registered'
  BY DEF Inv, UnderActiveKey, Registered, Of, custody
<1>2. ASSUME NEW q \in Procs
      PROVE  KeyHeld(proc'[q], gen') /\ SnapshotHolds(proc'[q], row')
  <2>1. CASE q = p
    BY <2>1 DEF Inv, TypeOK, custody
  <2>2. CASE q # p
    <3>1. proc'[q] = proc[q]
      BY <2>2 DEF Inv, TypeOK
    <3>2. gen' = gen /\ row' = row
      BY DEF custody
    <3>3. KeyHeld(proc[q], gen) /\ SnapshotHolds(proc[q], row)
      BY DEF Inv, KeysHeld, SnapshotsHold
    <3>4. QED
      BY <3>1, <3>2, <3>3
  <2>3. QED
    BY <2>1, <2>2
<1>3. QED
  BY <1>1, <1>2 DEF KeysHeld, SnapshotsHold

\* Process p returns after it wrote the rows of S, under the same generation or
\* a later one.
LEMMA RowsChange ==
  ASSUME Inv, NEW p \in Procs, NEW S, ReturnsWriting(p, S),
         \A c \in Creds \ S : row'[c] = row[c],
         gen' \in Nat, gen <= gen'
  PROVE  KeysHeld' /\ SnapshotsHold'
<1>1. ASSUME NEW q \in Procs
      PROVE  KeyHeld(proc'[q], gen') /\ SnapshotHolds(proc'[q], row')
  <2>1. CASE q = p
    BY <2>1, NoCallHolds DEF ReturnsWriting
  <2>2. CASE q # p
    <3>0. proc[q] \in ProcCalls
      BY DEF Inv, TypeOK
    <3>1. proc'[q] = [proc[q] EXCEPT !.fresh = @ \ S]
      BY <2>2 DEF ReturnsWriting
    <3>2. /\ proc'[q].op = proc[q].op /\ proc'[q].mode = proc[q].mode /\ proc'[q].g = proc[q].g
          /\ proc'[q].health = proc[q].health /\ proc'[q].cs = proc[q].cs
          /\ proc'[q].plain = proc[q].plain /\ proc'[q].at = proc[q].at
          /\ proc'[q].old = proc[q].old /\ proc'[q].fresh = proc[q].fresh \ S
      BY <3>0, <3>1 DEF ProcCalls
    <3>3. KeyHeld(proc[q], gen')
      BY <3>0, GenNat, KeyHeldLater DEF Inv, KeysHeld
    <3>4. KeyHeld(proc'[q], gen')
      BY <3>2, <3>3 DEF KeyHeld
    <3>5. SnapshotHolds(proc[q], row)
      BY DEF Inv, SnapshotsHold
    <3>6. ASSUME NEW c \in proc'[q].cs \cap proc'[q].fresh
          PROVE  c \in proc[q].cs \cap proc[q].fresh /\ row'[c] = row[c]
      <4>1. c \in Creds /\ c \notin S /\ c \in proc[q].cs \cap proc[q].fresh
        BY <3>0, <3>2, <3>6 DEF ProcCalls
      <4>2. QED
        BY <4>1
    <3>7. SnapshotHolds(proc'[q], row')
      BY <3>2, <3>5, <3>6 DEF SnapshotHolds
    <3>8. QED
      BY <3>4, <3>7
  <2>3. QED
    BY <2>1, <2>2
<1>2. QED
  BY <1>1 DEF KeysHeld, SnapshotsHold

-----------------------------------------------------------------------------
(* Its preservation, a group of actions at a time *)

LEMMA BeginningsHold ==
  ASSUME Inv, NEW p \in Procs,
         \/ GetBegin(p) \/ SetBegin(p) \/ DeleteBegin(p) \/ ArchiveBegin(p) \/ ResetBegin(p)
         \/ UpgradeBegin(p) \/ MigrateBegin(p) \/ RotateBegin(p)
  PROVE  Inv'
<1>0. TypeOK /\ row \in [Creds -> Rows] /\ gen \in Nat
  BY GenNat DEF Inv, TypeOK
<1>1. TypeOK'
  BY <1>0, BeginningsTyped
<1>2. PICK new : proc' = [proc EXCEPT ![p] = new] /\ KeyHeld(new, gen) /\ SnapshotHolds(new, row)
  <2>1. CASE GetBegin(p)
    <3>1. PICK c \in Creds :
            Begins(p, [NoCall EXCEPT !.op = "get", !.at = "commit", !.cs = {c},
                                     !.mode = row[c].scheme, !.g = row[c].key])
      BY <2>1 DEF GetBegin
    <3> DEFINE new == [NoCall EXCEPT !.op = "get", !.at = "commit", !.cs = {c},
                                     !.mode = row[c].scheme, !.g = row[c].key]
    <3>2. row[c].scheme = "gcm2" => row[c].key = gen /\ gen # 0
      BY DEF Inv, UnderActiveKey, Of
    <3>3. new.op = "get" /\ new.mode = row[c].scheme /\ new.g = row[c].key /\ new.fresh = {}
      BY DEF NoCall
    <3>4. KeyHeld(new, gen) /\ SnapshotHolds(new, row)
      BY <1>0, <3>2, <3>3 DEF KeyHeld, SnapshotHolds
    <3>5. proc' = [proc EXCEPT ![p] = new]
      BY <3>1 DEF Begins
    <3> HIDE DEF new
    <3>6. QED
      BY <3>4, <3>5
  <2>2. CASE SetBegin(p)
    <3>1. PICK c \in Creds, v \in Vals, old \in Vals \cup {Absent, AnyValue} :
            Begins(p, [NoCall EXCEPT !.op = "set", !.at = "check", !.cs = {c}, !.v = v,
                                     !.old = old, !.fresh = {c},
                                     !.health = IF row[c] = NoRow THEN "missing" ELSE "usable"])
      BY <2>2 DEF SetBegin
    <3> DEFINE new == [NoCall EXCEPT !.op = "set", !.at = "check", !.cs = {c}, !.v = v,
                                     !.old = old, !.fresh = {c},
                                     !.health = IF row[c] = NoRow THEN "missing" ELSE "usable"]
    <3>2. new.op = "set" /\ new.at = "check" /\ new.mode = "none"
      BY DEF NoCall
    <3>3. KeyHeld(new, gen) /\ SnapshotHolds(new, row)
      BY <3>2 DEF KeyHeld, SnapshotHolds
    <3>4. proc' = [proc EXCEPT ![p] = new]
      BY <3>1 DEF Begins
    <3> HIDE DEF new
    <3>5. QED
      BY <3>3, <3>4
  <2>3. CASE DeleteBegin(p)
    <3>1. PICK c \in Creds : Begins(p, [NoCall EXCEPT !.op = "delete", !.at = "commit",
                                             !.cs = {c}, !.fresh = {c}])
      BY <2>3 DEF DeleteBegin
    <3> DEFINE new == [NoCall EXCEPT !.op = "delete", !.at = "commit",
                                             !.cs = {c}, !.fresh = {c}]
    <3>2. new.op = "delete"
      BY DEF NoCall
    <3>3. KeyHeld(new, gen) /\ SnapshotHolds(new, row)
      BY <3>2 DEF KeyHeld, SnapshotHolds
    <3>4. proc' = [proc EXCEPT ![p] = new]
      BY <3>1 DEF Begins
    <3> HIDE DEF new
    <3>5. QED
      BY <3>3, <3>4
  <2>4. CASE ArchiveBegin(p)
    <3>1. PICK c \in Creds : Begins(p, [NoCall EXCEPT !.op = "archive", !.at = "commit",
                                             !.cs = {c}, !.health = Health(c)])
      BY <2>4 DEF ArchiveBegin
    <3> DEFINE new == [NoCall EXCEPT !.op = "archive", !.at = "commit",
                                             !.cs = {c}, !.health = Health(c)]
    <3>2. new.op = "archive"
      BY DEF NoCall
    <3>3. KeyHeld(new, gen) /\ SnapshotHolds(new, row)
      BY <3>2 DEF KeyHeld, SnapshotHolds
    <3>4. proc' = [proc EXCEPT ![p] = new]
      BY <3>1 DEF Begins
    <3> HIDE DEF new
    <3>5. QED
      BY <3>3, <3>4
  <2>5. CASE ResetBegin(p)
    <3>1. Begins(p, [NoCall EXCEPT !.op = "reset", !.at = "commit",
                                 !.cs = {c \in Creds : Unreadable(c)}])
      BY <2>5 DEF ResetBegin
    <3> DEFINE new == [NoCall EXCEPT !.op = "reset", !.at = "commit",
                                 !.cs = {c \in Creds : Unreadable(c)}]
    <3>2. new.op = "reset"
      BY DEF NoCall
    <3>3. KeyHeld(new, gen) /\ SnapshotHolds(new, row)
      BY <3>2 DEF KeyHeld, SnapshotHolds
    <3>4. proc' = [proc EXCEPT ![p] = new]
      BY <3>1 DEF Begins
    <3> HIDE DEF new
    <3>5. QED
      BY <3>3, <3>4
  <2>6. CASE UpgradeBegin(p)
    <3>1. Begins(p, [NoCall EXCEPT !.op = "upgrade", !.at = "check"])
      BY <2>6 DEF UpgradeBegin
    <3> DEFINE new == [NoCall EXCEPT !.op = "upgrade", !.at = "check"]
    <3>2. new.op = "upgrade" /\ new.mode = "none" /\ new.fresh = {}
      BY DEF NoCall
    <3>3. KeyHeld(new, gen) /\ SnapshotHolds(new, row)
      BY <3>2 DEF KeyHeld, SnapshotHolds
    <3>4. proc' = [proc EXCEPT ![p] = new]
      BY <3>1 DEF Begins
    <3> HIDE DEF new
    <3>5. QED
      BY <3>3, <3>4
  <2>7. CASE MigrateBegin(p)
    <3>1. proc' = [proc EXCEPT ![p] = Cohort("migrate", "gcm1")]
      BY <2>7 DEF MigrateBegin, Begins
    <3>2. KeyHeld(Cohort("migrate", "gcm1"), gen)
      BY DEF Cohort, NoCall, KeyHeld
    <3>3. SnapshotHolds(Cohort("migrate", "gcm1"), row)
      BY DEF Cohort, NoCall, SnapshotHolds, Of
    <3>4. QED
      BY <3>1, <3>2, <3>3
  <2>8. CASE RotateBegin(p)
    <3>1. proc' = [proc EXCEPT ![p] = Cohort("rotate", "gcm2")]
      BY <2>8 DEF RotateBegin, Begins
    <3>2. gen # 0 /\ gen < MaxGen
      BY <2>8 DEF RotateBegin
    <3>3. Cohort("rotate", "gcm2").op = "rotate" /\ Cohort("rotate", "gcm2").g = gen
          /\ Cohort("rotate", "gcm2").health = "usable"
      BY DEF Cohort, NoCall
    <3>4. KeyHeld(Cohort("rotate", "gcm2"), gen)
      BY <1>0, <3>2, <3>3 DEF KeyHeld
    <3>5. SnapshotHolds(Cohort("rotate", "gcm2"), row)
      BY DEF Cohort, NoCall, SnapshotHolds, Of
    <3>6. QED
      BY <3>1, <3>4, <3>5
  <2>9. QED
    BY <2>1, <2>2, <2>3, <2>4, <2>5, <2>6, <2>7, <2>8
<1>3. new \in ProcCalls
  BY <1>0, <1>1, <1>2 DEF TypeOK
<1>4. UNCHANGED <<row, custody>>
  BY DEF GetBegin, SetBegin, DeleteBegin, ArchiveBegin, ResetBegin, UpgradeBegin, MigrateBegin,
         RotateBegin
<1>5. QED
  BY <1>1, <1>2, <1>3, <1>4, CallChanges DEF Inv

\* A key for a write: rows stay, and a first key begins the first generation.
LEMMA KeyForWriteHolds ==
  ASSUME Inv, NEW p \in Procs, proc[p].op \in {"set", "upgrade"}, KeyForWrite(p),
         \A c \in proc[p].cs \cap proc[p].fresh :
             proc[p].op = "set" /\ proc[p].old # AnyValue => row[c].val = proc[p].old
  PROVE  UnderActiveKey' /\ Registered' /\ KeysHeld' /\ SnapshotsHold'
<1>0. TypeOK /\ proc[p] \in ProcCalls /\ gen \in Nat
  BY GenNat DEF Inv, TypeOK
<1>1. row' = row
  BY DEF KeyForWrite
<1>2. CASE LegacyKey(p)
  <2> DEFINE new == [proc[p] EXCEPT !.at = "commit", !.mode = "gcm1"]
  <2>1. new \in ProcCalls /\ new.op = proc[p].op /\ new.mode = "gcm1" /\ new.cs = proc[p].cs
        /\ new.fresh = proc[p].fresh /\ new.old = proc[p].old
    BY <1>0 DEF ProcCalls, Schemes
  <2>2. proc' = [proc EXCEPT ![p] = new] /\ UNCHANGED <<row, custody>>
    BY <1>1, <1>2 DEF LegacyKey, Goes
  <2> HIDE DEF new
  <2>3. KeyHeld(new, gen) /\ SnapshotHolds(new, row)
    BY <2>1 DEF KeyHeld, SnapshotHolds
  <2>4. QED
    BY <2>1, <2>2, <2>3, CallChanges
<1>3. CASE ActiveKey(p)
  <2> DEFINE new == [proc[p] EXCEPT !.at = "commit", !.mode = "gcm2", !.g = gen]
  <2>1. new \in ProcCalls /\ new.op = proc[p].op /\ new.g = gen /\ new.cs = proc[p].cs
        /\ new.fresh = proc[p].fresh /\ new.old = proc[p].old
    BY <1>0 DEF ProcCalls, Schemes, TypeOK
  <2>2. proc' = [proc EXCEPT ![p] = new] /\ UNCHANGED <<row, custody>> /\ gen # 0
    BY <1>1, <1>3 DEF ActiveKey, Goes
  <2> HIDE DEF new
  <2>3. KeyHeld(new, gen) /\ SnapshotHolds(new, row)
    BY <1>0, <2>1, <2>2 DEF KeyHeld, SnapshotHolds
  <2>4. QED
    BY <2>1, <2>2, <2>3, CallChanges
<1>4. CASE FirstKey(p)
  <2> DEFINE new == [proc[p] EXCEPT !.at = "commit", !.mode = "gcm2", !.g = 1]
  <2>1. new.op = proc[p].op /\ new.g = 1 /\ new.cs = proc[p].cs
        /\ new.fresh = proc[p].fresh /\ new.old = proc[p].old
    BY <1>0 DEF ProcCalls, Schemes
  <2>2. proc' = [proc EXCEPT ![p] = new] /\ gen = 0 /\ gen' = 1 /\ keys' = keys \cup {1}
    BY <1>4 DEF FirstKey, Goes, NewKey
  <2> HIDE DEF new
  <2>3. KeyHeld(new, 1) /\ SnapshotHolds(new, row)
    BY <2>1 DEF KeyHeld, SnapshotHolds
  <2>4. Of("gcm2")' = {}
    BY <1>1, <2>2 DEF Inv, UnderActiveKey, Of
  <2>5. UnderActiveKey' /\ Registered'
    BY <2>2, <2>4 DEF UnderActiveKey, Registered
  <2>6. ASSUME NEW q \in Procs
        PROVE  KeyHeld(proc'[q], gen') /\ SnapshotHolds(proc'[q], row')
    <3>1. CASE q = p
      BY <1>0, <1>1, <2>2, <2>3, <3>1 DEF TypeOK
    <3>2. CASE q # p
      <4>1. proc'[q] = proc[q] /\ proc[q] \in ProcCalls
        BY <1>0, <2>2, <3>2 DEF TypeOK
      <4>2. KeyHeld(proc[q], 0) /\ SnapshotHolds(proc[q], row)
        BY <2>2 DEF Inv, KeysHeld, SnapshotsHold
      <4>3. KeyHeld(proc[q], 1)
        BY <4>1, <4>2, KeyHeldLater
      <4>4. QED
        BY <1>1, <2>2, <4>1, <4>2, <4>3
    <3>3. QED
      BY <3>1, <3>2
  <2>7. QED
    BY <2>5, <2>6 DEF KeysHeld, SnapshotsHold
<1>5. QED
  BY <1>2, <1>3, <1>4 DEF KeyForWrite

\* The comparison of a compare-and-swap leaves its expected value in the row.
LEMMA ComparedHolds ==
  ASSUME Inv, NEW p \in Procs, \A c \in proc[p].cs : Compares(p, c)
  PROVE  \A c \in proc[p].cs \cap proc[p].fresh :
             proc[p].op = "set" /\ proc[p].old # AnyValue => row[c].val = proc[p].old
  BY DEF Compares, NoRow

LEMMA KeysHold ==
  ASSUME Inv, NEW p \in Procs, SetKey(p) \/ UpgradeKey(p)
  PROVE  Inv'
<1>1. KeyForWrite(p) /\ UNCHANGED outside
  BY DEF SetKey, UpgradeKey
<1>2. TypeOK'
  BY <1>1, KeyForWriteTyped DEF Inv, TypeOK, outside
<1>3. UnderActiveKey' /\ Registered' /\ KeysHeld' /\ SnapshotsHold'
  <2>1. CASE SetKey(p)
    BY <2>1, <1>1, ComparedHolds, KeyForWriteHolds DEF SetKey
  <2>2. CASE UpgradeKey(p)
    BY <2>2, <1>1, KeyForWriteHolds DEF UpgradeKey
  <2>3. QED
    BY <2>1, <2>2
<1>4. QED
  BY <1>2, <1>3 DEF Inv

LEMMA InsecureHolds ==
  ASSUME Inv, NEW p \in Procs, SetInsecure(p)
  PROVE  Inv'
<1> DEFINE new == [proc[p] EXCEPT !.at = "commit", !.mode = "b64"]
<1>0. TypeOK /\ proc[p] \in ProcCalls
  BY DEF Inv, TypeOK
<1>1. new \in ProcCalls /\ new.op = "set" /\ new.mode = "b64" /\ new.cs = proc[p].cs
      /\ new.fresh = proc[p].fresh /\ new.old = proc[p].old
  BY <1>0 DEF ProcCalls, Schemes, SetInsecure
<1>2. proc' = [proc EXCEPT ![p] = new] /\ UNCHANGED <<row, custody, lease, outside>>
  BY DEF SetInsecure, Goes
<1> HIDE DEF new
<1>3. \A c \in proc[p].cs \cap proc[p].fresh :
          proc[p].op = "set" /\ proc[p].old # AnyValue => row[c].val = proc[p].old
  BY ComparedHolds DEF SetInsecure
<1>4. KeyHeld(new, gen)
  BY <1>1 DEF KeyHeld
<1>5. SnapshotHolds(new, row)
  BY <1>1, <1>3 DEF SnapshotHolds, SetInsecure
<1>6. TypeOK'
  BY <1>0, <1>1, <1>2 DEF TypeOK, custody, outside
<1>7. QED
  BY <1>1, <1>2, <1>4, <1>5, <1>6, CallChanges DEF Inv

LEMMA EndsHold ==
  ASSUME Inv, NEW p \in Procs, Refused(p) \/ GetEnd(p)
  PROVE  Inv'
<1>1. Fails(p) /\ UNCHANGED outside
  BY DEF Refused, GetEnd
<1>2. TypeOK'
  BY <1>1, FailsTyped DEF Inv
<1>3. proc' = [proc EXCEPT ![p] = NoCall] /\ UNCHANGED <<row, custody>>
  BY <1>1 DEF Fails, Returns
<1>4. QED
  BY <1>2, <1>3, NoCallTyped, NoCallHolds, CallChanges DEF Inv

LEMMA SurroundingsHold ==
  ASSUME Inv, (\E p \in Procs : LeaseExpires(p)) \/ KeyringChanges \/ KeysLost
  PROVE  Inv'
<1>1. TypeOK'
  BY DEF Inv, TypeOK, LeaseExpires, KeyringChanges, KeysLost, custody
<1>2. UNCHANGED <<row, gen, keys, proc>>
  BY DEF LeaseExpires, KeyringChanges, KeysLost, custody
<1>3. QED
  BY <1>1, <1>2 DEF Inv, UnderActiveKey, Registered, KeysHeld, SnapshotsHold, Of

\* A write that keeps the generation and writes gcm2 only under its key.
LEMMA WriteHolds ==
  ASSUME Inv, NEW p \in Procs, NEW S, ReturnsWriting(p, S),
         row' \in [Creds -> Rows],
         \A c \in Creds : row'[c] = row[c]
                          \/ (c \in S /\ (row'[c].scheme = "gcm2" => gen # 0 /\ row'[c].key = gen)),
         UNCHANGED <<custody, outside>>, lease' \subseteq Procs
  PROVE  Inv'
<1>0. TypeOK /\ gen \in Nat
  BY GenNat DEF Inv
<1>1. TypeOK'
  BY <1>0, ReturnsWritingTyped DEF TypeOK, custody, outside
<1>2. UnderActiveKey'
  <2>1. ASSUME NEW c \in Creds, row'[c].scheme = "gcm2"
        PROVE  gen # 0 /\ row'[c].key = gen
    BY <2>1 DEF Inv, UnderActiveKey, Of
  <2>2. QED
    BY <2>1 DEF UnderActiveKey, Of, custody
<1>3. Registered'
  BY DEF Inv, Registered, custody
<1>4. KeysHeld' /\ SnapshotsHold'
  BY <1>0, RowsChange DEF custody
<1>5. QED
  BY <1>1, <1>2, <1>3, <1>4 DEF Inv

LEMMA SetHolds ==
  ASSUME Inv, NEW p \in Procs, SetCommit(p)
  PROVE  Inv'
<1> DEFINE written == Encoded(proc[p].mode, proc[p].g, proc[p].v)
<1>0. proc[p] \in ProcCalls /\ row \in [Creds -> Rows] /\ gen \in Nat
  BY GenNat DEF Inv, TypeOK
<1>1. written \in Rows
  BY <1>0, EncodedTyped DEF ProcCalls
<1>2. proc[p].mode = "gcm2" => proc[p].g \in 1..gen /\ gen = proc[p].g
  BY DEF Inv, KeysHeld, KeyHeld, SetCommit, GenerationHolds
<1>3. written.scheme = "gcm2" => gen # 0 /\ written.key = gen
  BY <1>0, <1>2 DEF Encoded
<1>4. row' = [c \in Creds |-> IF c \in proc[p].cs THEN written ELSE row[c]]
  BY DEF SetCommit
<1> HIDE DEF written
<1>5. row' \in [Creds -> Rows]
  BY <1>0, <1>1, <1>4
<1>6. \A c \in Creds : row'[c] = row[c] \/ (c \in proc[p].cs
                          /\ (row'[c].scheme = "gcm2" => gen # 0 /\ row'[c].key = gen))
  BY <1>3, <1>4
<1>7. lease' \subseteq Procs /\ ReturnsWriting(p, proc[p].cs) /\ UNCHANGED <<custody, outside>>
  BY DEF SetCommit, Inv, TypeOK
<1>8. QED
  BY <1>5, <1>6, <1>7, WriteHolds

LEMMA RemovalsHold ==
  ASSUME Inv, NEW p \in Procs, DeleteCommit(p) \/ ArchiveCommit(p) \/ ResetCommit(p)
  PROVE  Inv'
<1>0. row \in [Creds -> Rows] /\ lease \subseteq Procs
  BY DEF Inv, TypeOK
<1>1. Removes(p)
  BY DEF DeleteCommit, ArchiveCommit, ResetCommit
<1>2. row' = [c \in Creds |-> IF c \in proc[p].cs THEN NoRow ELSE row[c]]
  BY <1>1 DEF Removes
<1>3. row' \in [Creds -> Rows]
  BY <1>0, <1>2, NoRowTyped
<1>4. \A c \in Creds : row'[c] = row[c] \/ (c \in proc[p].cs
                          /\ (row'[c].scheme = "gcm2" => gen # 0 /\ row'[c].key = gen))
  BY <1>2 DEF NoRow
<1>5. QED
  BY <1>0, <1>1, <1>3, <1>4, WriteHolds DEF Removes

LEMMA UpgradeHolds ==
  ASSUME Inv, NEW p \in Procs, UpgradeCommit(p)
  PROVE  Inv'
<1>0. proc[p] \in ProcCalls /\ row \in [Creds -> Rows] /\ gen \in Nat
  BY GenNat DEF Inv, TypeOK
<1>1. proc[p].g \in 1..gen /\ gen = proc[p].g
  BY DEF Inv, KeysHeld, KeyHeld, UpgradeCommit, GenerationHolds
<1>2. row' = [c \in Creds |-> IF c \in Of("b64")
                              THEN Encoded("gcm2", proc[p].g, row[c].val) ELSE row[c]]
  BY DEF UpgradeCommit
<1>3. ASSUME NEW c \in Creds
      PROVE  Encoded("gcm2", proc[p].g, row[c].val) \in Rows
  BY <1>0, EncodedTyped DEF ProcCalls, Rows, Schemes
<1>4. row' \in [Creds -> Rows]
  BY <1>0, <1>2, <1>3
<1>5. \A c \in Creds : row'[c] = row[c] \/ (c \in Of("b64")
                          /\ (row'[c].scheme = "gcm2" => gen # 0 /\ row'[c].key = gen))
  BY <1>0, <1>1, <1>2 DEF Encoded
<1>6. lease' \subseteq Procs /\ ReturnsWriting(p, Of("b64")) /\ UNCHANGED <<custody, outside>>
  BY DEF UpgradeCommit, Inv, TypeOK
<1>7. QED
  BY <1>4, <1>5, <1>6, WriteHolds

\* Migration and rotation: every gcm2 row there is goes under the new key.
LEMMA ReencryptionHolds ==
  ASSUME Inv, NEW p \in Procs, NEW g \in 1..MaxGen, gen < g,
         Reencrypts(p, g), Of("gcm2") \subseteq proc[p].cs, gen' = g,
         keys' \subseteq 0..MaxGen, \A k \in 1..g : k \in keys', ring' \subseteq 0..MaxGen,
         minimum' \in 0..2, lease' \subseteq Procs, UNCHANGED outside
  PROVE  Inv'
<1>0. proc[p] \in ProcCalls /\ row \in [Creds -> Rows] /\ gen \in Nat /\ g \in 0..MaxGen /\ g \in Nat
      /\ TypeOK
  BY GenNat DEF Inv, TypeOK
<1>1. row' = [c \in Creds |-> IF c \in proc[p].cs
                              THEN Encoded("gcm2", g, proc[p].plain[c]) ELSE row[c]]
  BY DEF Reencrypts
<1>2. ASSUME NEW c \in Creds
      PROVE  Encoded("gcm2", g, proc[p].plain[c]) \in Rows
  BY <1>0, EncodedTyped DEF ProcCalls, Schemes
<1>3. row' \in [Creds -> Rows]
  BY <1>0, <1>1, <1>2
<1>4. proc' \in [Procs -> ProcCalls]
  BY <1>0, ReturnsWritingTyped DEF Reencrypts
<1>5. TypeOK'
  BY <1>0, <1>3, <1>4 DEF TypeOK, outside
<1>6. UnderActiveKey'
  <2>1. ASSUME NEW c \in Creds, row'[c].scheme = "gcm2"
        PROVE  row'[c].key = g
    <3>1. CASE c \in proc[p].cs
      BY <1>1, <3>1 DEF Encoded
    <3>2. CASE c \notin proc[p].cs
      BY <1>1, <2>1, <3>2 DEF Of
    <3>3. QED
      BY <3>1, <3>2
  <2>2. QED
    BY <1>0, <2>1 DEF UnderActiveKey, Of
<1>7. Registered'
  BY DEF Registered
<1>8. KeysHeld' /\ SnapshotsHold'
  <2>1. \A c \in Creds \ proc[p].cs : row'[c] = row[c]
    BY <1>1
  <2>2. QED
    BY <1>0, <2>1, RowsChange DEF Reencrypts
<1>9. QED
  BY <1>5, <1>6, <1>7, <1>8 DEF Inv

LEMMA MigrationHolds ==
  ASSUME Inv, NEW p \in Procs, MigrateCommit(p)
  PROVE  Inv'
<1>1. gen = 0 /\ gen' = 1 /\ keys' = keys \cup {0, 1} /\ ring' = ring \cup {1} /\ minimum' = 2
      /\ lease' = lease /\ UNCHANGED outside /\ Reencrypts(p, 1)
  BY DEF MigrateCommit
<1>2. 1 \in 1..MaxGen /\ 0 \in 0..MaxGen /\ 1 \in 0..MaxGen
  BY ConstantsAssumption
<1>3. Of("gcm2") = {}
  BY <1>1 DEF Inv, UnderActiveKey
<1>4. keys' \subseteq 0..MaxGen /\ ring' \subseteq 0..MaxGen /\ lease' \subseteq Procs
      /\ minimum' \in 0..2
  BY <1>1, <1>2 DEF Inv, TypeOK
<1>5. \A k \in 1..1 : k \in keys'
  BY <1>1
<1>6. QED
  BY <1>1, <1>2, <1>3, <1>4, <1>5, ReencryptionHolds

LEMMA RotationHolds ==
  ASSUME Inv, NEW p \in Procs, RotateCommit(p)
  PROVE  Inv'
<1>0. gen \in Nat /\ MaxGen \in Nat
  BY GenNat DEF Inv
<1>1. gen' = gen + 1 /\ keys' = keys \cup {gen + 1} /\ ring' = ring \cup {gen + 1}
      /\ minimum' = minimum /\ lease' = lease \cup {p} /\ UNCHANGED outside
      /\ Reencrypts(p, gen + 1) /\ proc[p].cs = Of("gcm2")
  BY DEF RotateCommit, NewKey, CohortHolds
<1>2. gen < MaxGen
  BY DEF Inv, KeysHeld, KeyHeld, RotateCommit, GenerationHolds
<1>3. gen + 1 \in 1..MaxGen /\ gen + 1 \in 0..MaxGen /\ gen < gen + 1
  BY <1>0, <1>2
<1>4. keys' \subseteq 0..MaxGen /\ ring' \subseteq 0..MaxGen /\ lease' \subseteq Procs
      /\ minimum' \in 0..2
  BY <1>1, <1>3 DEF Inv, TypeOK
<1>5. ASSUME NEW k \in 1..(gen + 1)
      PROVE  k \in keys'
  <2>1. k \in 1..gen \/ k = gen + 1
    BY <1>0
  <2>2. QED
    BY <1>1, <2>1 DEF Inv, Registered
<1>6. QED
  BY <1>1, <1>3, <1>4, <1>5, ReencryptionHolds

LEMMA InitHolds == Init => Inv
<1> SUFFICES ASSUME Init PROVE Inv
  OBVIOUS
<1>1. PICK old \in [Creds -> Vals \cup {Absent}] :
        row = [c \in Creds |-> IF old[c] = Absent THEN NoRow
                               ELSE [scheme |-> "gcm1", key |-> 0, val |-> old[c]]]
  BY DEF Init
<1>2. row \in [Creds -> Rows]
  BY <1>1, ConstantsAssumption, NoRowTyped DEF Rows, Schemes
<1>3. TypeOK
  <2>1. 0 \in 0..MaxGen /\ 0 \in 0..MaxCalls /\ 0 \in 0..2
    BY ConstantsAssumption
  <2>2. gen \in 0..MaxGen /\ minimum \in 0..2 /\ calls \in 0..MaxCalls
    BY <2>1 DEF Init
  <2>3. keys \subseteq 0..MaxGen /\ ring \subseteq 0..MaxGen /\ lease \subseteq Procs
    BY <2>1 DEF Init
  <2>4. proc \in [Procs -> ProcCalls]
    BY NoCallTyped DEF Init
  <2>5. keyring \in {"answers", "locked", "unavailable"} /\ late \in BOOLEAN
    BY DEF Init
  <2>6. QED
    BY <1>2, <2>2, <2>3, <2>4, <2>5 DEF TypeOK
<1>4. UnderActiveKey
  BY <1>1 DEF UnderActiveKey, Of, NoRow
<1>5. Registered /\ KeysHeld /\ SnapshotsHold
  BY NoCallHolds DEF Init, Registered, KeysHeld, SnapshotsHold
<1>6. QED
  BY <1>3, <1>4, <1>5 DEF Inv

LEMMA NextHolds == Inv /\ [Next]_vars => Inv'
<1> SUFFICES ASSUME Inv, [Next]_vars PROVE Inv'
  OBVIOUS
<1>1. CASE UNCHANGED vars
  BY <1>1 DEF vars, Inv, TypeOK, UnderActiveKey, Registered, KeysHeld, SnapshotsHold, Of
<1>2. CASE Next
  BY <1>2, BeginningsHold, KeysHold, InsecureHolds, SetHolds, RemovalsHold, UpgradeHolds,
     MigrationHolds, RotationHolds, EndsHold, SurroundingsHold DEF Next
<1>3. QED
  BY <1>1, <1>2

\* What the calls in progress hold of keys and rows is what the table had and,
\* where nobody wrote since, has: the invariant behind the theorems below.
THEOREM Invariant == Spec => []Inv
  BY InitHolds, NextHolds, PTL DEF Spec

\* Every variable has its type, and generations stay within their bound.
THEOREM TypeCorrect == Spec => []TypeOK
<1>1. Inv => TypeOK
  BY DEF Inv
<1>2. QED
  BY <1>1, Invariant, PTL

\* No write, however late, leaves a row under another key than the active one
\* (assertGenerationForWrite and the recheck of the cohort in rotateMasterKey).
THEOREM ActiveKeyOnly == Spec => []UnderActiveKey
<1>1. Inv => UnderActiveKey
  BY DEF Inv
<1>2. QED
  BY <1>1, Invariant, PTL

\* A reader finds the key of the envelope it has read, however many rotations
\* there were since (rotateMasterKey retires keys and never deletes one).
THEOREM KeysKept == Spec => []KeysRegistered
<1>1. Inv => KeysRegistered
  <2> SUFFICES ASSUME Inv PROVE KeysRegistered
    OBVIOUS
  <2>1. ASSUME NEW c \in Of("gcm2")
        PROVE  row[c].key \in keys
    <3>1. gen # 0 /\ row[c].key = gen
      BY DEF Inv, UnderActiveKey
    <3>2. QED
      BY <3>1, GenNat DEF Inv, Registered
  <2>2. ASSUME NEW p \in Procs, proc[p].op = "get", proc[p].mode = "gcm2"
        PROVE  proc[p].g \in keys
    BY <2>2 DEF Inv, KeysHeld, KeyHeld, Registered
  <2>3. QED
    BY <2>1, <2>2 DEF KeysRegistered
<1>2. QED
  BY <1>1, Invariant, PTL

\* Whatever processes write, rotate, fail and crash, the store can read what it
\* wrote, as far as its keys go.
THEOREM KeysAlwaysUsable == Spec => []KeysUsable
BY TypeCorrect, ActiveKeyOnly, KeysKept, PTL DEF KeysUsable

-----------------------------------------------------------------------------
(* A migrated store has no legacy row.  The migration finds none but those  *)
(* it re-encrypts, and every process that could still write one holds a     *)
(* lease of the older protocol, which keeps the migration out.              *)

\* Only one process has the protocol that migrates.  Of two, the one that does not
\* migrate may be inside a legacy write, which nothing makes it give up.
OneMigrator == \A p, q \in Procs : Protocol[p] = 2 /\ Protocol[q] = 2 => p = q

LegacyWriter(x) == x.op = "set" /\ x.mode = "gcm1"

\* A process that will write a legacy row holds its lease; after a migration none will.
LegacyHeld == ~late => \A p \in Procs : LegacyWriter(proc[p]) => p \in lease
LegacyOver ==
    0 \in keys => gen # 0 /\ (~late => \A p \in Procs : ~LegacyWriter(proc[p]))
LegacyInv == LegacyHeld /\ LegacyOver /\ NoLegacyLeft

\* Steps that take no lease away and write legacy rows only where one may be written.
LEMMA LegacyKept ==
  ASSUME LegacyInv, lease \subseteq lease', late' = late,
         0 \in keys' => 0 \in keys, gen # 0 => gen' # 0,
         \A q \in Procs : LegacyWriter(proc'[q]) =>
             LegacyWriter(proc[q]) \/ (q \in lease' /\ gen = 0),
         \A c \in Creds : row'[c].scheme = "gcm1" =>
             row[c].scheme = "gcm1" \/ \E q \in Procs : LegacyWriter(proc[q])
  PROVE  LegacyInv'
<1>1. LegacyHeld'
  BY DEF LegacyInv, LegacyHeld
<1>2. LegacyOver'
  BY DEF LegacyInv, LegacyOver
<1>3. NoLegacyLeft'
  BY DEF LegacyInv, LegacyOver, NoLegacyLeft, Of
<1>4. QED
  BY <1>1, <1>2, <1>3 DEF LegacyInv

LEMMA NoCallWritesNothing == ~LegacyWriter(NoCall)
  BY DEF LegacyWriter, NoCall

\* Process p returns after it wrote the rows of S: nobody else is at another point.
LEMMA WritersLeft ==
  ASSUME TypeOK, NEW p \in Procs, NEW S, ReturnsWriting(p, S)
  PROVE  \A q \in Procs : LegacyWriter(proc'[q]) => LegacyWriter(proc[q]) /\ q # p
<1> SUFFICES ASSUME NEW q \in Procs, LegacyWriter(proc'[q])
             PROVE  LegacyWriter(proc[q]) /\ q # p
  OBVIOUS
<1>1. CASE q = p
  BY <1>1, NoCallWritesNothing DEF ReturnsWriting
<1>2. CASE q # p
  <2>1. proc'[q] = [proc[q] EXCEPT !.fresh = @ \ S] /\ proc[q] \in ProcCalls
    BY <1>2 DEF ReturnsWriting, TypeOK
  <2>2. proc'[q].op = proc[q].op /\ proc'[q].mode = proc[q].mode
    BY <2>1 DEF ProcCalls
  <2>3. QED
    BY <1>2, <2>2 DEF LegacyWriter
<1>3. QED
  BY <1>1, <1>2

\* One process moves on to a call that writes no legacy row, or waits with its lease to.
LEMMA MovesOn ==
  ASSUME TypeOK, LegacyInv, NEW p \in Procs, NEW new,
         proc' = [proc EXCEPT ![p] = new],
         LegacyWriter(new) => p \in lease' /\ gen = 0,
         lease \subseteq lease', late' = late, row' = row,
         0 \in keys' => 0 \in keys, gen # 0 => gen' # 0
  PROVE  LegacyInv'
<1>1. \A q \in Procs : LegacyWriter(proc'[q]) =>
          LegacyWriter(proc[q]) \/ (q \in lease' /\ gen = 0)
  BY DEF TypeOK
<1>2. QED
  BY <1>1, LegacyKept

LEMMA BeginningsLegacy ==
  ASSUME TypeOK, LegacyInv, NEW p \in Procs,
         \/ GetBegin(p) \/ SetBegin(p) \/ DeleteBegin(p) \/ ArchiveBegin(p) \/ ResetBegin(p)
         \/ UpgradeBegin(p) \/ MigrateBegin(p) \/ RotateBegin(p)
  PROVE  LegacyInv'
<1>1. (\A q \in Procs : q # p => proc'[q] = proc[q]) /\ ~LegacyWriter(proc'[p])
  <2>1. CASE GetBegin(p)
    BY <2>1 DEF TypeOK, Begins, LegacyWriter, NoCall, GetBegin
  <2>2. CASE SetBegin(p)
    <3>1. PICK c \in Creds, v \in Vals, old \in Vals \cup {Absent, AnyValue} :
            proc' = [proc EXCEPT ![p] =
              [NoCall EXCEPT !.op = "set", !.at = "check", !.cs = {c}, !.v = v, !.old = old,
                             !.fresh = {c},
                             !.health = IF row[c] = NoRow THEN "missing" ELSE "usable"]]
      BY <2>2 DEF SetBegin, Begins
    <3>2. proc'[p].mode = "none" /\ \A q \in Procs : q # p => proc'[q] = proc[q]
      BY <3>1 DEF TypeOK, NoCall
    <3>3. QED
      BY <3>2 DEF LegacyWriter
  <2>3. CASE DeleteBegin(p)
    BY <2>3 DEF TypeOK, Begins, LegacyWriter, NoCall, DeleteBegin
  <2>4. CASE ArchiveBegin(p)
    BY <2>4 DEF TypeOK, Begins, LegacyWriter, NoCall, ArchiveBegin
  <2>5. CASE ResetBegin(p)
    BY <2>5 DEF TypeOK, Begins, LegacyWriter, NoCall, ResetBegin
  <2>6. CASE UpgradeBegin(p)
    BY <2>6 DEF TypeOK, Begins, LegacyWriter, NoCall, UpgradeBegin
  <2>7. CASE MigrateBegin(p)
    BY <2>7 DEF TypeOK, Begins, LegacyWriter, NoCall, MigrateBegin, Cohort
  <2>8. CASE RotateBegin(p)
    BY <2>8 DEF TypeOK, Begins, LegacyWriter, NoCall, RotateBegin, Cohort
  <2>9. QED
    BY <2>1, <2>2, <2>3, <2>4, <2>5, <2>6, <2>7, <2>8
<1>2. UNCHANGED <<row, gen, keys, lease, late>>
  BY DEF GetBegin, SetBegin, DeleteBegin, ArchiveBegin, ResetBegin, UpgradeBegin, MigrateBegin,
         RotateBegin, custody
<1>3. QED
  BY <1>1, <1>2, LegacyKept

\* The legacy key is given only to a store that was not migrated, and with a lease.
LEMMA KeysLegacy ==
  ASSUME TypeOK, LegacyInv, NEW p \in Procs, SetKey(p) \/ UpgradeKey(p)
  PROVE  LegacyInv'
<1>1. /\ KeyForWrite(p) /\ lease' = lease \cup {p} /\ row' = row /\ late' = late
  BY DEF SetKey, UpgradeKey, KeyForWrite, outside
<1>2. proc[p] \in ProcCalls
  BY DEF TypeOK
<1>3. CASE LegacyKey(p)
  BY <1>1, <1>3, MovesOn DEF LegacyKey, Goes, custody
<1>4. CASE FirstKey(p)
  <2> DEFINE new == [proc[p] EXCEPT !.at = "commit", !.mode = "gcm2", !.g = 1]
  <2>1. ~LegacyWriter(new)
    BY <1>2 DEF LegacyWriter, ProcCalls
  <2>2. /\ proc' = [proc EXCEPT ![p] = new]
        /\ 0 \in keys' => 0 \in keys
        /\ gen' # 0
    BY <1>4 DEF FirstKey, Goes, NewKey
  <2> HIDE DEF new
  <2>3. QED
    BY <1>1, <2>1, <2>2, MovesOn
<1>5. CASE ActiveKey(p)
  <2> DEFINE new == [proc[p] EXCEPT !.at = "commit", !.mode = "gcm2", !.g = gen]
  <2>1. ~LegacyWriter(new)
    BY <1>2 DEF LegacyWriter, ProcCalls
  <2>2. proc' = [proc EXCEPT ![p] = new] /\ UNCHANGED custody
    BY <1>5 DEF ActiveKey, Goes
  <2> HIDE DEF new
  <2>3. QED
    BY <1>1, <2>1, <2>2, MovesOn DEF custody
<1>6. QED
  BY <1>1, <1>3, <1>4, <1>5 DEF KeyForWrite

\* Calls that end without a write, and a write without encryption that is decided.
LEMMA QuietLegacy ==
  ASSUME TypeOK, LegacyInv, NEW p \in Procs, GetEnd(p) \/ Refused(p) \/ SetInsecure(p)
  PROVE  LegacyInv'
<1>1. UNCHANGED <<row, gen, keys, lease, late>>
  BY DEF GetEnd, Refused, SetInsecure, Fails, custody, outside
<1>2. PICK new : proc' = [proc EXCEPT ![p] = new] /\ ~LegacyWriter(new)
  <2>1. CASE GetEnd(p) \/ Refused(p)
    BY <2>1, NoCallWritesNothing DEF GetEnd, Refused, Fails, Returns
  <2>2. CASE SetInsecure(p)
    <3>1. proc[p] \in ProcCalls
      BY DEF TypeOK
    <3>2. ~LegacyWriter([proc[p] EXCEPT !.at = "commit", !.mode = "b64"])
      BY <3>1 DEF LegacyWriter, ProcCalls
    <3>3. QED
      BY <2>2, <3>2 DEF SetInsecure, Goes
  <2>3. QED
    BY <2>1, <2>2
<1>3. QED
  BY <1>1, <1>2, MovesOn

\* A commit other than the migration's.
LEMMA CommitsLegacy ==
  ASSUME TypeOK, LegacyInv, NEW p \in Procs,
         \/ SetCommit(p) \/ DeleteCommit(p) \/ ArchiveCommit(p) \/ ResetCommit(p)
         \/ UpgradeCommit(p) \/ RotateCommit(p)
  PROVE  LegacyInv'
<1>1. PICK S : ReturnsWriting(p, S)
  BY DEF SetCommit, DeleteCommit, ArchiveCommit, ResetCommit, UpgradeCommit, RotateCommit, Removes,
         Reencrypts
<1>2. \A q \in Procs : LegacyWriter(proc'[q]) => LegacyWriter(proc[q])
  BY <1>1, WritersLeft
<1>3. lease \subseteq lease' /\ late' = late
  BY DEF SetCommit, DeleteCommit, ArchiveCommit, ResetCommit, UpgradeCommit, RotateCommit, Removes,
         outside
<1>4. (0 \in keys' => 0 \in keys) /\ (gen # 0 => gen' # 0)
  <2>1. CASE RotateCommit(p)
    <3>1. gen \in Nat /\ gen' = gen + 1 /\ keys' = keys \cup {gen + 1}
      BY <2>1, GenNat DEF RotateCommit, NewKey
    <3>2. gen + 1 # 0
      BY <3>1
    <3>3. QED
      BY <3>1, <3>2
  <2>2. CASE ~RotateCommit(p)
    BY <2>2 DEF SetCommit, DeleteCommit, ArchiveCommit, ResetCommit, UpgradeCommit, Removes, custody
  <2>3. QED
    BY <2>1, <2>2
<1>5. \A c \in Creds : row'[c].scheme = "gcm1" =>
          row[c].scheme = "gcm1" \/ \E q \in Procs : LegacyWriter(proc[q])
  <2>1. CASE SetCommit(p)
    BY <2>1 DEF SetCommit, Encoded, LegacyWriter
  <2>2. CASE DeleteCommit(p) \/ ArchiveCommit(p) \/ ResetCommit(p)
    BY <2>2 DEF DeleteCommit, ArchiveCommit, ResetCommit, Removes, NoRow
  <2>3. CASE UpgradeCommit(p)
    BY <2>3 DEF UpgradeCommit, Encoded
  <2>4. CASE RotateCommit(p)
    BY <2>4 DEF RotateCommit, Reencrypts, Encoded
  <2>5. QED
    BY <2>1, <2>2, <2>3, <2>4
<1>6. QED
  BY <1>2, <1>3, <1>4, <1>5, LegacyKept

\* The migration re-encrypts every legacy row, and meets nobody about to write one.
LEMMA MigrationLegacy ==
  ASSUME OneMigrator, TypeOK, LegacyInv, NEW p \in Procs, MigrateCommit(p)
  PROVE  LegacyInv'
<1>1. /\ lease' = lease /\ late' = late /\ gen' = 1 /\ ReturnsWriting(p, proc[p].cs)
      /\ proc[p].cs = Of("gcm1")
  BY DEF MigrateCommit, outside, CohortHolds, Reencrypts
<1>2. \A q \in Procs : LegacyWriter(proc'[q]) => LegacyWriter(proc[q]) /\ q # p
  BY <1>1, WritersLeft
<1>3. LegacyHeld'
  BY <1>1, <1>2 DEF LegacyInv, LegacyHeld
<1>4. ASSUME ~late, NEW q \in Procs, LegacyWriter(proc[q]), q # p
      PROVE  FALSE
  <2>1. q \in lease \ {p}
    BY <1>4 DEF LegacyInv, LegacyHeld
  <2>2. Protocol[p] = 2 /\ Protocol[q] = 2
    BY <2>1, ConstantsAssumption DEF MigrateCommit, NoOlderWriter
  <2>3. QED
    BY <1>4, <2>2 DEF OneMigrator
<1>5. LegacyOver'
  BY <1>1, <1>2, <1>4 DEF LegacyOver
<1>6. \A c \in Creds : row'[c].scheme # "gcm1"
  BY <1>1 DEF MigrateCommit, Reencrypts, Encoded, Of
<1>7. NoLegacyLeft'
  BY <1>6 DEF NoLegacyLeft, Of
<1>8. QED
  BY <1>3, <1>5, <1>7 DEF LegacyInv

LEMMA SurroundingsLegacy ==
  ASSUME TypeOK, LegacyInv,
         (\E p \in Procs : LeaseExpires(p)) \/ KeyringChanges \/ KeysLost \/ UNCHANGED vars
  PROVE  LegacyInv'
<1>1. UNCHANGED <<row, gen, keys, proc>>
  BY DEF LeaseExpires, KeyringChanges, KeysLost, custody, vars
<1>2. CASE \E p \in Procs : LeaseExpires(p)
  <2>1. PICK p \in Procs : lease' = lease \ {p} /\ late' = (late \/ LegacyWriter(proc[p]))
    BY <1>2 DEF LeaseExpires, LegacyWriter
  <2>2. (~late' => ~late /\ ~LegacyWriter(proc[p]))
    BY <2>1
  <2>3. QED
    BY <1>1, <2>1, <2>2 DEF LegacyInv, LegacyHeld, LegacyOver, NoLegacyLeft, Of
<1>3. CASE UNCHANGED <<lease, late>>
  BY <1>1, <1>3 DEF LegacyInv, LegacyHeld, LegacyOver, NoLegacyLeft, Of
<1>4. QED
  BY <1>2, <1>3 DEF KeyringChanges, KeysLost, vars

LEMMA LegacyInvariant ==
  ASSUME OneMigrator
  PROVE  Spec => []LegacyInv
<1>1. Init => LegacyInv
  BY NoCallWritesNothing DEF Init, LegacyInv, LegacyHeld, LegacyOver, NoLegacyLeft
<1>2. Inv /\ LegacyInv /\ [Next]_vars => LegacyInv'
  <2> SUFFICES ASSUME Inv, LegacyInv, [Next]_vars PROVE LegacyInv'
    OBVIOUS
  <2>1. TypeOK
    BY DEF Inv
  <2>2. CASE UNCHANGED vars
    BY <2>1, <2>2, SurroundingsLegacy
  <2>3. CASE Next
    BY <2>1, <2>3, BeginningsLegacy, KeysLegacy, QuietLegacy, CommitsLegacy, MigrationLegacy,
       SurroundingsLegacy DEF Next
  <2>4. QED
    BY <2>2, <2>3
<1>3. QED
  BY <1>1, <1>2, Invariant, PTL DEF Spec

\* No write of an older process, however long it was prepared, leaves a row behind that a
\* migrated store would never look at again (assertProtocol2ActivationAllowed and the
\* leases), when one process has the protocol that migrates and no lease ran out in a call.
THEOREM MigrationIsFinal ==
  ASSUME OneMigrator
  PROVE  Spec => []NoLegacyLeft
<1>1. LegacyInv => NoLegacyLeft
  BY DEF LegacyInv
<1>2. QED
  BY <1>1, LegacyInvariant, PTL

-----------------------------------------------------------------------------
(* The store implements the map of credentials.  Its calls take effect when *)
(* they commit; everything else it does is invisible to its callers.        *)

Seen(x) ==
    CASE x.op = "set" -> [op |-> "set", cs |-> x.cs, v |-> x.v, old |-> x.old]
      [] x.op \in {"delete", "archive", "reset"} -> [op |-> "delete", cs |-> x.cs]
      [] OTHER -> [op |-> "none"]

LEMMA SeenCalls == CallsSeen = [p \in Procs |-> Seen(proc[p])]
  BY DEF CallsSeen, Seen

LEMMA SeenNoCall == Seen(NoCall) = Map!NoCall
  BY DEF Seen, NoCall, Map!NoCall

\* A step that gives process p another call.
LEMMA SeenChanges ==
  ASSUME TypeOK, NEW p \in Procs, NEW new, proc' = [proc EXCEPT ![p] = new]
  PROVE  CallsSeen' = [CallsSeen EXCEPT ![p] = Seen(new)]
<1>1. CallsSeen' = [q \in Procs |-> Seen(proc'[q])]
  BY DEF CallsSeen, Seen
<1>2. ASSUME NEW q \in Procs
      PROVE  proc'[q] = IF q = p THEN new ELSE proc[q]
  BY DEF TypeOK
<1>3. QED
  BY <1>1, <1>2, SeenCalls

\* The return of process p from a call that wrote.
LEMMA SeenReturns ==
  ASSUME TypeOK, NEW p \in Procs, NEW S, ReturnsWriting(p, S)
  PROVE  CallsSeen' = [CallsSeen EXCEPT ![p] = Map!NoCall]
<1>1. CallsSeen' = [q \in Procs |-> Seen(proc'[q])]
  BY DEF CallsSeen, Seen
<1>2. ASSUME NEW q \in Procs, q # p
      PROVE  Seen(proc'[q]) = Seen(proc[q])
  <2>1. proc[q] \in ProcCalls /\ proc'[q] = [proc[q] EXCEPT !.fresh = @ \ S]
    BY <1>2 DEF TypeOK, ReturnsWriting
  <2>2. /\ proc'[q].op = proc[q].op /\ proc'[q].cs = proc[q].cs
        /\ proc'[q].v = proc[q].v /\ proc'[q].old = proc[q].old
    BY <2>1 DEF ProcCalls
  <2>3. QED
    BY <2>2 DEF Seen
<1>3. Seen(proc'[p]) = Map!NoCall
  BY SeenNoCall DEF ReturnsWriting
<1>4. QED
  BY <1>1, <1>2, <1>3, SeenCalls

\* A call in which callers see no value change, and no row is written.
LEMMA QuietReturns ==
  ASSUME TypeOK, NEW p \in Procs, proc' = [proc EXCEPT ![p] = NoCall], row' = row
  PROVE  Map!Refuse(p)
<1>1. CallsSeen' = [CallsSeen EXCEPT ![p] = Map!NoCall]
  BY SeenChanges, SeenNoCall
<1>2. Values' = Values
  BY DEF Values
<1>3. QED
  BY <1>1, <1>2 DEF Map!Refuse, Map!Returns

\* A call that callers do not see begins, or goes on.
LEMMA Unseen ==
  ASSUME TypeOK, NEW p \in Procs, NEW new, proc' = [proc EXCEPT ![p] = new],
         Seen(new) = Seen(proc[p]), row' = row
  PROVE  UNCHANGED Map!vars
<1>1. CallsSeen' = [CallsSeen EXCEPT ![p] = Seen(proc[p])]
  BY SeenChanges
<1>2. CallsSeen' = CallsSeen
  BY <1>1, SeenCalls
<1>3. Values' = Values
  BY DEF Values
<1>4. QED
  BY <1>2, <1>3 DEF Map!vars

LEMMA BeginsSeen ==
  ASSUME TypeOK, NEW p \in Procs, NEW new, Begins(p, new), row' = row, Seen(new) \in Map!Calls
  PROVE  Map!Begin(p)
<1>1. CallsSeen[p] = Map!NoCall
  BY SeenCalls, SeenNoCall DEF Begins
<1>2. CallsSeen' = [CallsSeen EXCEPT ![p] = Seen(new)]
  BY SeenChanges DEF Begins
<1>3. Values' = Values
  BY DEF Values
<1>4. QED
  BY <1>1, <1>2, <1>3 DEF Map!Begin

LEMMA BeginningsRefine ==
  ASSUME TypeOK, NEW p \in Procs,
         \/ GetBegin(p) \/ SetBegin(p) \/ DeleteBegin(p) \/ ArchiveBegin(p) \/ ResetBegin(p)
         \/ UpgradeBegin(p) \/ MigrateBegin(p) \/ RotateBegin(p)
  PROVE  Map!Begin(p) \/ UNCHANGED Map!vars
<1>1. CASE SetBegin(p)
  <2>1. PICK c \in Creds, v \in Vals, old \in Vals \cup {Absent, AnyValue} :
          Begins(p, [NoCall EXCEPT !.op = "set", !.at = "check", !.cs = {c}, !.v = v,
                                   !.old = old, !.fresh = {c},
                                   !.health = IF row[c] = NoRow THEN "missing" ELSE "usable"])
    BY <1>1 DEF SetBegin
  <2> DEFINE new == [NoCall EXCEPT !.op = "set", !.at = "check", !.cs = {c}, !.v = v,
                                   !.old = old, !.fresh = {c},
                                   !.health = IF row[c] = NoRow THEN "missing" ELSE "usable"]
  <2>2. new.op = "set" /\ new.cs = {c} /\ new.v = v /\ new.old = old
    BY DEF NoCall
  <2>3. Seen(new) = [op |-> "set", cs |-> {c}, v |-> v, old |-> old]
    BY <2>2 DEF Seen
  <2>4. Seen(new) \in Map!Calls
    BY <2>3 DEF Map!Calls
  <2>5. Begins(p, new) /\ row' = row
    BY <2>1, <1>1 DEF SetBegin
  <2> HIDE DEF new
  <2>6. QED
    BY <2>4, <2>5, BeginsSeen
<1>2. CASE DeleteBegin(p) \/ ArchiveBegin(p) \/ ResetBegin(p)
  <2>1. PICK new : Begins(p, new) /\ new.op \in {"delete", "archive", "reset"}
                   /\ new.cs \in SUBSET Creds
    <3>1. CASE DeleteBegin(p)
      <4>1. PICK c \in Creds : Begins(p, [NoCall EXCEPT !.op = "delete", !.at = "commit",
                                                        !.cs = {c}, !.fresh = {c}])
        BY <3>1 DEF DeleteBegin
      <4> DEFINE new == [NoCall EXCEPT !.op = "delete", !.at = "commit", !.cs = {c}, !.fresh = {c}]
      <4>2. new.op = "delete" /\ new.cs = {c} /\ Begins(p, new)
        BY <4>1 DEF NoCall
      <4> HIDE DEF new
      <4>3. QED
        BY <4>2
    <3>2. CASE ArchiveBegin(p)
      <4>1. PICK c \in Creds : Begins(p, [NoCall EXCEPT !.op = "archive", !.at = "commit",
                                                        !.cs = {c}, !.health = Health(c)])
        BY <3>2 DEF ArchiveBegin
      <4> DEFINE new == [NoCall EXCEPT !.op = "archive", !.at = "commit",
                                       !.cs = {c}, !.health = Health(c)]
      <4>2. new.op = "archive" /\ new.cs = {c} /\ Begins(p, new)
        BY <4>1 DEF NoCall
      <4> HIDE DEF new
      <4>3. QED
        BY <4>2
    <3>3. CASE ResetBegin(p)
      <4> DEFINE new == [NoCall EXCEPT !.op = "reset", !.at = "commit",
                                       !.cs = {c \in Creds : Unreadable(c)}]
      <4>1. new.op = "reset" /\ new.cs = {c \in Creds : Unreadable(c)} /\ Begins(p, new)
        BY <3>3 DEF NoCall, ResetBegin
      <4> HIDE DEF new
      <4>2. QED
        BY <4>1
    <3>4. QED
      BY <1>2, <3>1, <3>2, <3>3
  <2>2. Seen(new) = [op |-> "delete", cs |-> new.cs]
    BY <2>1 DEF Seen
  <2>3. Seen(new) \in Map!Calls
    BY <2>1, <2>2 DEF Map!Calls
  <2>4. row' = row
    BY <1>2 DEF DeleteBegin, ArchiveBegin, ResetBegin
  <2>5. QED
    BY <2>1, <2>3, <2>4, BeginsSeen
<1>3. CASE GetBegin(p) \/ UpgradeBegin(p) \/ MigrateBegin(p) \/ RotateBegin(p)
  <2>1. PICK new : Begins(p, new) /\ new.op \in {"get", "upgrade", "migrate", "rotate"}
    <3>1. CASE GetBegin(p)
      <4>1. PICK c \in Creds :
              Begins(p, [NoCall EXCEPT !.op = "get", !.at = "commit", !.cs = {c},
                                       !.mode = row[c].scheme, !.g = row[c].key])
        BY <3>1 DEF GetBegin
      <4> DEFINE new == [NoCall EXCEPT !.op = "get", !.at = "commit", !.cs = {c},
                                       !.mode = row[c].scheme, !.g = row[c].key]
      <4>2. new.op = "get" /\ Begins(p, new)
        BY <4>1 DEF NoCall
      <4> HIDE DEF new
      <4>3. QED
        BY <4>2
    <3>2. CASE UpgradeBegin(p)
      <4> DEFINE new == [NoCall EXCEPT !.op = "upgrade", !.at = "check"]
      <4>1. new.op = "upgrade" /\ Begins(p, new)
        BY <3>2 DEF NoCall, UpgradeBegin
      <4> HIDE DEF new
      <4>2. QED
        BY <4>1
    <3>3. CASE MigrateBegin(p)
      <4>1. Begins(p, Cohort("migrate", "gcm1"))
        BY <3>3 DEF MigrateBegin
      <4>2. Cohort("migrate", "gcm1").op = "migrate"
        BY DEF Cohort, NoCall
      <4>3. QED
        BY <4>1, <4>2
    <3>4. CASE RotateBegin(p)
      <4>1. Begins(p, Cohort("rotate", "gcm2"))
        BY <3>4 DEF RotateBegin
      <4>2. Cohort("rotate", "gcm2").op = "rotate"
        BY DEF Cohort, NoCall
      <4>3. QED
        BY <4>1, <4>2
    <3>5. QED
      BY <1>3, <3>1, <3>2, <3>3, <3>4
  <2>2. Seen(new) = Seen(proc[p])
    BY <2>1 DEF Begins, Seen, NoCall
  <2>3. proc' = [proc EXCEPT ![p] = new] /\ row' = row
    BY <2>1, <1>3 DEF Begins, GetBegin, UpgradeBegin, MigrateBegin, RotateBegin
  <2>4. QED
    BY <2>2, <2>3, Unseen
<1>4. QED
  BY <1>1, <1>2, <1>3

LEMMA KeysRefine ==
  ASSUME TypeOK, NEW p \in Procs, SetKey(p) \/ UpgradeKey(p) \/ SetInsecure(p)
  PROVE  UNCHANGED Map!vars
<1>0. proc[p] \in ProcCalls
  BY DEF TypeOK
<1>1. PICK mode, g : proc' = [proc EXCEPT ![p] =
                                 [proc[p] EXCEPT !.at = "commit", !.mode = mode, !.g = g]]
  <2>1. CASE SetInsecure(p) \/ LegacyKey(p)
    <3>1. PICK mode : proc' = [proc EXCEPT ![p] = [proc[p] EXCEPT !.at = "commit", !.mode = mode]]
      BY <2>1 DEF SetInsecure, LegacyKey, Goes
    <3>2. [proc[p] EXCEPT !.at = "commit", !.mode = mode]
            = [proc[p] EXCEPT !.at = "commit", !.mode = mode, !.g = proc[p].g]
      BY <1>0 DEF ProcCalls
    <3>3. QED
      BY <3>1, <3>2
  <2>2. CASE FirstKey(p) \/ ActiveKey(p)
    BY <2>2 DEF FirstKey, ActiveKey, Goes
  <2>3. QED
    BY <2>1, <2>2 DEF SetKey, UpgradeKey, KeyForWrite
<1> DEFINE new == [proc[p] EXCEPT !.at = "commit", !.mode = mode, !.g = g]
<1>2. new.op = proc[p].op /\ new.cs = proc[p].cs /\ new.v = proc[p].v /\ new.old = proc[p].old
  BY <1>0 DEF ProcCalls
<1>3. proc' = [proc EXCEPT ![p] = new]
  BY <1>1
<1>4. row' = row
  BY DEF SetKey, UpgradeKey, SetInsecure, KeyForWrite
<1> HIDE DEF new
<1>5. Seen(new) = Seen(proc[p])
  BY <1>2 DEF Seen
<1>6. QED
  BY <1>3, <1>4, <1>5, Unseen

LEMMA SetRefines ==
  ASSUME Inv, NEW p \in Procs, SetCommit(p)
  PROVE  Map!Set(p)
<1>0. TypeOK /\ proc[p] \in ProcCalls
  BY DEF Inv, TypeOK
<1>1. proc[p].op = "set" /\ proc[p].at = "commit" /\ RowsHold(p) /\ ReturnsWriting(p, proc[p].cs)
  BY DEF SetCommit
<1>2. CallsSeen[p] = [op |-> "set", cs |-> proc[p].cs, v |-> proc[p].v, old |-> proc[p].old]
  BY <1>1, SeenCalls DEF Seen
<1>3. ASSUME NEW c \in proc[p].cs
      PROVE  proc[p].old \in {AnyValue, row[c].val} \/ row[c].val = Absent
  <2>1. CASE c \in proc[p].fresh
    BY <1>1, <2>1 DEF Inv, SnapshotsHold, SnapshotHolds
  <2>2. CASE row[c] = NoRow
    BY <2>2 DEF NoRow
  <2>3. QED
    BY <1>1, <2>1, <2>2 DEF RowsHold
<1>4. \A c \in proc[p].cs : c \in Creds
  BY <1>0 DEF ProcCalls
<1>5. Values' = [c \in Creds |-> IF c \in proc[p].cs THEN proc[p].v ELSE Values[c]]
  BY DEF Values, SetCommit, Encoded
<1>6. CallsSeen' = [CallsSeen EXCEPT ![p] = Map!NoCall]
  BY <1>0, <1>1, SeenReturns
<1>7. \A c \in proc[p].cs : CallsSeen[p].old \in {AnyValue, Values[c]} \/ Values[c] = Absent
  BY <1>2, <1>3, <1>4 DEF Values
<1>8. QED
  BY <1>2, <1>5, <1>6, <1>7 DEF Map!Set, Map!Returns

LEMMA RemovalsRefine ==
  ASSUME TypeOK, NEW p \in Procs, DeleteCommit(p) \/ ArchiveCommit(p) \/ ResetCommit(p)
  PROVE  Map!Delete(p)
<1>1. proc[p].op \in {"delete", "archive", "reset"} /\ Removes(p)
  BY DEF DeleteCommit, ArchiveCommit, ResetCommit
<1>2. CallsSeen[p] = [op |-> "delete", cs |-> proc[p].cs]
  BY <1>1, SeenCalls DEF Seen
<1>3. Values' = [c \in Creds |-> IF c \in proc[p].cs THEN Absent ELSE Values[c]]
  BY <1>1 DEF Values, Removes, NoRow
<1>4. CallsSeen' = [CallsSeen EXCEPT ![p] = Map!NoCall]
  BY <1>1, SeenReturns DEF Removes
<1>5. QED
  BY <1>2, <1>3, <1>4 DEF Map!Delete, Map!Returns

LEMMA UpkeepRefines ==
  ASSUME Inv, NEW p \in Procs, UpgradeCommit(p) \/ MigrateCommit(p) \/ RotateCommit(p)
  PROVE  UNCHANGED Map!vars
<1>0. TypeOK
  BY DEF Inv
<1>1. proc[p].op \in {"upgrade", "migrate", "rotate"} /\ \E S : ReturnsWriting(p, S)
  BY DEF UpgradeCommit, MigrateCommit, RotateCommit, Reencrypts
<1>2. CallsSeen[p] = Map!NoCall
  BY <1>1, SeenCalls DEF Seen, Map!NoCall
<1>3. CallsSeen' = [CallsSeen EXCEPT ![p] = Map!NoCall]
  BY <1>0, <1>1, SeenReturns
<1>4. CallsSeen' = CallsSeen
  BY <1>2, <1>3, SeenCalls
<1>5. ASSUME NEW c \in Creds
      PROVE  row'[c].val = row[c].val
  <2>1. CASE UpgradeCommit(p)
    BY <2>1 DEF UpgradeCommit, Encoded
  <2>2. CASE MigrateCommit(p) \/ RotateCommit(p)
    <3>1. RowsHold(p) /\ proc[p].op \in {"migrate", "rotate"}
      BY <2>2 DEF MigrateCommit, RotateCommit, CohortHolds
    <3>2. proc[p].health = "usable"
      BY <3>1 DEF Inv, KeysHeld, KeyHeld
    <3>3. c \in proc[p].cs => proc[p].plain[c] = row[c].val
      BY <3>1, <3>2 DEF Inv, RowsHold, SnapshotsHold, SnapshotHolds
    <3>4. PICK g : row' = [d \in Creds |-> IF d \in proc[p].cs
                                  THEN Encoded("gcm2", g, proc[p].plain[d]) ELSE row[d]]
      BY <2>2 DEF MigrateCommit, RotateCommit, Reencrypts
    <3>5. QED
      BY <3>3, <3>4 DEF Encoded
  <2>3. QED
    BY <2>1, <2>2
<1>6. Values' = Values
  BY <1>5 DEF Values
<1>7. QED
  BY <1>4, <1>6 DEF Map!vars

LEMMA InitRefines == Init => Map!Init
<1> SUFFICES ASSUME Init PROVE Map!Init
  OBVIOUS
<1>1. PICK old \in [Creds -> Vals \cup {Absent}] :
        row = [c \in Creds |-> IF old[c] = Absent THEN NoRow
                               ELSE [scheme |-> "gcm1", key |-> 0, val |-> old[c]]]
  BY DEF Init
<1>2. ASSUME NEW c \in Creds
      PROVE  row[c].val = old[c]
  BY <1>1 DEF NoRow
<1>3. Values \in [Creds -> Vals \cup {Absent}]
  BY <1>2 DEF Values
<1>4. ASSUME NEW p \in Procs
      PROVE  Seen(proc[p]) = Map!NoCall
  BY SeenNoCall DEF Init
<1>5. CallsSeen = [p \in Procs |-> Map!NoCall]
  BY <1>4, SeenCalls
<1>6. QED
  BY <1>3, <1>5 DEF Map!Init

LEMMA NextRefines == Inv /\ [Next]_vars => [Map!Next]_(Map!vars)
<1> SUFFICES ASSUME Inv, [Next]_vars PROVE Map!Next \/ UNCHANGED Map!vars
  OBVIOUS
<1>0. TypeOK
  BY DEF Inv
<1>1. CASE UNCHANGED vars
  BY <1>1 DEF vars, Map!vars, Values, CallsSeen
<1>2. ASSUME NEW p \in Procs, Refused(p) \/ GetEnd(p)
      PROVE  Map!Refuse(p)
  <2>1. proc' = [proc EXCEPT ![p] = NoCall] /\ row' = row
    BY <1>2 DEF Refused, GetEnd, Fails, Returns
  <2>2. QED
    BY <1>0, <2>1, QuietReturns
<1>3. CASE (\E p \in Procs : LeaseExpires(p)) \/ KeyringChanges \/ KeysLost
  <2>1. UNCHANGED <<row, proc>>
    BY <1>3 DEF LeaseExpires, KeyringChanges, KeysLost
  <2>2. QED
    BY <2>1 DEF Map!vars, Values, CallsSeen
<1>4. CASE Next
  BY <1>0, <1>2, <1>3, <1>4, BeginningsRefine, KeysRefine, SetRefines, RemovalsRefine,
     UpkeepRefines DEF Next, Map!Next
<1>5. QED
  BY <1>1, <1>4

\* Whatever the upkeep of keys and envelopes does between them, the calls of all
\* processes take effect at once or not at all, and nothing else changes a value.
THEOREM Implementation == Spec => ImplementsMap
<1>1. Inv /\ [Next]_vars => [Map!Next]_(Map!vars)
  BY NextRefines
<1>2. QED
  BY <1>1, InitRefines, Invariant, PTL DEF Spec, ImplementsMap, Map!Spec
=============================================================================
