-------------------------- MODULE DurableDatabase --------------------------
(***************************************************************************)
(* What the database files promise the hosts, whatever is copied, renamed  *)
(* and journalled: one content that is never replaced by an empty one; a   *)
(* commit that has been acknowledged stays; a staged restore takes effect  *)
(* at one moment and once; a migration is applied to a content once.       *)
(***************************************************************************)
EXTENDS Naturals

CONSTANTS Hosts, Backups, Absent

VARIABLES
    content,   \* what the next host reads, Absent before the first one
    saved,     \* the content of a backup, Absent if there is none
    staged     \* the backup to restore, Absent if there is none

vars == <<content, saved, staged>>

Contents == [rows : SUBSET Hosts, schema : {0, 1}]
Fresh == [rows |-> {}, schema |-> 0]

Init ==
    /\ content \in Contents \cup {Absent}
    /\ saved \in [Backups -> Contents \cup {Absent}]
    /\ staged \in Backups \cup {Absent}

Create == content = Absent /\ content' = Fresh /\ UNCHANGED <<saved, staged>>

Commit(h) ==
    /\ content # Absent
    /\ content' = [content EXCEPT !.rows = @ \cup {h}]
    /\ UNCHANGED <<saved, staged>>

Migrate ==
    /\ content # Absent /\ content.schema = 0
    /\ content' = [content EXCEPT !.schema = 1]
    /\ UNCHANGED <<saved, staged>>

\* A backup of the content; older ones may go.
Backup(b) ==
    /\ content # Absent /\ saved[b] = Absent
    /\ saved'[b] = content
    /\ \A o \in Backups \ {b} : saved'[o] \in {saved[o], Absent}
    /\ saved' \in [Backups -> Contents \cup {Absent}]
    /\ UNCHANGED <<content, staged>>

Stage(b) == saved[b] # Absent /\ staged' = b /\ UNCHANGED <<content, saved>>

Restore ==
    /\ staged # Absent /\ saved[staged] # Absent
    /\ content' = saved[staged]
    /\ staged' = Absent
    /\ UNCHANGED saved

Next ==
    \/ Create \/ Migrate \/ Restore
    \/ \E h \in Hosts : Commit(h)
    \/ \E b \in Backups : Backup(b) \/ Stage(b)

Spec == Init /\ [][Next]_vars
=============================================================================
