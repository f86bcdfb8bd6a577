--------------------------- MODULE CredentialMap ---------------------------
(***************************************************************************)
(* What the secure store promises its callers, whatever it does to keys    *)
(* and envelopes: a map of credentials on which every call takes effect at *)
(* one moment or not at all.  A value changes by the call of somebody who  *)
(* wants it changed, never by the upkeep of the store, and a compare-and-  *)
(* swap replaces the value it compared with, or one removed meanwhile.     *)
(***************************************************************************)
CONSTANTS
    Procs, Creds, Vals,
    Absent,      \* no value
    AnyValue     \* a set, not a compare-and-swap

VARIABLES
    val,     \* the value of a credential
    call     \* the call a process is in

vars == <<val, call>>

NoCall == [op |-> "none"]
Calls ==
    {NoCall} \cup [op : {"set"}, cs : {{c} : c \in Creds}, v : Vals, old : Vals \cup {Absent, AnyValue}]
             \cup [op : {"delete"}, cs : SUBSET Creds]

Init ==
    /\ val \in [Creds -> Vals \cup {Absent}]
    /\ call = [p \in Procs |-> NoCall]

Returns(p) == call' = [call EXCEPT ![p] = NoCall]

Begin(p) ==
    /\ call[p] = NoCall
    /\ \E new \in Calls : call' = [call EXCEPT ![p] = new]
    /\ UNCHANGED val

Set(p) ==
    /\ call[p].op = "set"
    /\ \A c \in call[p].cs : call[p].old \in {AnyValue, val[c]} \/ val[c] = Absent
    /\ val' = [c \in Creds |-> IF c \in call[p].cs THEN call[p].v ELSE val[c]]
    /\ Returns(p)

Delete(p) ==
    /\ call[p].op = "delete"
    /\ val' = [c \in Creds |-> IF c \in call[p].cs THEN Absent ELSE val[c]]
    /\ Returns(p)

\* The call is refused, or its process dies.
Refuse(p) == Returns(p) /\ UNCHANGED val

Next == \E p \in Procs : Begin(p) \/ Set(p) \/ Delete(p) \/ Refuse(p)

Spec == Init /\ [][Next]_vars
=============================================================================
