------------------------------ MODULE SlotPool ------------------------------
(***************************************************************************)
(* What a queue with a concurrency limit promises, whatever it keeps to    *)
(* count: jobs wait, run in a slot and end.  A job whose run is over may   *)
(* hold its slot a little longer (retiring).  The backtest queue and the   *)
(* download queue implement it with a counter of active tasks that is      *)
(* raised and lowered far from each other; here nothing is counted twice.  *)
(***************************************************************************)
EXTENDS Integers, FiniteSets

CONSTANT Jobs

VARIABLES
    waiting,    \* jobs that wait for a slot
    running,    \* jobs that run
    retiring,   \* slots of runs that are over, not given back yet
    ended,      \* jobs that ran or were withdrawn
    limit       \* slots there are

vars == <<waiting, running, retiring, ended, limit>>

Init ==
    /\ waiting = {} /\ running = {} /\ retiring = 0 /\ ended = {}
    /\ limit \in Nat \ {0}

InUse == Cardinality(running) + retiring

\* A job is started only into a free slot.
StartsWithinLimit == running' \ running # {} => InUse' <= limit'

\* No step leaves a job waiting beside a free slot: all slots are in use, or
\* for every job that waits one is about to be given back, and starts it.
LeavesNoneWaiting == InUse' >= limit' \/ Cardinality(waiting') <= retiring'

\* Jobs are not lost: they wait, run or have ended; what has ended stays so.
\* A running job may go back and wait.
JobsProceed ==
    /\ waiting' \cup running' \cup ended' \subseteq Jobs
    /\ waiting \cup running \cup ended \subseteq waiting' \cup running' \cup ended'
    /\ ended \subseteq ended'
    /\ waiting' \cap running' = {} /\ ended' \cap (waiting' \cup running') = {}

\* A slot retires only when a run is over, and is given back once.
SlotsProceed ==
    /\ retiring' \in Nat /\ limit' \in Nat \ {0}
    /\ retiring' <= retiring + Cardinality(running \ running')

Next == JobsProceed /\ SlotsProceed /\ StartsWithinLimit /\ LeavesNoneWaiting

Spec == Init /\ [][Next]_vars
=============================================================================
