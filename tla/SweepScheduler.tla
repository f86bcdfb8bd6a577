--------------------------- MODULE SweepScheduler ---------------------------
(***************************************************************************)
(* The sweep scheduler of the C++ executor (scheduler.hpp): plan_batch,    *)
(* which decides from the outcomes so far what arms to dispatch next, with *)
(* ASHA successive halving (rung 0, barrier, rung 1), and supervise_child, *)
(* which decides from a child's clocks what to do with it.  Both are pure: *)
(* what happens between two calls is done by a driver outside the          *)
(* repository, modelled as the header says: it runs the arms of a plan     *)
(* concurrently, reports each outcome with its attempt, and plans again    *)
(* when all have reported; it polls the children and sends the signals.    *)
(*                                                                         *)
(* Abstractions.  The outcomes of a rung are kept folded (roll_outcomes).  *)
(* A status is ok, refused (not retryable), transient (retryable) or       *)
(* cancelled.  Trades and sharpe are one tie-break, higher is better.      *)
(* Times are choices: a child may be found silent or over its grace.       *)
(***************************************************************************)
EXTENDS Integers, FiniteSets

CONSTANTS
    Requests,    \* [arm_count, concurrency, asha_kill, max_retries, guard_bar]
    Metrics,     \* [score, tie] of a fold 0
    Unscored,    \* an ok fold 0 without a score
    NoBar,       \* no guard bar
    KeepFloorBase,      \* 12
    KeepNum, KeepDen    \* the fraction of the arms to keep, 1 / 3

ASSUME SchedulerAssumption ==
    /\ Requests \subseteq [arm_count : Nat, concurrency : Nat, asha_kill : BOOLEAN,
                           max_retries : Nat, guard_bar : Nat \cup {NoBar}]
    /\ Metrics \subseteq [score : Nat, tie : Nat] /\ Unscored \notin Metrics
    /\ KeepFloorBase \in Nat /\ KeepNum \in Nat /\ KeepDen \in Nat \ {0}

VARIABLES
    request,     \* the BatchRequest, but for its flag
    cancelled,   \* the flag: abort seen
    roll,        \* outcome of a rung and arm: last status, attempts, metric
    phase,       \* of the last plan
    child,       \* the process of an arm: none, running, terminated, killed
    timedOut     \* arms whose child was terminated for its silence

vars == <<request, cancelled, roll, phase, child, timedOut>>

Arms == 1..request.arm_count
Rungs == {0, 1}
Statuses == {"none", "ok", "refused", "transient", "cancelled"}
NoOutcome == [status |-> "none", attempts |-> 0, metric |-> Unscored]
Larger(m, n) == IF m >= n THEN m ELSE n
Tries == Larger(1, request.max_retries)
Concurrency == Larger(1, request.concurrency)

Init ==
    /\ request \in Requests
    /\ cancelled = FALSE
    /\ roll = [r \in Rungs |-> [a \in Arms |-> NoOutcome]]
    /\ phase = "rung0"
    /\ child = [a \in Arms |-> "none"] /\ timedOut = {}

InFlight == {a \in Arms : child[a] # "none"}
Rung == IF phase = "rung1" THEN 1 ELSE 0

----------------------------------------------------------------------------
(* The state of an arm *)

Terminal(r, a) ==
    LET o == roll[r][a] IN
    \/ o.status \in {"ok", "cancelled", "refused"}
    \/ o.status = "transient" /\ o.attempts >= Tries

Failed(r, a) == Terminal(r, a) /\ roll[r][a].status \notin {"ok", "cancelled"}

NeedDispatch(r) == {a \in Arms : ~Terminal(r, a)}

----------------------------------------------------------------------------
(* The ASHA barrier *)

Scored == {a \in Arms : roll[0][a].status = "ok" /\ roll[0][a].metric # Unscored}
Score(a) == roll[0][a].metric.score
Tie(a) == roll[0][a].metric.tie

\* The stable sort: score, then the tie-break, then the order of the arms.
Better(a, b) ==
    \/ Score(a) > Score(b)
    \/ Score(a) = Score(b) /\ Tie(a) > Tie(b)
    \/ Score(a) = Score(b) /\ Tie(a) = Tie(b) /\ a < b

\* Mutant: ranks count from one.
Rank_FromOne(a) == Cardinality({b \in Scored : Better(b, a)}) + 1

Rank(a) == Cardinality({b \in Scored : Better(b, a)})

KeepFloor == Larger(KeepFloorBase, 2 * Concurrency)
RankKeep == Larger(KeepFloor, (Cardinality(Scored) * KeepNum + KeepDen - 1) \div KeepDen)
AboveBar(a) == request.guard_bar # NoBar /\ Score(a) >= request.guard_bar

Kept == {a \in Scored : Rank(a) < RankKeep \/ AboveBar(a)}
Killed == Scored \ Kept

----------------------------------------------------------------------------
(* plan_batch and the driver's pool *)

\* Mutant: a survivor that failed in rung 1 is not tried again.
Pending_Once(r) ==
    IF r = 0 THEN NeedDispatch(0) ELSE {a \in NeedDispatch(1) \cap Kept : roll[1][a].status = "none"}

Pending(r) == IF r = 0 THEN NeedDispatch(0) ELSE NeedDispatch(1) \cap Kept

\* The head of the pending arms: by ordinal in rung 0, best first in rung 1.
Head(r) ==
    {a \in Pending(r) :
        Cardinality({b \in Pending(r) : IF r = 0 THEN b < a ELSE Better(b, a)}) < Concurrency}

Dispatch(r) ==
    /\ phase' = IF r = 0 THEN "rung0" ELSE "rung1"
    /\ child' = [a \in Arms |-> IF a \in Head(r) THEN "running" ELSE "none"]

Ends(p) == phase' = p /\ UNCHANGED child

Over == phase \in {"done", "cancelled"}

Plan ==
    /\ ~Over /\ InFlight = {}
    /\ \/ cancelled /\ Ends("cancelled")
       \/ ~cancelled /\ Pending(0) # {} /\ Dispatch(0)
       \/ /\ ~cancelled /\ request.asha_kill /\ Pending(0) = {} /\ Pending(1) # {}
          /\ Dispatch(1)
       \/ /\ ~cancelled /\ Pending(0) = {} /\ (request.asha_kill => Pending(1) = {})
          /\ Ends("done")
    /\ UNCHANGED <<request, cancelled, roll, timedOut>>

Abort ==
    /\ ~cancelled /\ ~Over
    /\ cancelled' = TRUE
    /\ UNCHANGED <<request, roll, phase, child, timedOut>>

----------------------------------------------------------------------------
(* supervise_child and the child *)

\* A poll finds an abort or a silent child: SIGTERM.
Terminate(a) ==
    /\ child[a] = "running"
    /\ child' = [child EXCEPT ![a] = "terminated"]
    /\ timedOut' = IF cancelled THEN timedOut ELSE timedOut \cup {a}
    /\ UNCHANGED <<request, cancelled, roll, phase>>

\* Mutant: only an abort escalates to SIGKILL.
Kill_OnAbort(a) ==
    /\ child[a] = "terminated" /\ cancelled
    /\ child' = [child EXCEPT ![a] = "killed"]
    /\ UNCHANGED <<request, cancelled, roll, phase, timedOut>>

\* The grace is over: SIGKILL.
Kill(a) ==
    /\ child[a] = "terminated"
    /\ child' = [child EXCEPT ![a] = "killed"]
    /\ UNCHANGED <<request, cancelled, roll, phase, timedOut>>

\* Mutant: an answer of rung 1 is rolled into rung 0 as well.
Report_AnyRung(a, s, m) ==
    /\ roll' = [r \in Rungs |->
                   IF r <= Rung
                   THEN [roll[r] EXCEPT ![a] = [status |-> s, attempts |-> @.attempts + 1, metric |-> m]]
                   ELSE roll[r]]
    /\ child' = [child EXCEPT ![a] = "none"]
    /\ timedOut' = timedOut \ {a}
    /\ UNCHANGED <<request, cancelled, phase>>

Report(a, s, m) ==
    /\ roll' = [roll EXCEPT ![Rung][a] = [status |-> s, attempts |-> @.attempts + 1, metric |-> m]]
    /\ child' = [child EXCEPT ![a] = "none"]
    /\ timedOut' = timedOut \ {a}
    /\ UNCHANGED <<request, cancelled, phase>>

\* Mutant: a child that got through to its end counts, abort or not.
ExitStatuses_ExitFirst(a) == IF a \in timedOut THEN {"transient"} ELSE {"ok", "refused", "transient"}

\* What the exit means: an abort before a timeout before the exit itself.
ExitStatuses(a) ==
    IF cancelled THEN {"cancelled"}
    ELSE IF a \in timedOut THEN {"transient"}
    ELSE {"ok", "refused", "transient"}

Exit(a) ==
    /\ child[a] # "none"
    /\ \E s \in ExitStatuses(a) :
          \E m \in IF s = "ok" /\ Rung = 0 /\ request.asha_kill THEN Metrics \cup {Unscored} ELSE {Unscored} : Report(a, s, m)

\* Output that cannot be read ends the supervision, abort or not.
Malformed(a) == child[a] # "none" /\ Report(a, "transient", Unscored)

Supervises(a) == Terminate(a) \/ Kill(a) \/ Exit(a) \/ Malformed(a)

Next == Plan \/ Abort \/ \E a \in Arms : Supervises(a)

\* A child ends or is found silent; one that was terminated ends or is
\* killed; a killed one is gone.  The driver plans when all have reported.
Reaps(a) == Terminate(a) \/ Kill(a) \/ (child[a] = "killed" /\ Exit(a))

Spec == Init /\ [][Next]_vars /\ WF_vars(Plan) /\ WF_vars(\E a \in Arms : Reaps(a))

----------------------------------------------------------------------------
TypeOK ==
    /\ request \in Requests /\ cancelled \in BOOLEAN
    /\ roll \in [Rungs -> [Arms -> [status : Statuses, attempts : Nat, metric : Metrics \cup {Unscored}]]]
    /\ phase \in {"rung0", "rung1", "done", "cancelled"}
    /\ child \in [Arms -> {"none", "running", "terminated", "killed"}]
    /\ timedOut \subseteq InFlight

\* An arm is dispatched as often as its retries allow, over all plans, and not
\* again after an answer (arm_terminal, arms_needing_dispatch).
AttemptsBounded ==
    \A r \in Rungs, a \in Arms :
        /\ roll[r][a].attempts <= Tries
        /\ r = Rung /\ child[a] # "none" => roll[r][a].attempts < Tries

\* Who is killed at the barrier is beaten by as many survivors as are kept by
\* rank, is below the guard bar and never enters rung 1; who enters rung 1 has
\* a score ("unscored arms are NEVER killed", "the guard bar rescues").
BarrierIsFair ==
    NeedDispatch(0) = {} =>
        /\ \A a \in Killed :
              /\ LET before == Cardinality({b \in Kept : Better(b, a)}) IN
                 before >= KeepFloor /\ before * KeepDen >= Cardinality(Scored) * KeepNum
              /\ ~AboveBar(a)
        /\ \A a \in Arms : roll[1][a].status # "none" => a \in Kept

\* When the batch is done every arm has come to one end: failed, parked by the
\* barrier, finished, or unscored (which the plan's progress leaves out).
DoneIsComplete ==
    phase = "done" =>
        /\ InFlight = {}
        /\ \A a \in Arms :
              \/ Failed(0, a)
              \/ roll[0][a].status = "ok" /\ ~request.asha_kill
              \/ request.asha_kill /\ (a \in Killed \/ (a \in Kept /\ Terminal(1, a)))
              \/ request.asha_kill /\ roll[0][a].status = "ok" /\ roll[0][a].metric = Unscored

\* Types, budgets and the end of a batch together.
OutcomesHold == TypeOK /\ AttemptsBounded /\ DoneIsComplete

\* The barrier is computed anew by every plan and always decides the same: no
\* answer of rung 1 moves an arm across it.
BarrierStays == [][NeedDispatch(0) = {} => Kept' = Kept /\ Killed' = Killed]_vars

\* An abort drains: no child is started after it, and none that runs is
\* reported as a success.
AbortDrains ==
    [][cancelled => /\ InFlight' \subseteq InFlight
                    /\ \A r \in Rungs, a \in Arms : roll'[r][a] # roll[r][a] => roll'[r][a].status # "ok"]_vars

\* A batch ends, and leaves no child behind.
BatchEnds == <>(Over /\ InFlight = {})
=============================================================================
