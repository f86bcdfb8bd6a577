----------------------- MODULE SweepScheduler_proofs -----------------------
(***************************************************************************)
(* The sweep scheduler for every batch: any number of arms, places in the  *)
(* pool and retries, with or without halving and guard bar.                *)
(*                                                                         *)
(* The argument.  An arm with a child is one its rung still needs (Needed),*)
(* and rung 1 begins when rung 0 needs none.  So no answer comes for an    *)
(* arm of rung 0 after the barrier, which depends on rung 0 only, and no   *)
(* arm is tried beyond its budget.  Who is killed is outranked by the best *)
(* of all that are out by rank, which is outranked by those kept by rank.  *)
(***************************************************************************)
EXTENDS SweepScheduler, TLAPS, FiniteSetTheorems, WellFoundedInduction

\* An arm that has not answered has not been tried; only an abort cancels.
Counted ==
    \A r \in Rungs, a \in Arms :
        /\ roll[r][a].status = "none" => roll[r][a].attempts = 0
        /\ roll[r][a].attempts <= Tries
        /\ roll[r][a].status = "cancelled" => cancelled

Needed ==
    /\ \A a \in Arms : child[a] # "none" => ~Terminal(Rung, a)
    /\ phase = "rung1" => NeedDispatch(0) = {}

IInv == TypeOK /\ Counted /\ Needed /\ DoneIsComplete

LEMMA TriesPositive == request \in Requests => Tries \in Nat \ {0} /\ request.arm_count \in Nat
BY SchedulerAssumption DEF Tries, Larger

LEMMA InitOK == Init => IInv
<1> SUFFICES ASSUME Init PROVE IInv
  OBVIOUS
<1> USE DEF Init, NoOutcome
<1>1. TypeOK
  BY SchedulerAssumption DEF TypeOK, Statuses, InFlight
<1>2. Counted
  BY TriesPositive DEF Counted
<1>3. Needed
  BY DEF Needed
<1>4. DoneIsComplete
  BY DEF DoneIsComplete
<1> QED  BY <1>1, <1>2, <1>3, <1>4 DEF IInv

\* What a report leaves behind.
LEMMA ReportChanges ==
    ASSUME TypeOK, NEW a \in Arms, NEW s \in Statuses, NEW m \in Metrics \cup {Unscored}, Report(a, s, m)
    PROVE  /\ TypeOK'
           /\ request' = request /\ cancelled' = cancelled /\ phase' = phase
           /\ \A r \in Rungs, b \in Arms :
                 roll'[r][b] = IF r = Rung /\ b = a
                               THEN [status |-> s, attempts |-> roll[r][b].attempts + 1, metric |-> m]
                               ELSE roll[r][b]
           /\ \A b \in Arms : child'[b] = IF b = a THEN "none" ELSE child[b]
<1> USE DEF Report
<1>1. Rung \in Rungs
  BY DEF Rung, Rungs
<1>2. roll[Rung][a].attempts \in Nat
  BY <1>1 DEF TypeOK
<1>3. request' = request /\ cancelled' = cancelled /\ phase' = phase
  OBVIOUS
<1>4. \A r \in Rungs, b \in Arms :
         roll'[r][b] = IF r = Rung /\ b = a
                       THEN [status |-> s, attempts |-> roll[r][b].attempts + 1, metric |-> m]
                       ELSE roll[r][b]
  BY <1>1 DEF TypeOK
<1>5. \A b \in Arms : child'[b] = IF b = a THEN "none" ELSE child[b]
  BY DEF TypeOK
<1>6. Arms' = Arms
  BY <1>3 DEF Arms
<1>7. roll' \in [Rungs -> [Arms -> [status : Statuses, attempts : Nat, metric : Metrics \cup {Unscored}]]]
  BY <1>1, <1>2 DEF TypeOK
<1>8. child' \in [Arms -> {"none", "running", "terminated", "killed"}]
  BY DEF TypeOK
<1>9. timedOut' \subseteq InFlight'
  BY <1>5, <1>6 DEF TypeOK, InFlight
<1> QED
  BY <1>3, <1>4, <1>5, <1>6, <1>7, <1>8, <1>9 DEF TypeOK

\* A child reports for its rung, and with a success only if nobody aborted.
LEMMA Reports ==
    ASSUME NEW a \in Arms, Exit(a) \/ Malformed(a)
    PROVE  /\ child[a] # "none"
           /\ \E s \in Statuses \ {"none"}, m \in Metrics \cup {Unscored} :
                 Report(a, s, m) /\ (cancelled => s # "ok") /\ (s = "cancelled" => cancelled)
<1>1. CASE Malformed(a)
  BY <1>1 DEF Malformed, Statuses
<1>2. CASE Exit(a)
  <2>1. PICK s \in ExitStatuses(a) :
           \E m \in IF s = "ok" /\ Rung = 0 /\ request.asha_kill THEN Metrics \cup {Unscored} ELSE {Unscored} :
              Report(a, s, m)
    BY <1>2 DEF Exit
  <2>2. PICK m \in Metrics \cup {Unscored} : Report(a, s, m)
    BY <2>1
  <2>3. s \in Statuses \ {"none"} /\ (cancelled => s # "ok") /\ (s = "cancelled" => cancelled)
    BY <2>1 DEF ExitStatuses, Statuses
  <2> QED
    BY <1>2, <2>2, <2>3 DEF Exit
<1> QED
  BY <1>1, <1>2

LEMMA HeadIsPending == \A r \in Rungs : Head(r) \subseteq NeedDispatch(r) /\ Head(r) \subseteq Arms
BY DEF Head, Pending, NeedDispatch, Rungs

\* The state of arms and the barrier read rung 0, rung 1 and the request.
LEMMA SameRolls ==
    ASSUME request' = request, NEW r \in Rungs, \A a \in Arms : roll'[r][a] = roll[r][a]
    PROVE  /\ Arms' = Arms /\ Tries' = Tries
           /\ \A a \in Arms : Terminal(r, a)' = Terminal(r, a) /\ Failed(r, a)' = Failed(r, a)
           /\ NeedDispatch(r)' = NeedDispatch(r)
<1>1. Arms' = Arms /\ Tries' = Tries
  BY DEF Arms, Tries
<1>2. \A a \in Arms : Terminal(r, a)' = Terminal(r, a) /\ Failed(r, a)' = Failed(r, a)
  BY <1>1 DEF Terminal, Failed
<1> QED
  BY <1>1, <1>2 DEF NeedDispatch

LEMMA SameBarrier ==
    ASSUME request' = request, \A a \in Arms : roll'[0][a] = roll[0][a]
    PROVE  Kept' = Kept /\ Killed' = Killed
<1>1. Arms' = Arms
  BY DEF Arms
<1>2. Scored' = Scored
  BY <1>1 DEF Scored
<1>3. Scored \subseteq Arms
  BY DEF Scored
<1>4. \A a, b \in Arms : Better(b, a)' = Better(b, a)
  BY <1>1 DEF Better, Score, Tie
<1>5. \A a \in Arms : {b \in Scored : Better(b, a)}' = {b \in Scored : Better(b, a)}
  BY <1>2, <1>3, <1>4
<1>6. \A a \in Arms : Rank(a)' = Rank(a)
  BY <1>5 DEF Rank
<1>7. RankKeep' = RankKeep
  BY <1>2 DEF RankKeep, KeepFloor, Concurrency
<1>8. \A a \in Arms : AboveBar(a)' = AboveBar(a)
  BY <1>1 DEF AboveBar, Score
<1>9. Kept' = Kept
  BY <1>2, <1>3, <1>6, <1>7, <1>8 DEF Kept
<1> QED
  BY <1>2, <1>9 DEF Killed

LEMMA PlanPreserves ==
    ASSUME IInv, Plan
    PROVE  IInv'
<1>1. /\ request' = request /\ cancelled' = cancelled /\ roll' = roll /\ timedOut' = timedOut
      /\ InFlight = {} /\ ~Over /\ Arms' = Arms /\ Tries' = Tries
  BY DEF Plan, Arms, Tries
<1>2. TypeOK /\ Counted /\ Needed
  BY DEF IInv
<1>3. \A r \in Rungs : NeedDispatch(r)' = NeedDispatch(r)
  BY <1>1, SameRolls
<1>4. \A r \in Rungs, a \in Arms : Terminal(r, a)' = Terminal(r, a)
  BY <1>1, SameRolls
<1>5. \A a \in Arms : child[a] = "none"
  BY <1>1 DEF InFlight
<1>6. timedOut = {}
  BY <1>1, <1>2 DEF TypeOK
<1>7. Counted'
  BY <1>1, <1>2 DEF Counted
<1>8. ASSUME NEW r \in Rungs, Dispatch(r), r = 1 => Pending(0) = {}
      PROVE  IInv'
  <2>1. child' \in [Arms -> {"none", "running", "terminated", "killed"}]
    BY <1>8 DEF Dispatch
  <2>2. phase' \in {"rung0", "rung1"} /\ Rung' = r
    BY <1>8 DEF Dispatch, Rung, Rungs
  <2>3. TypeOK'
    BY <1>1, <1>2, <1>6, <2>1, <2>2 DEF TypeOK
  <2>4. \A a \in Arms : child'[a] # "none" => a \in Head(r)
    BY <1>8 DEF Dispatch
  <2>5. \A a \in Arms : child'[a] # "none" => ~Terminal(r, a)
    BY <2>4, HeadIsPending DEF NeedDispatch
  <2>6. phase' = "rung1" => r = 1
    BY <1>8 DEF Dispatch, Rungs
  <2>7. phase' = "rung1" => NeedDispatch(0) = {}
    BY <1>8, <2>6 DEF Pending
  <2>8. Needed'
    BY <1>1, <1>3, <1>4, <2>2, <2>5, <2>7 DEF Needed, Rungs
  <2>9. DoneIsComplete'
    BY <2>2 DEF DoneIsComplete
  <2> QED
    BY <1>7, <2>3, <2>8, <2>9 DEF IInv
<1>9. ASSUME NEW p \in {"cancelled", "done"}, Ends(p)
      PROVE  TypeOK' /\ Needed'
  <2>1. phase' = p /\ child' = child
    BY <1>9 DEF Ends
  <2>2. TypeOK'
    BY <1>1, <1>2, <2>1 DEF TypeOK, InFlight
  <2>3. Needed'
    BY <1>1, <1>5, <2>1 DEF Needed
  <2> QED
    BY <2>2, <2>3
<1>10. ASSUME ~cancelled, Pending(0) = {}, request.asha_kill => Pending(1) = {}, Ends("done")
       PROVE  DoneIsComplete'
  <2>1. \A a \in Arms : Terminal(0, a)
    BY <1>10 DEF Pending, NeedDispatch
  <2>2. request.asha_kill => \A a \in Kept : a \in Arms => Terminal(1, a)
    BY <1>10 DEF Pending, NeedDispatch
  <2>3. \A a \in Arms : Failed(0, a)' = Failed(0, a) /\ Terminal(1, a)' = Terminal(1, a)
    BY <1>1, SameRolls DEF Rungs
  <2>4. Kept' = Kept /\ Killed' = Killed
    BY <1>1, SameBarrier
  <2>5. InFlight' = {}
    BY <1>1, <1>10 DEF Ends, InFlight
  <2>6. ASSUME NEW a \in Arms
        PROVE  \/ Failed(0, a)
               \/ roll[0][a].status = "ok" /\ ~request.asha_kill
               \/ request.asha_kill /\ (a \in Killed \/ (a \in Kept /\ Terminal(1, a)))
               \/ request.asha_kill /\ roll[0][a].status = "ok" /\ roll[0][a].metric = Unscored
    <3>1. roll[0][a].status # "cancelled"
      BY <1>2, <1>10 DEF Counted, Rungs
    <3>2. CASE roll[0][a].status # "ok"
      BY <2>1, <3>1, <3>2 DEF Failed
    <3>3. CASE roll[0][a].status = "ok" /\ roll[0][a].metric # Unscored /\ request.asha_kill
      <4>1. a \in Kept \/ a \in Killed
        BY <3>3 DEF Scored, Killed
      <4> QED
        BY <2>2, <3>3, <4>1
    <3>4. request.asha_kill \in BOOLEAN
      BY <1>2, SchedulerAssumption DEF TypeOK
    <3> QED
      BY <3>2, <3>3, <3>4
  <2> QED
    BY <1>1, <2>3, <2>4, <2>5, <2>6 DEF DoneIsComplete
<1>11. CASE cancelled /\ Ends("cancelled")
  <2>1. DoneIsComplete'
    BY <1>11 DEF DoneIsComplete, Ends
  <2> QED
    BY <1>7, <1>9, <1>11, <2>1 DEF IInv
<1>12. CASE ~cancelled /\ Pending(0) = {} /\ (request.asha_kill => Pending(1) = {}) /\ Ends("done")
  BY <1>7, <1>9, <1>10, <1>12 DEF IInv
<1> QED
  BY <1>8, <1>11, <1>12 DEF Plan, Rungs

LEMMA ReportPreserves ==
    ASSUME IInv, NEW a \in Arms, Exit(a) \/ Malformed(a)
    PROVE  IInv'
<1>1. child[a] # "none"
  BY Reports
<1>2. PICK s \in Statuses \ {"none"}, m \in Metrics \cup {Unscored} :
         Report(a, s, m) /\ (s = "cancelled" => cancelled)
  BY Reports
<1>3. TypeOK /\ Counted /\ Needed /\ DoneIsComplete
  BY DEF IInv
<1>4. /\ TypeOK'
      /\ request' = request /\ cancelled' = cancelled /\ phase' = phase
      /\ \A r \in Rungs, b \in Arms :
            roll'[r][b] = IF r = Rung /\ b = a
                          THEN [status |-> s, attempts |-> roll[r][b].attempts + 1, metric |-> m]
                          ELSE roll[r][b]
      /\ \A b \in Arms : child'[b] = IF b = a THEN "none" ELSE child[b]
  BY <1>2, <1>3, ReportChanges
<1>5. Arms' = Arms /\ Tries' = Tries /\ Rung' = Rung /\ Rung \in Rungs
  BY <1>4 DEF Arms, Tries, Rung, Rungs
<1>6. ~Terminal(Rung, a)
  BY <1>1, <1>3 DEF Needed
<1>7. roll[Rung][a].attempts \in Nat /\ roll[Rung][a].attempts < Tries
  <2>1. roll[Rung][a].status \in Statuses /\ roll[Rung][a].attempts \in Nat
    BY <1>3, <1>5 DEF TypeOK
  <2>2. Tries \in Nat \ {0}
    BY <1>3, TriesPositive DEF TypeOK
  <2>3. roll[Rung][a].status = "none" => roll[Rung][a].attempts = 0
    BY <1>3, <1>5 DEF Counted
  <2> QED
    BY <1>6, <2>1, <2>2, <2>3 DEF Terminal, Statuses
<1>8. Counted'
  <2>1. Tries \in Nat
    BY <1>3, TriesPositive DEF TypeOK
  <2>2. ASSUME NEW r \in Rungs, NEW b \in Arms
        PROVE  /\ roll'[r][b].status = "none" => roll'[r][b].attempts = 0
               /\ roll'[r][b].attempts <= Tries
               /\ roll'[r][b].status = "cancelled" => cancelled
    <3>1. CASE r = Rung /\ b = a
      <4>1. roll'[r][b] = [status |-> s, attempts |-> roll[Rung][a].attempts + 1, metric |-> m]
        BY <1>4, <3>1
      <4>2. roll'[r][b].status = s /\ roll'[r][b].attempts = roll[Rung][a].attempts + 1
        BY <4>1
      <4>3. roll'[r][b].attempts <= Tries
        BY <1>7, <2>1, <4>2
      <4>4. roll'[r][b].status # "none"
        BY <4>2
      <4>5. roll'[r][b].status = "cancelled" => cancelled
        BY <1>2, <4>2
      <4> QED
        BY <4>3, <4>4, <4>5
    <3>2. CASE ~(r = Rung /\ b = a)
      <4>1. roll'[r][b] = roll[r][b]
        BY <1>4, <3>2
      <4>2. /\ roll[r][b].status = "none" => roll[r][b].attempts = 0
            /\ roll[r][b].attempts <= Tries
            /\ roll[r][b].status = "cancelled" => cancelled
        BY <1>3 DEF Counted
      <4> QED
        BY <4>1, <4>2
    <3> QED
      BY <3>1, <3>2
  <2> QED
    BY <1>4, <1>5, <2>2 DEF Counted
<1>9. \A b \in Arms : child'[b] # "none" => ~Terminal(Rung, b)'
  <2>1. ASSUME NEW b \in Arms, child'[b] # "none" PROVE ~Terminal(Rung, b)'
    <3>1. b # a /\ ~Terminal(Rung, b)
      BY <1>3, <1>4, <2>1 DEF Needed
    <3>2. roll'[Rung][b] = roll[Rung][b]
      BY <1>4, <1>5, <3>1
    <3> QED
      BY <1>5, <3>1, <3>2 DEF Terminal
  <2> QED
    BY <2>1
<1>10. phase = "rung1" => NeedDispatch(0)' = NeedDispatch(0)
  <2>1. phase = "rung1" => \A b \in Arms : roll'[0][b] = roll[0][b]
    BY <1>4 DEF Rung, Rungs
  <2> QED
    BY <1>4, <2>1, SameRolls DEF Rungs
<1>11. Needed'
  BY <1>3, <1>4, <1>5, <1>9, <1>10 DEF Needed
<1>12. phase # "done"
  BY <1>1, <1>3 DEF DoneIsComplete, InFlight
<1>13. DoneIsComplete'
  BY <1>4, <1>12 DEF DoneIsComplete
<1> QED
  BY <1>4, <1>8, <1>11, <1>13 DEF IInv

LEMMA StepPreserves ==
    ASSUME IInv, [Next]_vars
    PROVE  IInv'
<1>1. TypeOK /\ Counted /\ Needed /\ DoneIsComplete
  BY DEF IInv
<1>2. CASE Plan
  BY <1>2, PlanPreserves
<1>3. ASSUME NEW a \in Arms, Exit(a) \/ Malformed(a) PROVE IInv'
  BY <1>3, ReportPreserves
<1>4. ASSUME request' = request, roll' = roll, phase' = phase, cancelled => cancelled', cancelled' \in BOOLEAN,
             child' \in [Arms -> {"none", "running", "terminated", "killed"}],
             InFlight' = InFlight, timedOut' \subseteq InFlight
      PROVE  IInv'
  <2>1. Arms' = Arms /\ Tries' = Tries /\ Rung' = Rung /\ Rung \in Rungs /\ 0 \in Rungs /\ 1 \in Rungs
    BY <1>4 DEF Arms, Tries, Rung, Rungs
  <2>2. TypeOK'
    BY <1>1, <1>4, <2>1 DEF TypeOK
  <2>3. Counted'
    BY <1>1, <1>4, <2>1 DEF Counted
  <2>4. \A r \in Rungs, a \in Arms : Terminal(r, a)' = Terminal(r, a) /\ Failed(r, a)' = Failed(r, a)
    BY <1>4, SameRolls
  <2>5. \A r \in Rungs : NeedDispatch(r)' = NeedDispatch(r)
    BY <1>4, SameRolls
  <2>6. \A a \in Arms : child'[a] # "none" <=> child[a] # "none"
    BY <1>4, <2>1 DEF InFlight
  <2>7. Needed'
    BY <1>1, <1>4, <2>1, <2>4, <2>5, <2>6 DEF Needed
  <2>8. Kept' = Kept /\ Killed' = Killed
    BY <1>4, SameBarrier
  <2>9. DoneIsComplete'
    BY <1>1, <1>4, <2>1, <2>4, <2>8 DEF DoneIsComplete
  <2> QED
    BY <2>2, <2>3, <2>7, <2>9 DEF IInv
<1>5. CASE Abort
  <2>1. request' = request /\ roll' = roll /\ phase' = phase /\ child' = child /\ timedOut' = timedOut /\ cancelled' = TRUE
    BY <1>5 DEF Abort
  <2>2. InFlight' = InFlight
    BY <2>1 DEF InFlight, Arms
  <2>3. child' \in [Arms -> {"none", "running", "terminated", "killed"}] /\ timedOut' \subseteq InFlight
    BY <1>1, <2>1 DEF TypeOK
  <2> QED
    BY <1>4, <2>1, <2>2, <2>3
<1>6. ASSUME NEW a \in Arms, Terminate(a) \/ Kill(a) PROVE IInv'
  <2>1. /\ request' = request /\ roll' = roll /\ phase' = phase /\ cancelled' = cancelled
        /\ child[a] # "none" /\ timedOut' \subseteq timedOut \cup {a}
    BY <1>6 DEF Terminate, Kill
  <2>2. child' \in [Arms -> {"none", "running", "terminated", "killed"}]
    BY <1>1, <1>6 DEF Terminate, Kill, TypeOK
  <2>3. \A b \in Arms : child'[b] # "none" <=> child[b] # "none"
    BY <1>1, <1>6 DEF Terminate, Kill, TypeOK
  <2>4. InFlight' = InFlight
    BY <2>1, <2>3 DEF InFlight, Arms
  <2>5. timedOut' \subseteq InFlight /\ cancelled \in BOOLEAN
    BY <1>1, <2>1 DEF TypeOK, InFlight
  <2> QED
    BY <1>4, <2>1, <2>2, <2>4, <2>5
<1>7. CASE UNCHANGED vars
  <2>1. InFlight' = InFlight
    BY <1>7 DEF vars, InFlight, Arms
  <2> QED
    BY <1>1, <1>4, <1>7, <2>1 DEF vars, TypeOK
<1> QED
  BY <1>2, <1>3, <1>5, <1>6, <1>7 DEF Next, Supervises

LEMMA Invariant == Spec => []IInv
<1>1. IInv /\ [Next]_vars => IInv'
  BY StepPreserves
<1> QED
  BY <1>1, InitOK, PTL DEF Spec

\* The scheduler's and the driver's state keep their types, and only a child
\* that runs is remembered as timed out (supervise_child).
THEOREM TypeCorrect == Spec => []TypeOK
BY Invariant, PTL DEF IInv

\* No arm is tried more often than its retries allow, in either rung, and none
\* that has answered is tried again (arm_terminal, arms_needing_dispatch).
THEOREM BudgetKept == Spec => []AttemptsBounded
<1>1. IInv => AttemptsBounded
  <2> SUFFICES ASSUME IInv, NEW r \in Rungs, NEW a \in Arms
               PROVE  /\ roll[r][a].attempts <= Tries
                      /\ r = Rung /\ child[a] # "none" => roll[r][a].attempts < Tries
    BY DEF AttemptsBounded
  <2>1. TypeOK /\ Counted /\ Needed
    BY DEF IInv
  <2>2. /\ roll[r][a].status \in Statuses /\ roll[r][a].attempts \in Nat
        /\ roll[r][a].status = "none" => roll[r][a].attempts = 0
        /\ roll[r][a].attempts <= Tries
    BY <2>1 DEF TypeOK, Counted
  <2>3. Tries \in Nat \ {0}
    BY <2>1, TriesPositive DEF TypeOK
  <2>4. r = Rung /\ child[a] # "none" => ~Terminal(r, a)
    BY <2>1 DEF Needed
  <2> QED
    BY <2>2, <2>3, <2>4 DEF Terminal, Statuses
<1> QED
  BY <1>1, Invariant, PTL

\* A batch that plan_batch calls done has brought every arm to one end and
\* left no child (batch_progress, plan_batch).
THEOREM DoneIsFull == Spec => []DoneIsComplete
BY Invariant, PTL DEF IInv

\* Types, budgets and the end of a batch together.
THEOREM Outcomes == Spec => []OutcomesHold
BY TypeCorrect, BudgetKept, DoneIsFull, PTL DEF OutcomesHold

\* Once rung 0 needs no arm, nothing is reported of it any more.
LEMMA RungZeroRests ==
    ASSUME IInv, [Next]_vars, NeedDispatch(0) = {}
    PROVE  request' = request /\ \A b \in Arms : roll'[0][b] = roll[0][b]
<1>1. ASSUME NEW a \in Arms, Exit(a) \/ Malformed(a)
      PROVE  request' = request /\ \A b \in Arms : roll'[0][b] = roll[0][b]
  <2>1. child[a] # "none"
    BY <1>1, Reports
  <2>2. PICK s \in Statuses, m \in Metrics \cup {Unscored} : Report(a, s, m)
    BY <1>1, Reports
  <2>3. ~Terminal(Rung, a)
    BY <2>1 DEF IInv, Needed
  <2>4. Rung # 0
    BY <2>3 DEF NeedDispatch
  <2> QED
    BY <2>2, <2>4, ReportChanges DEF IInv, Rungs
<1>2. CASE Plan
  BY <1>2 DEF Plan
<1>3. CASE Abort
  BY <1>3 DEF Abort
<1>4. ASSUME NEW a \in Arms, Supervises(a)
      PROVE  request' = request /\ \A b \in Arms : roll'[0][b] = roll[0][b]
  BY <1>1, <1>4 DEF Supervises, Terminate, Kill
<1>5. CASE UNCHANGED vars
  BY <1>5 DEF vars
<1> QED
  BY <1>2, <1>3, <1>4, <1>5 DEF Next

\* The barrier, computed anew by every plan, decides once: no answer, retry or
\* abort of rung 1 moves an arm across it (asha_barrier).
THEOREM BarrierDecidesOnce == Spec => BarrierStays
<1>1. IInv /\ [Next]_vars => (NeedDispatch(0) = {} => Kept' = Kept /\ Killed' = Killed)
  BY RungZeroRests, SameBarrier
<1>2. IInv /\ [Next]_vars => [NeedDispatch(0) = {} => Kept' = Kept /\ Killed' = Killed]_vars
  BY <1>1
<1> QED
  BY <1>2, Invariant, PTL DEF Spec, BarrierStays

\* After an abort no child is started, and none that still runs is reported as
\* a success (plan_batch, supervise_child).
THEOREM AbortedDrains == Spec => AbortDrains
<1> DEFINE Drains ==
      cancelled => /\ InFlight' \subseteq InFlight
                   /\ \A r \in Rungs, a \in Arms : roll'[r][a] # roll[r][a] => roll'[r][a].status # "ok"
<1>1. ASSUME IInv, [Next]_vars, cancelled
      PROVE  /\ InFlight' \subseteq InFlight
             /\ \A r \in Rungs, a \in Arms : roll'[r][a] # roll[r][a] => roll'[r][a].status # "ok"
  <2>1. CASE Plan
    <3>1. roll' = roll /\ request' = request /\ child' = child
      BY <1>1, <2>1 DEF Plan, Ends
    <3> QED
      BY <3>1 DEF InFlight, Arms
  <2>2. ASSUME NEW a \in Arms, Exit(a) \/ Malformed(a)
        PROVE  /\ InFlight' \subseteq InFlight
               /\ \A r \in Rungs, b \in Arms : roll'[r][b] # roll[r][b] => roll'[r][b].status # "ok"
    <3>1. PICK s \in Statuses, m \in Metrics \cup {Unscored} : Report(a, s, m) /\ s # "ok"
      BY <1>1, <2>2, Reports
    <3>0. TypeOK
      BY <1>1 DEF IInv
    <3>2. /\ request' = request
          /\ \A r \in Rungs, b \in Arms :
                roll'[r][b] = IF r = Rung /\ b = a
                              THEN [status |-> s, attempts |-> roll[r][b].attempts + 1, metric |-> m]
                              ELSE roll[r][b]
          /\ \A b \in Arms : child'[b] = IF b = a THEN "none" ELSE child[b]
      BY <3>0, <3>1, ReportChanges
    <3>3. InFlight' \subseteq InFlight
      BY <3>2 DEF InFlight, Arms
    <3>4. ASSUME NEW r \in Rungs, NEW b \in Arms, roll'[r][b] # roll[r][b]
          PROVE  roll'[r][b].status # "ok"
      <4>1. roll'[r][b] = [status |-> s, attempts |-> roll[r][b].attempts + 1, metric |-> m]
        BY <3>2, <3>4
      <4> QED
        BY <3>1, <4>1
    <3> QED
      BY <3>3, <3>4
  <2>3. ASSUME NEW a \in Arms, Terminate(a) \/ Kill(a)
        PROVE  roll' = roll /\ InFlight' \subseteq InFlight
    BY <1>1, <2>3 DEF Terminate, Kill, InFlight, Arms, IInv, TypeOK
  <2>4. CASE Abort \/ UNCHANGED vars
    BY <2>4 DEF Abort, vars, InFlight, Arms
  <2> QED
    BY <1>1, <2>1, <2>2, <2>3, <2>4 DEF Next, Supervises
<1>2. IInv /\ [Next]_vars => [Drains]_vars
  BY <1>1
<1> QED
  BY <1>2, Invariant, PTL DEF Spec, AbortDrains

----------------------------------------------------------------------------
(* Who is killed at the barrier.                                            *)

\* Only arms above the barrier are dispatched to rung 1, and answer there.
Entered ==
    \A a \in Arms :
        /\ roll[1][a].status # "none" => NeedDispatch(0) = {} /\ a \in Kept
        /\ phase = "rung1" /\ child[a] # "none" => a \in Kept

LEMMA EnteredStays ==
    ASSUME IInv, Entered, [Next]_vars
    PROVE  Entered'
<1>0. TypeOK /\ Needed /\ 0 \in Rungs /\ 1 \in Rungs
  BY DEF IInv, Rungs
<1>1. NeedDispatch(0) = {} => /\ Arms' = Arms /\ Kept' = Kept
                              /\ NeedDispatch(0)' = {}
  <2>1. NeedDispatch(0) = {} => request' = request /\ \A b \in Arms : roll'[0][b] = roll[0][b]
    BY RungZeroRests
  <2> QED
    BY <1>0, <2>1, SameBarrier, SameRolls
<1>2. phase = "rung1" => NeedDispatch(0) = {}
  BY <1>0 DEF Needed
<1>3. ASSUME request' = request, \A a \in Arms : roll'[1][a] = roll[1][a],
             \A a \in Arms : phase' = "rung1" /\ child'[a] # "none" => phase = "rung1" /\ child[a] # "none"
      PROVE  Entered'
  <2>1. Arms' = Arms
    BY <1>3 DEF Arms
  <2>2. ASSUME NEW a \in Arms, roll'[1][a].status # "none"
        PROVE  NeedDispatch(0)' = {} /\ a \in Kept'
    BY <1>1, <1>3, <2>2 DEF Entered
  <2>3. ASSUME NEW a \in Arms, phase' = "rung1", child'[a] # "none"
        PROVE  a \in Kept'
    BY <1>1, <1>2, <1>3, <2>3 DEF Entered
  <2> QED
    BY <2>1, <2>2, <2>3 DEF Entered
<1>4. CASE Plan
  <2>1. request' = request /\ roll' = roll /\ Arms' = Arms
    BY <1>4 DEF Plan, Arms
  <2>2. CASE Dispatch(1) /\ Pending(0) = {}
    <3>1. NeedDispatch(0) = {}
      BY <2>2 DEF Pending
    <3>2. \A a \in Arms : child'[a] # "none" => a \in Kept
      BY <2>2 DEF Dispatch, Head, Pending
    <3> QED
      BY <1>1, <2>1, <3>1, <3>2 DEF Entered
  <2>3. CASE Dispatch(0)
    BY <1>3, <2>1, <2>3 DEF Dispatch
  <2>4. ASSUME NEW p \in {"cancelled", "done"}, Ends(p) PROVE Entered'
    BY <1>3, <2>1, <2>4 DEF Ends
  <2> QED
    BY <1>4, <2>2, <2>3, <2>4 DEF Plan
<1>5. ASSUME NEW a \in Arms, Exit(a) \/ Malformed(a) PROVE Entered'
  <2>1. child[a] # "none"
    BY <1>5, Reports
  <2>2. PICK s \in Statuses, m \in Metrics \cup {Unscored} : Report(a, s, m)
    BY <1>5, Reports
  <2>3. /\ request' = request /\ phase' = phase
        /\ \A r \in Rungs, b \in Arms : ~(r = Rung /\ b = a) => roll'[r][b] = roll[r][b]
        /\ \A b \in Arms : child'[b] = IF b = a THEN "none" ELSE child[b]
    <3>1. /\ \A r \in Rungs, b \in Arms :
                roll'[r][b] = IF r = Rung /\ b = a
                              THEN [status |-> s, attempts |-> roll[r][b].attempts + 1, metric |-> m]
                              ELSE roll[r][b]
          /\ \A b \in Arms : child'[b] = IF b = a THEN "none" ELSE child[b]
          /\ request' = request /\ phase' = phase
      BY <1>0, <2>2, ReportChanges
    <3>2. \A r \in Rungs, b \in Arms : ~(r = Rung /\ b = a) => roll'[r][b] = roll[r][b]
      BY <3>1
    <3> QED
      BY <3>1, <3>2
  <2>4. CASE Rung = 0
    BY <1>0, <1>3, <2>3, <2>4
  <2>5. CASE Rung = 1
    <3>1. phase = "rung1"
      BY <2>5 DEF Rung
    <3>2. Arms' = Arms /\ Kept' = Kept /\ NeedDispatch(0)' = {} /\ a \in Kept
      BY <1>1, <1>2, <2>1, <3>1 DEF Entered
    <3>3. \A b \in Arms : roll'[1][b].status # "none" => b \in Kept
      BY <1>0, <2>3, <3>2 DEF Entered
    <3>4. \A b \in Arms : child'[b] # "none" => b \in Kept
      BY <2>3, <3>1 DEF Entered
    <3> QED
      BY <3>2, <3>3, <3>4 DEF Entered
  <2> QED
    BY <2>4, <2>5 DEF Rung
<1>6. CASE Abort
  BY <1>3, <1>6 DEF Abort
<1>7. ASSUME NEW a \in Arms, Terminate(a) \/ Kill(a) PROVE Entered'
  BY <1>0, <1>3, <1>7 DEF Terminate, Kill, TypeOK
<1>8. CASE UNCHANGED vars
  BY <1>3, <1>8 DEF vars
<1> QED
  BY <1>4, <1>5, <1>6, <1>7, <1>8 DEF Next, Supervises

\* The scored arms are in a strict total order.
LEMMA ScoredIs ==
    ASSUME TypeOK
    PROVE  /\ Scored \subseteq Arms /\ Arms \subseteq Nat /\ IsFiniteSet(Scored)
           /\ \A a \in Scored : Score(a) \in Nat /\ Tie(a) \in Nat
           /\ \A S \in SUBSET Scored : IsFiniteSet(S) /\ Cardinality(S) \in Nat
<1>1. request.arm_count \in Nat
  BY TriesPositive DEF TypeOK
<1>2. IsFiniteSet(Arms) /\ Arms \subseteq Nat
  BY <1>1, FS_Interval DEF Arms
<1>3. Scored \subseteq Arms
  BY DEF Scored
<1>4. \A a \in Scored : Score(a) \in Nat /\ Tie(a) \in Nat
  <2> TAKE a \in Scored
  <2>1. roll[0][a].metric \in Metrics
    BY <1>3 DEF TypeOK, Scored, Rungs
  <2> QED
    BY <2>1, SchedulerAssumption DEF Score, Tie
<1>5. IsFiniteSet(Scored)
  BY <1>2, <1>3, FS_Subset
<1>6. \A S \in SUBSET Scored : IsFiniteSet(S) /\ Cardinality(S) \in Nat
  BY <1>5, FS_Subset, FS_CardinalityType
<1> QED
  BY <1>2, <1>3, <1>4, <1>5, <1>6

LEMMA BetterOrders ==
    ASSUME TypeOK
    PROVE  /\ \A a \in Scored : ~Better(a, a)
           /\ \A a, b \in Scored : a = b \/ Better(a, b) \/ Better(b, a)
           /\ \A a, b, c \in Scored : Better(a, b) /\ Better(b, c) => Better(a, c)
<1>1. \A a \in Scored : a \in Nat /\ Score(a) \in Nat /\ Tie(a) \in Nat
  BY ScoredIs
<1> QED
  BY <1>1 DEF Better

\* Who is better has the smaller rank.
LEMMA RanksOrder ==
    ASSUME TypeOK, NEW a \in Scored, NEW b \in Scored, Better(b, a)
    PROVE  Rank(b) < Rank(a) /\ Rank(b) \in Nat /\ Rank(a) \in Nat
<1> DEFINE over(c) == {d \in Scored : Better(d, c)}
<1>1. over(b) \in SUBSET over(a) /\ b \in over(a) /\ b \notin over(b)
  BY BetterOrders
<1>2. over(a) \in SUBSET Scored /\ over(b) \in SUBSET Scored
  OBVIOUS
<1>3. IsFiniteSet(over(a)) /\ Cardinality(over(a)) \in Nat /\ Cardinality(over(b)) \in Nat
  BY <1>2, ScoredIs
<1>4. Rank(a) = Cardinality(over(a)) /\ Rank(b) = Cardinality(over(b))
  BY DEF Rank
<1> HIDE DEF over
<1>5. /\ Cardinality(over(b)) <= Cardinality(over(a))
      /\ Cardinality(over(a)) = Cardinality(over(b)) => over(a) = over(b)
  BY <1>1, <1>3, FS_Subset
<1> QED
  BY <1>1, <1>3, <1>4, <1>5

\* A set of naturals has a least element.
LEMMA LeastNatural ==
    ASSUME NEW T \in SUBSET Nat, T # {}
    PROVE  \E x \in T : \A y \in T : x <= y
<1>1. PICK x \in T : \A y \in T : ~(<<y, x>> \in OpToRel(<, Nat))
  BY NatLessThanWellFounded, WFMin
<1>2. \A y \in T : ~(y < x)
  BY <1>1 DEF OpToRel
<1> QED
  BY <1>2

\* An arm that is out by its rank is beaten by RankKeep arms that are in: those
\* before the best of all that are out.
LEMMA BeatenByTheKept ==
    ASSUME TypeOK, NEW a \in Scored, ~(Rank(a) < RankKeep), RankKeep \in Nat
    PROVE  /\ Cardinality({b \in Kept : Better(b, a)}) \in Nat
           /\ Cardinality({b \in Kept : Better(b, a)}) >= RankKeep
<1> DEFINE out == {b \in Scored : ~(Rank(b) < RankKeep)}
           over(c) == {d \in Scored : Better(d, c)}
<1>1. \A b \in Scored : over(b) \in SUBSET Scored /\ Rank(b) = Cardinality(over(b))
  BY DEF Rank
<1>2. \A b \in Scored : Rank(b) \in Nat
  BY <1>1, ScoredIs
<1>3. \E x \in out : \A y \in out : Rank(x) <= Rank(y)
  <2>1. {Rank(b) : b \in out} \in SUBSET Nat /\ {Rank(b) : b \in out} # {}
    BY <1>2
  <2>2. PICK n \in {Rank(b) : b \in out} : \A m \in {Rank(b) : b \in out} : n <= m
    BY <2>1, LeastNatural
  <2> QED
    BY <2>2
<1>4. PICK x \in Scored : ~(Rank(x) < RankKeep) /\ \A y \in out : Rank(x) <= Rank(y)
  BY <1>3
<1>5. Rank(x) \in Nat /\ Rank(a) \in Nat /\ Rank(x) <= Rank(a)
  BY <1>2, <1>4
<1>6. Rank(x) >= RankKeep
  <2> HIDE DEF out, over
  <2> QED
    BY <1>4, <1>5
<1>7. over(x) \subseteq {b \in Kept : Better(b, a)}
  <2> SUFFICES ASSUME NEW b \in Scored, Better(b, x) PROVE b \in Kept /\ Better(b, a)
    OBVIOUS
  <2>1. Rank(b) < Rank(x) /\ Rank(b) \in Nat
    BY RanksOrder
  <2>2. Rank(b) < RankKeep
    <3>1. b \in out => Rank(x) <= Rank(b)
      BY <1>4
    <3>2. b \notin out
      <4> HIDE DEF out, over
      <4> QED
        BY <1>5, <2>1, <3>1
    <3> QED
      BY <3>2
  <2>3. b \in Kept
    BY <2>2 DEF Kept
  <2>4. ~Better(a, x)
    <3> HIDE DEF out, over
    <3>1. Better(a, x) => Rank(a) < Rank(x)
      BY RanksOrder
    <3> QED
      BY <1>5, <3>1
  <2>5. x = a \/ Better(x, a)
    BY <2>4, BetterOrders
  <2>6. Better(b, a)
    BY <2>5, BetterOrders
  <2> QED
    BY <2>3, <2>6
<1>8. {b \in Kept : Better(b, a)} \in SUBSET Scored
  BY DEF Kept
<1>9. /\ IsFiniteSet({b \in Kept : Better(b, a)})
      /\ Cardinality({b \in Kept : Better(b, a)}) \in Nat
  BY <1>8, ScoredIs
<1>10. Cardinality(over(x)) <= Cardinality({b \in Kept : Better(b, a)})
  BY <1>7, <1>9, FS_Subset
<1>11. Rank(x) = Cardinality(over(x))
  BY <1>1
<1> HIDE DEF out, over
<1> QED
  BY <1>5, <1>6, <1>9, <1>10, <1>11

\* A quotient that is rounded up.
LEMMA RoundedUp ==
    ASSUME NEW m \in Nat, NEW d \in Nat \ {0}
    PROVE  ((m + d - 1) \div d) \in Nat /\ ((m + d - 1) \div d) * d >= m
<1>1. PICK n \in Nat : n = m + d - 1
  OBVIOUS
<1>2. (n \div d) \in Nat /\ n % d \in 0..(d - 1) /\ n = d * (n \div d) + (n % d)
  OBVIOUS
<1>3. PICK q \in Nat : q = n \div d
  BY <1>2
<1>4. PICK p \in Int : p = d * q /\ p = q * d
  OBVIOUS
<1>5. p >= m
  BY <1>1, <1>2, <1>3, <1>4
<1> QED
  BY <1>1, <1>3, <1>4, <1>5

LEMMA ProductGrows ==
    ASSUME NEW p \in Nat, NEW q \in Nat, NEW d \in Nat, p >= q
    PROVE  p * d >= q * d
<1>1. PICK k \in Nat : p = q + k
  <2>1. p - q \in Nat /\ p = q + (p - q)
    OBVIOUS
  <2> QED
    BY <2>1
<1>2. (q + k) * d = q * d + k * d /\ q * d \in Nat /\ k * d \in Nat
  OBVIOUS
<1> QED
  BY <1>1, <1>2

\* How many the barrier keeps by rank.
LEMMA KeepsEnough ==
    ASSUME TypeOK, NEW before \in Nat
    PROVE  /\ RankKeep \in Nat
           /\ before >= RankKeep => /\ before >= KeepFloor
                                    /\ before * KeepDen >= Cardinality(Scored) * KeepNum
<1>1. PICK s \in Nat : s = Cardinality(Scored)
  BY ScoredIs
<1>2. s * KeepNum \in Nat
  BY SchedulerAssumption
<1>3. PICK m \in Nat : m = Cardinality(Scored) * KeepNum
  BY <1>1, <1>2
<1>4. KeepDen \in Nat \ {0}
  BY SchedulerAssumption
<1>5. PICK q \in Nat : q = (m + KeepDen - 1) \div KeepDen /\ q * KeepDen >= m
  BY <1>4, RoundedUp
<1>6. KeepFloor \in Nat
  BY SchedulerAssumption DEF KeepFloor, Concurrency, Larger, TypeOK
<1>7. RankKeep = Larger(KeepFloor, q)
  BY <1>3, <1>5 DEF RankKeep
<1>8. RankKeep \in Nat /\ RankKeep >= KeepFloor /\ RankKeep >= q
  BY <1>6, <1>7 DEF Larger
<1>9. ASSUME before >= RankKeep
      PROVE  before >= KeepFloor /\ before * KeepDen >= Cardinality(Scored) * KeepNum
  <2>1. before >= KeepFloor /\ before >= q
    BY <1>6, <1>8, <1>9
  <2>2. before * KeepDen >= q * KeepDen
    BY <1>4, <2>1, ProductGrows
  <2>3. before * KeepDen \in Nat /\ q * KeepDen \in Nat
    BY <1>4
  <2>4. before * KeepDen >= m
    BY <1>5, <2>2, <2>3
  <2> QED
    BY <1>3, <2>1, <2>4
<1> QED
  BY <1>8, <1>9

\* The barrier is fair: whoever is killed there is beaten by as many survivors
\* as are kept by rank, is below the guard bar, and never enters rung 1
\* (asha_barrier, plan_batch).
THEOREM BarrierFair == Spec => []BarrierIsFair
<1>1. Init => Entered
  BY DEF Init, Entered, NoOutcome, Rungs
<1>2. IInv /\ Entered /\ [Next]_vars => Entered'
  BY EnteredStays
<1>3. IInv /\ Entered => BarrierIsFair
  <2> SUFFICES ASSUME IInv, Entered, NEW a \in Killed
               PROVE  /\ LET before == Cardinality({b \in Kept : Better(b, a)}) IN
                         before >= KeepFloor /\ before * KeepDen >= Cardinality(Scored) * KeepNum
                      /\ ~AboveBar(a)
    BY DEF BarrierIsFair, Entered
  <2>1. TypeOK
    BY DEF IInv
  <2>2. a \in Scored /\ ~(Rank(a) < RankKeep) /\ ~AboveBar(a)
    BY DEF Killed, Kept
  <2>3. RankKeep \in Nat
    BY <2>1, KeepsEnough
  <2>4. PICK before \in Nat : before = Cardinality({b \in Kept : Better(b, a)}) /\ before >= RankKeep
    BY <2>1, <2>2, <2>3, BeatenByTheKept
  <2>5. before >= KeepFloor /\ before * KeepDen >= Cardinality(Scored) * KeepNum
    BY <2>1, <2>4, KeepsEnough
  <2> QED
    BY <2>2, <2>4, <2>5
<1> QED
  BY <1>1, <1>2, <1>3, Invariant, PTL DEF Spec

=============================================================================
