------------------------- MODULE MCSweepScheduler -------------------------
(* The sweep scheduler on small batches: halving with and without a guard  *)
(* bar, a batch too small to lose an arm, and the plain pool.              *)
EXTENDS SweepScheduler

CONSTANTS noBar

Batch(n, c, asha, retries, bar) ==
    [arm_count |-> n, concurrency |-> c, asha_kill |-> asha, max_retries |-> retries, guard_bar |-> bar]

MCRequests == {Batch(4, 0, TRUE, 1, 2), Batch(3, 1, TRUE, 2, noBar),
               Batch(2, 2, TRUE, 2, noBar), Batch(3, 2, FALSE, 2, noBar)}
MCMetrics == {[score |-> 1, tie |-> 0], [score |-> 2, tie |-> 0], [score |-> 2, tie |-> 1]}
=============================================================================
