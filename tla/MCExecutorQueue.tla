------------------------- MODULE MCExecutorQueue -------------------------
(* Model-checking instance of ExecutorQueue.                               *)
EXTENDS ExecutorQueue, TLC

CONSTANTS t1, t2, t3

\* Nothing orders the ids, so they may be exchanged in the safety runs.
TaskSymmetry == Permutations(TaskIds)
=============================================================================
