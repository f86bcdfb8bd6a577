------------------------ MODULE MCDownloadQueue ------------------------
(* Model-checking instance of DownloadQueue: the Alpha Factory (critical)   *)
(* and a backtest (normal) wait for their data, the Data Manager page       *)
(* (background) only enqueues.                                              *)
EXTENDS DownloadQueue, TLC

CONSTANTS alpha, backtest, manager, k1, k2

\* CALLER_PRIORITY in ipc/data-handlers.ts
CallerPriority ==
    [c \in Callers |-> CASE c = alpha -> 3 [] c = backtest -> 2 [] c = manager -> 1]

AwaitingCallers == Callers \ {manager}

\* Nothing tells the series apart.
KeySymmetry == Permutations(Keys)
=============================================================================
