\* Shutdowns, crashes and restores.
SPECIFICATION Spec
CONSTANTS
  alpha = alpha
  backtest = backtest
  manager = manager
  k1 = k1
  k2 = k2
  Callers = {manager}
  Awaiting <- AwaitingCallers
  Priority <- CallerPriority
  Keys = {k1}
  MaxTasks = 3
  MaxReqs = 1
  MaxRestarts = 2
  MAX_CONCURRENT = 2
  MAX_TASK_RETRIES = 2
  ForceChoices = {TRUE, FALSE}
  SameCallerTwice = FALSE
  ClearAllUsed = TRUE
  ShutdownUsed = TRUE

INVARIANT
  RestoresWhatWas
PROPERTY
  ShutdownKeepsRows
\* a queue with nothing to do is a legal end
CHECK_DEADLOCK FALSE
