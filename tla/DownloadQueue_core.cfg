\* Requests, cancels, preemption and ageing, without restarts.
SPECIFICATION Spec
CONSTANTS
  alpha = alpha
  backtest = backtest
  manager = manager
  k1 = k1
  k2 = k2
  Callers = {alpha, backtest, manager}
  Awaiting <- AwaitingCallers
  Priority <- CallerPriority
  Keys = {k1, k2}
  MaxTasks = 2
  MaxReqs = 2
  MaxRestarts = 0
  MAX_CONCURRENT = 1
  MAX_TASK_RETRIES = 2
  ForceChoices = {FALSE}
  SameCallerTwice = FALSE
  ClearAllUsed = FALSE
  ShutdownUsed = FALSE

INVARIANT
  OneTaskPerSeries
PROPERTIES
  HighestStartsFirst
  ImplementsPool
  EveryCallerAnswered
\* a queue with nothing to do is a legal end
CHECK_DEADLOCK FALSE
