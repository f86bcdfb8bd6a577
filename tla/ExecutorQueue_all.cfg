\* Every call, in every order.
SPECIFICATION Spec
CONSTANTS
  t1 = t1
  t2 = t2
  t3 = t3
  NoTask = NoTask
  TaskIds = {t1, t2, t3}
  MaxObjs = 4
  MAX_QUEUE_DEPTH = 2
  Limits = {0, 2}
  CancelAllAtRunTime = TRUE
  ResumeUnsettled = TRUE
  RunnerMissing = TRUE
SYMMETRY TaskSymmetry
INVARIANTS
  SlotsCounted
\* every task may end: a quiet queue is a legal end
CHECK_DEADLOCK FALSE
