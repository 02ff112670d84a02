SPECIFICATION Spec
CONSTANTS
  t1 = t1
  t2 = t2
  t3 = t3
  Threads = {t1, t2, t3}
  None = None
  Programs <- AllPrograms
  Priority <- HighPriority
INVARIANTS
  MutualExclusion
  NoWaiterIsForgotten
  ConditionHoldsOnReturn

  
\* Programs end.
CHECK_DEADLOCK FALSE
