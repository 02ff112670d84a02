SPECIFICATION Spec
CONSTANTS
  Callers = {t1, t2, t3}
  MaxCalls = 2
  MaxRounds = 1
  WaitBits = 2
  Readings = {0, 4}
  Posters = {t1, t2}
  MaxPosts = 3
  MaxTokens = 3
  kIdlePeriods = 2
  Waiters = {t1, t2, t3}
  Notifier = t4
  Destroyer = t1
  Workers = {t2, t3, t4}
  Waiter = t1
  initial_count = 5
  Participants = {t1, t2, t3, t4}
  NoThread = NoThread
INVARIANTS
  NoWakeUpIsLost
  MutualExclusion
  NotUsedAfterDestruction
  ResultsAreTrue
PROPERTIES
  ImplementsOnce
  ImplementsSemaphore
  CallsReturn
\* Threads stop after their last call, objects are destroyed.
CHECK_DEADLOCK FALSE
