SPECIFICATION UnbrokenSpec
CONSTANTS
  t0 = t0 t1 = t1 t2 = t2 t3 = t3
  p0 = p0 p1 = p1 p2 = p2
  Task <- MCTask
  Proc <- MCProc
  Idle = idle
  NoTask = notask
  NoProc = noproc
  InitTask = t0
  InitProc = p0
  SchedulePeriod = 1
  SLEEP_QUEUE_MAX = 2
  MaxPid = 3
  MaxDelay = 1
  Careless = {"orphan", "wait", "listen"}
SYMMETRY Symmetry
INVARIANTS PickNextReturns OwnersAllocated OneRing BlockedExact SleepersOnTime
PROPERTY UsesScheduler
CHECK_DEADLOCK FALSE
