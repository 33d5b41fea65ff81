SPECIFICATION MCSpec
CONSTANTS
  t0 = t0 t1 = t1 t2 = t2 t3 = t3
  p0 = p0 p1 = p1 p2 = p2
  Task <- MCTask3
  Proc <- MCProc
  Idle = idle
  NoTask = notask
  NoProc = noproc
  InitTask = t0
  InitProc = p0
  SchedulePeriod = 2
  SLEEP_QUEUE_MAX = 2
  MaxPid = 4
  MaxDelay = 2
  Careless = {"orphan"}
  Count = 3
  Wired = {2, 3}
  Sockets = 2
  QueueSize = 2
  Tries = 2
  Lease = {10}
INVARIANT LeaseGranted
PROPERTIES MCNoStarvation MCSleepEnds MCServiceEnds
CHECK_DEADLOCK FALSE
