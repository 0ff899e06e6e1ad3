SPECIFICATION Spec
CONSTANTS
  t1 = t1
  t2 = t2
  i1 = i1
  i2 = i2
  c1 = c1
  c2 = c2
  NoInstance = NoInstance
  Tasks <- OneTask
  Instances <- OneInstance
  Clients <- OneClient
  Crons <- TwoCrons
  Faults <- NoFaults
  MaxConcurrentTasks = 1
  MaxTime = 2
  MaxDowns = 1
CHECK_DEADLOCK FALSE
INVARIANT MissedPointsSkipped
