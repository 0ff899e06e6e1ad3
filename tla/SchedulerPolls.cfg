SPECIFICATION Spec
CONSTANTS
  t1 = t1
  t2 = t2
  t3 = t3
  c1 = c1
  none = none
  NoTask = none
  Tasks <- ThreeTasks
  Clients = {}
  Ops = {"cancel"}
  Faults = {}
  MaxConcurrentTasks = 2
  MaxRetries = 0
  MaxRuns = 3
SYMMETRY TaskSymmetry
INVARIANTS
  OneRunPerTask
  SlotsRespected
