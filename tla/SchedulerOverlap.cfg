SPECIFICATION Spec
CONSTANTS
  t1 = t1
  t2 = t2
  t3 = t3
  c1 = c1
  none = none
  NoTask = none
  Tasks <- OneTask
  Clients <- OneClient
  Ops = {"trigger"}
  Faults = {}
  MaxConcurrentTasks = 2
  MaxRetries = 1
  MaxRuns = 2
INVARIANTS
  OneRunPerTask
