SPECIFICATION FairSpec
CONSTANTS
  t1 = t1
  t2 = t2
  i1 = i1
  i2 = i2
  c1 = c1
  c2 = c2
  NoInstance = NoInstance
  Tasks <- OneTask
  Instances <- TwoInstances
  Clients <- OneClient
  Crons <- TwoCrons
  Faults <- AllFaults
  MaxConcurrentTasks = 1
  MaxTime = 2
  MaxDowns = 1
INVARIANTS
  TypeOK
  ScheduledIffEnabled
PROPERTIES
  
  DuePointsFire
