SPECIFICATION FairSpec
CONSTANTS
  e1 = e1
  e2 = e2
  r1 = r1
  r2 = r2
  Executions <- TwoExecutions
  Readers <- TwoReaders
  HistorySize = 2
  MaxExecutions = 1
  QueueSize = 1
  MaxEvents = 3
INVARIANTS
  TypeOK
  HistoryUnbroken
  FramesOrdered
  NothingMissed
  KickedReadersAreTold
  LiveHistoriesRetained
  CapacityRespected
PROPERTIES
  StreamEnds
