CONSTANTS
  task = task
  parent = parent
  Producers = {parent}
  Consumers = {c1, c2}
  Messages = {task}
  NodesOf <- OneNode
  NoMessage = NoMessage
  Garbled = Garbled
  Free = Free
  m_iMaxSize = 3
  MaxSpurious = 0
  MaxKills = 2
  MayShutdown = TRUE
  MaxPrograms = 3
  MaxFaults = 1
SPECIFICATION FairPool
INVARIANTS KeyFreed
PROPERTIES TeardownEnds
CHECK_DEADLOCK FALSE
