CONSTANTS
  a = a
  b = b
  Conns = {a, b}
  EpollThreads = {e1, e2}
  NoTask = NoTask
  queueSize = 1
  fdQueueSize = 2
  Loads <- TwoOrOneBusy
SPECIFICATION FairSpec
INVARIANTS TypeOK OneHolder TasksConserved OnlyDirectOvertakes ClosedInOrder
PROPERTIES StaysDeleted EveryLineAnswered
CHECK_DEADLOCK FALSE
