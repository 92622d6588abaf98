CONSTANTS
  small = small
  large = large
  Producers = {p1, p2}
  Consumers = {c1, c2}
  Messages = {small, large}
  NodesOf <- OneOrTwoNodes
  NoMessage = NoMessage
  Garbled = Garbled
  Free = Free
  m_iMaxSize = 3
  MaxSpurious = 1
  MaxKills = 1
  MayShutdown = TRUE
SPECIFICATION FairSpec
INVARIANTS TypeOK LostOnlyByKill SleepersMissedBroadcast
PROPERTIES ImplementsFifo OldestIsTaken SomeProducerGoesOn ShutdownEnds
CHECK_DEADLOCK FALSE
