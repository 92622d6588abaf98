CONSTANTS
  Producers = {p1, p2}
  Consumers = {c1, c2}
  Items = {a, b}
  NoItem = NoItem
  size = 2
SPECIFICATION FairSpec
INVARIANTS TypeOK RingConsistent MutualExclusion NoSlotRace
PROPERTIES ImplementsFifo EveryObjectTaken EnqueueProgress
