CONSTANTS
  Clients = {c1, c2, c3}
  Workers = {w1, w2}
  Fds = {4, 5}
  NoFd = NoFd
  Nobody = Nobody
  MaxFaults = 1
  MaxSpurious = 1
SPECIFICATION FairSpec
INVARIANTS OneHolderPerFd OwnAnswerOnce
PROPERTY EveryCommandAnswered
CHECK_DEADLOCK FALSE
