CONSTANTS
  Workers = {w1, w2}
  Slots = {i1}
  MaxSockets = 2
  MaxQueued = 2
SPECIFICATION FairSpec
INVARIANT TypeOK
INVARIANT PortOutlivesThreads
INVARIANT ClosesAllButTheNewest
PROPERTY EndsWhenDestroyed
CHECK_DEADLOCK FALSE
