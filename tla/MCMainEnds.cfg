CONSTANTS
  Workers = {w1}
  Slots = {i1}
  MaxSockets = 1
  MaxQueued = 2
SPECIFICATION FairSpec
PROPERTY MainEnds
CHECK_DEADLOCK FALSE
