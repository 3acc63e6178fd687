CONSTANTS
  Slots = {1}
  Workers = {w1, w2}
  Acceptor = acceptor
  Game = game
  MaxConns = 2
SYMMETRY Symmetric
SPECIFICATION Spec
INVARIANT TypeOK
INVARIANT OneHolderPerIndex
INVARIANT NothingCrosses
INVARIANT EventsMatchSessions
INVARIANT RecvQueueHasOneThread
