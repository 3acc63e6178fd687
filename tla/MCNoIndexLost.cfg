CONSTANTS
  Slots = {1, 2}
  Workers = {w1}
  Acceptor = acceptor
  Game = game
  MaxConns = 2
SPECIFICATION Spec
INVARIANT NoIndexLost
