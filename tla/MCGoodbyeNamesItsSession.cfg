CONSTANTS
  Slots = {1}
  Workers = {w1, w2}
  Acceptor = acceptor
  Game = game
  MaxConns = 2
SPECIFICATION Spec
INVARIANT GoodbyeNamesItsSession
