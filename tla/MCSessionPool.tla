--------------------------- MODULE MCSessionPool ---------------------------
(* Constants for model checking SessionPool: the IOCP workers all run the  *)
(* same WorkerThread, so they may be exchanged for one another.            *)
EXTENDS SessionPool, TLC

Symmetric == Permutations(Workers)
=============================================================================
