---------------------------- MODULE MCGameServer ----------------------------
(***************************************************************************)
(* GameServer for TLC: players are interchangeable, and so are titles.     *)
(***************************************************************************)
EXTENDS GameServer

Symmetric == Permutations(Players) \cup Permutations(Titles)
=============================================================================
