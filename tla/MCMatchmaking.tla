---------------------------- MODULE MCMatchmaking ----------------------------
(* Small instances of Matchmaking.                                          *)
EXTENDS Matchmaking

Symmetric == Permutations(Users) \cup Permutations(Calls)
=============================================================================
