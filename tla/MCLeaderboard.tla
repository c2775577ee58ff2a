--------------------------- MODULE MCLeaderboard ----------------------------
(* Small instances of Leaderboard.                                         *)
EXTENDS Leaderboard, TLC
=============================================================================
