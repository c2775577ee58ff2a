----------------------- MODULE MCTournamentLifecycle ------------------------
(* Small instances of TournamentLifecycle, and what the repository's text   *)
(* says of it.                                                              *)
EXTENDS TournamentLifecycle, TLC

Symmetric == Permutations(Users) \cup Permutations(Passes) \cup Permutations(Calls)

(* README.md:81-82: the scheduler completes a tournament "under a Redis      *)
(* distributed lock", so its winners are paid once.                         *)
PrizesOnce == \A t \in Tournaments, u \in Users : prizes[t][u] <= 1
=============================================================================
