-------------------------- MODULE TournamentLedger --------------------------
(***************************************************************************)
(* What the backend promises about the outcome of every tournament,        *)
(* whoever joins, leaves, edits and cancels, and however often the         *)
(* scheduler runs, fails or dies: it is decided at most once and in one    *)
(* step, which gives one prize each to the users on four places and makes  *)
(* the one on the first the winner.  The promise ends for all tournaments  *)
(* together when a lock lapses under a running pass.                       *)
(***************************************************************************)
EXTENDS Naturals

CONSTANTS Tournaments, Users, None

VARIABLES
    outcome,    \* the winner and the number of prizes of each user
    void        \* whether the promise has ended

Undecided == [winner |-> None, prizes |-> [u \in Users |-> 0]]

Init == outcome = [t \in Tournaments |-> Undecided] /\ void = FALSE

Decide(t, prized, champion) ==
    /\ outcome[t] = Undecided
    /\ champion \in prized
    /\ \E place \in [prized -> 1 .. 4] :
        /\ place[champion] = 1
        /\ \A u, v \in prized : place[u] = place[v] => u = v
    /\ outcome' = [outcome EXCEPT ![t] =
            [winner |-> champion,
             prizes |-> [u \in Users |-> IF u \in prized THEN 1 ELSE 0]]]
    /\ UNCHANGED void

End == void' = TRUE

Next ==
    \/ ~ void /\ \E t \in Tournaments, prized \in SUBSET Users, champion \in Users :
                    Decide(t, prized, champion)
    \/ End

Spec == Init /\ [][Next]_<<outcome, void>>
=============================================================================
