-------------------------- MODULE MCRewardPipeline --------------------------
(* Small instances of RewardPipeline, and what the repository's text says   *)
(* of it.                                                                   *)
EXTENDS RewardPipeline, TLC

CONSTANTS r1, r2, s1, s2, c1, c2, i1, i2

OneHost  == [s \in Slots |-> i1]
TwoHosts == (s1 :> i1) @@ (s2 :> i2)

\* Two slots of one host, and two calls, are interchangeable.
SlotSymmetry == Permutations(Slots) \cup Permutations(Calls)

(* reward.service.ts:112: "re-queue any reward that was left in a          *)
(* non-terminal state without an active BullMQ job (e.g. after a worker    *)
(* crash mid-processing)": a reward whose run died is settled in the end.  *)
CrashedRewardRecovered ==
    \A r \in Rewards :
        (status[r] = "PROCESSING" /\ Holders(r) = {})
            ~> status[r] \in {"SUCCEEDED", "FAILED"}
=============================================================================
