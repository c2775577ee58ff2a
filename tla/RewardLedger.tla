---------------------------- MODULE RewardLedger ----------------------------
(***************************************************************************)
(* What the reward pipeline promises about every reward, whatever happens  *)
(* to its jobs: it is owed, claimed, credited and settled in this order,   *)
(* and credited by one step only.  A retry takes it off this path and is   *)
(* worth one more credit: credits are counted, so that none goes unseen.   *)
(***************************************************************************)
EXTENDS Naturals

CONSTANT Rewards

VARIABLES
    phase,      \* where each reward stands
    credits,    \* how often it was credited
    retries     \* how often it was retried

account == <<phase, credits, retries>>

Init ==
    /\ phase \in [Rewards -> {"none", "owed", "claimed", "failed"}]
    /\ credits = [r \in Rewards |-> 0]
    /\ retries = [r \in Rewards |-> 0]

Move(r, from, to) == phase[r] = from /\ phase' = [phase EXCEPT ![r] = to]

Pay(r) == credits' = [credits EXCEPT ![r] = @ + 1] /\ UNCHANGED retries

Owe(r)    == Move(r, "none", "owed") /\ UNCHANGED <<credits, retries>>
Claim(r)  == Move(r, "owed", "claimed") /\ UNCHANGED <<credits, retries>>
Credit(r) == Move(r, "claimed", "credited") /\ Pay(r)
Settle(r) == Move(r, "credited", "settled") /\ UNCHANGED <<credits, retries>>

Retry(S) ==
    /\ phase' = [r \in Rewards |-> IF r \in S THEN "retried" ELSE phase[r]]
    /\ retries' = [r \in Rewards |-> IF r \in S THEN retries[r] + 1 ELSE retries[r]]
    /\ UNCHANGED credits

CreditRetried(r) ==
    /\ phase[r] = "retried" /\ credits[r] <= retries[r]
    /\ Pay(r)
    /\ UNCHANGED phase

Next ==
    \/ \E r \in Rewards :
        Owe(r) \/ Claim(r) \/ Credit(r) \/ Settle(r) \/ CreditRetried(r)
    \/ \E S \in SUBSET Rewards : Retry(S)

Spec == Init /\ [][Next]_account

\* What follows for the provider's credits.
CreditsPromised ==
    \A r \in Rewards :
        /\ credits[r] <= 1 + retries[r]
        /\ phase[r] # "retried" =>
             credits[r] = (IF phase[r] \in {"credited", "settled"} THEN 1 ELSE 0)
=============================================================================
