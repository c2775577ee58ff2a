----------------------------- MODULE AssetLedger -----------------------------
(***************************************************************************)
(* What the marketplace promises about ownership, without listings and     *)
(* calls: an asset changes hands only through a sale, the sale is recorded *)
(* in the same step under a key nobody used before, and it goes to the     *)
(* buyer the record names.                                                 *)
(***************************************************************************)
CONSTANTS Users, Assets, Keys, None

VARIABLES owner, buyerOf    \* buyerOf: the asset and buyer of each used key

Unused == [asset |-> None, buyer |-> None]

Init == owner \in [Assets -> Users] /\ buyerOf = [k \in Keys |-> Unused]

Transfer(a, u, k) ==
    /\ buyerOf[k] = Unused
    /\ buyerOf' = [buyerOf EXCEPT ![k] = [asset |-> a, buyer |-> u]]
    /\ owner' = [owner EXCEPT ![a] = u]

Next == \E a \in Assets, u \in Users, k \in Keys : Transfer(a, u, k)

Spec == Init /\ [][Next]_<<owner, buyerOf>>
=============================================================================
