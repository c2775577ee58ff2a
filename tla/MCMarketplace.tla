---------------------------- MODULE MCMarketplace ----------------------------
(* Small instances of Marketplace.                                          *)
EXTENDS Marketplace, TLC

Symmetric ==
    Permutations(Users) \cup Permutations(Assets) \cup Permutations(Keys)
        \cup Permutations(Calls)
=============================================================================
