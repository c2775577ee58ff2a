--------------------------- MODULE MCAuthSessions ---------------------------
(* Small instances of AuthSessions.                                        *)
EXTENDS AuthSessions, TLC

Symmetric == Permutations(Wallets) \cup Permutations(Calls)
=============================================================================
