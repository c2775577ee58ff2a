---------------------------- MODULE MCReadCache -----------------------------
(* Small instances of ReadCache.                                           *)
EXTENDS ReadCache, TLC
=============================================================================
