----------------------------- MODULE MCRwMutex -----------------------------
(* Small instances of RwMutex for TLC.                                       *)
EXTENDS RwMutex, TLC

CONSTANTS g1, g2, t1
=============================================================================
