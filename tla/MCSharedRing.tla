----------------------------- MODULE MCSharedRing -----------------------------
(* Instance of SharedRing for TLC: the constants are given in the .cfg.      *)
EXTENDS SharedRing
===============================================================================
