----------------------------- MODULE MCSemaphore -----------------------------
(* Instance of Semaphore for TLC: the constants are given in the .cfg.      *)
EXTENDS Semaphore
==============================================================================
