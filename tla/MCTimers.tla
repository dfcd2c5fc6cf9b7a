------------------------------ MODULE MCTimers ------------------------------
(* Instance of Timers for TLC.                                              *)
EXTENDS Timers
=============================================================================
