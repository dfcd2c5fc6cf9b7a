----------------------------- MODULE MCConsole -----------------------------
(* Instance of Console for TLC.                                             *)
EXTENDS Console

\* The middle of the display, and behind the end of its last line.
MCSavePoints == {<<1, 1>>, <<2, 2>>}
============================================================================
