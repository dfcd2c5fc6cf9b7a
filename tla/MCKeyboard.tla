----------------------------- MODULE MCKeyboard -----------------------------
(* Instance of Keyboard for TLC: the constants are given in the .cfg.       *)
EXTENDS Keyboard
=============================================================================
