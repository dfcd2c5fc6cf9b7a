-------------------------------- MODULE MCTasks --------------------------------
(* Instance of Tasks for TLC: the constants are given in the .cfg files.      *)
EXTENDS Tasks
================================================================================
