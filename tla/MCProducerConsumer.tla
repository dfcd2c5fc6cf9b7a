-------------------------- MODULE MCProducerConsumer --------------------------
(* Instance of ProducerConsumer for TLC: the constants are given in the .cfg. *)
EXTENDS ProducerConsumer
===============================================================================
