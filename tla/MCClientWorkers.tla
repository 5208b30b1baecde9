-------------------------- MODULE MCClientWorkers ----------------------------
(* Instances of ClientWorkers small enough for TLC; the bounds are in the .cfg files. *)
EXTENDS ClientWorkers
=============================================================================
