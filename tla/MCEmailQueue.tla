---------------------------- MODULE MCEmailQueue ----------------------------
(* Instances of EmailQueue small enough for TLC. *)
EXTENDS EmailQueue, TLC

MCSymmetry == Permutations(Worker)
=============================================================================
