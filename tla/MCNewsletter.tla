---------------------------- MODULE MCNewsletter ----------------------------
(* Instances of Newsletter small enough for TLC. *)
EXTENDS Newsletter, TLC

MCSymmetry == Permutations(Request)
=============================================================================
