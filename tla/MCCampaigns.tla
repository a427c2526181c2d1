---------------------------- MODULE MCCampaigns -----------------------------
(* Instances of Campaigns small enough for TLC. *)
EXTENDS Campaigns, TLC

MCSymmetry == Permutations(Admin) \cup Permutations(Scheduler)
=============================================================================
