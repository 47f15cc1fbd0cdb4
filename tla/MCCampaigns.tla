----------------------------- MODULE MCCampaigns -----------------------------
(* Instances of Campaigns for TLC. *)
EXTENDS Campaigns, TLC

ClientSymmetry == Permutations(Clients)
=============================================================================
