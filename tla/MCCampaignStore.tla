-------------------------- MODULE MCCampaignStore ---------------------------
(* Two operator processes, the two months of the scenario's profile, one    *)
(* seed, and dice that can fall two ways.                                   *)
EXTENDS CampaignStore, TLC

MCSeedFaces == [x \in Seeds \X (1..MaxPeriod) |-> 1]
Symmetric == Permutations(Procs)
=============================================================================
