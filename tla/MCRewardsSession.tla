-------------------------- MODULE MCRewardsSession --------------------------
(* Instances of RewardsSession for TLC.                                    *)
EXTENDS RewardsSession

CONSTANTS n1, n2
=============================================================================
