---------------------------- MODULE MCConfigBuild ----------------------------
(* Texts of a few lines, JSON configs of a few outbounds.                  *)
EXTENDS ConfigBuild, TLC

CONSTANTS l1, l2, l3, l4

LinkSymmetry == Permutations(Links)
=============================================================================
