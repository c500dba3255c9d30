---------------------------- MODULE MCRemoteRun ----------------------------
(* Clients of one release, or of two.                                      *)
EXTENDS RemoteRun, TLC

CONSTANTS r1, r2, r3, v1, v2

SameRelease == [r \in Requests |-> v2]
TwoReleases == [r \in Requests |-> IF r = r1 THEN v1 ELSE v2]
RequestSymmetry == Permutations(Requests)
=============================================================================
