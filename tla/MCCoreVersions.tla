--------------------------- MODULE MCCoreVersions ---------------------------
(* Three releases as they were named: v1.8.24, v24.9.30, v24.10.31.        *)
EXTENDS CoreVersions, TLC

CONSTANTS c1, c2, c3

TagOrder == <<1, 3, 2>>
TagBytes == <<7, 8, 9>>
CommandSymmetry == Permutations(Commands)
=============================================================================
