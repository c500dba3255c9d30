--------------------------- MODULE MCDesktopSetup ---------------------------
(* Two setups, a user or Claude Desktop that changes the file too.         *)
EXTENDS DesktopSetup, TLC

CONSTANTS s1, s2, github, theme

SetupSymmetry == Permutations(Setups)
=============================================================================
