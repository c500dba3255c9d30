--------------------------- MODULE MCCoreInstall ---------------------------
(* Two callers, in one program or in two.                                  *)
EXTENDS CoreInstall, TLC

CONSTANTS a, b, p, q

InOneProgram == [c \in Callers |-> p]
InTwoPrograms == [c \in Callers |-> IF c = a THEN p ELSE q]
CallerSymmetry == Permutations(Callers)
=============================================================================
