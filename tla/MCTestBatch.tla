---------------------------- MODULE MCTestBatch ----------------------------
(* Small batches for TLC; the ports are interchangeable.                   *)
EXTENDS BatchReport, TLC

PortSymmetry == Permutations(Ports)
=============================================================================
