----------------------------- MODULE MCMcpServer -----------------------------
(* Three tool calls.                                                       *)
EXTENDS McpServer, TLC

CONSTANTS r1, r2, r3

RequestSymmetry == Permutations(Requests)
=============================================================================
