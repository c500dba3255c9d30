----------------------------- MODULE MCProbeRun -----------------------------
(* Latencies on both sides of the bounds of the score.                     *)
EXTENDS ProbeRun
=============================================================================
