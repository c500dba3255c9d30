--------------------------- MODULE CacheContract ---------------------------
(***************************************************************************)
(* What the callers of core.Manager.Ensure may rely on: the cache offers   *)
(* nothing until a call that is under way puts the whole core there, data  *)
(* files and all, in one step; it stays; and a call that succeeds, which   *)
(* may do so with a core another one installed, leaves one there.          *)
(***************************************************************************)
CONSTANT Callers        \* concurrent calls of Ensure

VARIABLES
    cache,      \* "nothing", or "core": all of it
    answer      \* answer[c]: "none", "pending", "ok" or "failed"

Init == cache = "nothing" /\ answer = [c \in Callers |-> "none"]

Answer(c, from, to) ==
    /\ answer[c] = from
    /\ answer' = [answer EXCEPT ![c] = to]

Ask(c) == Answer(c, "none", "pending") /\ UNCHANGED cache

\* Whatever goes wrong, the cache is as it was.
Refuse(c) == Answer(c, "pending", "failed") /\ UNCHANGED cache

\* The core is there, or it is from now on.
Serve(c) == Answer(c, "pending", "ok") /\ cache' = "core"

\* The program of some callers is killed; it may be started again.
Interrupt(C) ==
    /\ answer' = [c \in Callers |-> IF c \in C THEN "none" ELSE answer[c]]
    /\ UNCHANGED cache

Next ==
    \/ \E c \in Callers : Ask(c) \/ Refuse(c) \/ Serve(c)
    \/ \E C \in SUBSET Callers : Interrupt(C)

Spec == Init /\ [][Next]_<<cache, answer>>
=============================================================================
