--------------------------- MODULE BatchContract ---------------------------
(***************************************************************************)
(* What tester.Service.Run promises its callers, whatever happens inside:  *)
(* one slot per configuration, each written at most once, and a return     *)
(* that either has every slot filled or, with a context error, a proper    *)
(* prefix of them.  TestBatch implements it.                               *)
(***************************************************************************)
EXTENDS Naturals

CONSTANT NumSpecs       \* configurations loaded from the source, at least 1

VARIABLES
    slots,              \* slots[s]: "blank" (the zero Result), "ok" or "failed"
    phase               \* "running", "complete" or "cancelled"

contractVars == <<slots, phase>>

Slots == 1..NumSpecs
Filled == {s \in Slots : slots[s] # "blank"}

Init == slots = [s \in Slots |-> "blank"] /\ phase = "running"

Record(s, outcome) ==
    /\ phase = "running"
    /\ slots[s] = "blank"
    /\ slots' = [slots EXCEPT ![s] = outcome]
    /\ UNCHANGED phase

Complete ==
    /\ phase = "running"
    /\ Filled = Slots
    /\ phase' = "complete"
    /\ UNCHANGED slots

\* A cancelled batch has handled a proper prefix of the source, in order.
Cancelled ==
    /\ phase = "running"
    /\ \E n \in 0..(NumSpecs - 1) : Filled = 1..n
    /\ phase' = "cancelled"
    /\ UNCHANGED slots

Next ==
    \/ \E s \in Slots, outcome \in {"ok", "failed"} : Record(s, outcome)
    \/ Complete
    \/ Cancelled

Contract == Init /\ [][Next]_contractVars
=============================================================================
