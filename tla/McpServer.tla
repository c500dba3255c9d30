------------------------------ MODULE McpServer ------------------------------
(***************************************************************************)
(* The MCP server's requests: withSlot's semaphore and deadline around a   *)
(* test, which runs here (source, core, batch) or over ssh.  A call that   *)
(* needs a core takes Manager.ensureMu, which knows nothing of deadlines.  *)
(*                                                                         *)
(* Time passes in ticks, each longer than what a cancelled step takes to   *)
(* notice (a killed process is waited for 2 s; an ssh that is killed is    *)
(* taken to close its outputs, which RemoteRun does not); TestBatch and    *)
(* CoreInstall are about the inside of the steps.                          *)
(***************************************************************************)
EXTENDS Naturals, FiniteSets

CONSTANTS
    Requests,       \* tool calls of the client, each made once
    MaxConcurrent,  \* --max-concurrent-tests
    Timeout,        \* --request-timeout, in ticks
    MaxHold,        \* ticks Ensure may take: its HTTP client gives up after 45 s
    HasRemote,      \* remote targets are configured, or dynamic ones allowed
    None            \* no request

ASSUME ServerAssumption ==
    /\ IsFiniteSet(Requests) /\ None \notin Requests
    /\ MaxConcurrent \in Nat \ {0} /\ Timeout \in Nat \ {0}
    /\ MaxHold \in Nat \ {0} /\ HasRemote \in BOOLEAN

VARIABLES
    pc,         \* pc[r]: where request r is
    res,        \* res[r]: its answer
    elapsed,    \* elapsed[r]: ticks from the call to the answer, at most Cap
    cancelled,  \* the requests the client cancelled
    slots,      \* the slots taken: len(s.semaphore)
    lock,       \* the request that holds ensureMu
    hold        \* ticks it has held it

vars == <<pc, res, elapsed, cancelled, slots, lock, hold>>

\* Ticks are counted up to the latest answer LatenessBounded allows, and one.
Cap == Timeout + Cardinality(Requests) * MaxHold

Steps == {"idle", "slot", "route", "load", "ensure", "install", "batch", "ssh",
          "report", "answered"}
Testing == Steps \ {"idle", "slot", "answered"}

\* The type invariant.
TypeOK ==
    /\ pc \in [Requests -> Steps]
    /\ res \in [Requests -> {"none", "ok", "error"}]
    /\ elapsed \in [Requests -> 0..Cap]
    /\ cancelled \subseteq Requests
    /\ slots \in 0..MaxConcurrent
    /\ lock \in Requests \cup {None}
    /\ hold \in 0..MaxHold

Init ==
    /\ pc = [r \in Requests |-> "idle"]
    /\ res = [r \in Requests |-> "none"]
    /\ elapsed = [r \in Requests |-> 0]
    /\ cancelled = {} /\ slots = 0
    /\ lock = None /\ hold = 0

\* requestCtx is done: its deadline passed, or the client cancelled.
Over(r) == r \in cancelled \/ elapsed[r] >= Timeout

Goto(r, label) ==
    pc' = [pc EXCEPT ![r] = label] /\ UNCHANGED <<res, elapsed, cancelled, slots>>

Answer(r, outcome) ==
    /\ pc' = [pc EXCEPT ![r] = "answered"]
    /\ res' = [res EXCEPT ![r] = outcome]
    /\ UNCHANGED <<elapsed, cancelled>>

\* The deferred receive gives the slot back on every return of fn.
Release(r, outcome) == Answer(r, outcome) /\ slots' = slots - 1

-----------------------------------------------------------------------------
(* withSlot.                                                               *)

Call(r) == pc[r] = "idle" /\ Goto(r, "slot") /\ UNCHANGED <<lock, hold>>

\* Bug: the channel has no limit.
NoLimit(r) ==
    /\ pc[r] = "slot"
    /\ pc' = [pc EXCEPT ![r] = "route"]
    /\ slots' = slots + 1
    /\ UNCHANGED <<res, elapsed, cancelled, lock, hold>>

TakeSlot(r) ==
    /\ pc[r] = "slot" /\ slots < MaxConcurrent
    /\ pc' = [pc EXCEPT ![r] = "route"]
    /\ slots' = slots + 1
    /\ UNCHANGED <<res, elapsed, cancelled, lock, hold>>

\* Bug: the slot is given back although it was not taken.
TimeoutReleases(r) ==
    /\ pc[r] = "slot" /\ Over(r)
    /\ Answer(r, "error")
    /\ slots' = slots - 1
    /\ UNCHANGED <<lock, hold>>

SlotTimeout(r) ==
    /\ pc[r] = "slot" /\ Over(r)
    /\ Answer(r, "error")
    /\ UNCHANGED <<slots, lock, hold>>

-----------------------------------------------------------------------------
(* run: options and target, then the test itself.                          *)

\* Bad options, an unknown target and an unreadable file are answered at once.
Route(r) ==
    /\ pc[r] = "route"
    /\ \/ Goto(r, "load")
       \/ HasRemote /\ Goto(r, "ssh")
       \/ Release(r, "error")
    /\ UNCHANGED <<lock, hold>>

Load(r) ==
    /\ pc[r] = "load"
    /\ Goto(r, "ensure") \/ Release(r, "error")
    /\ UNCHANGED <<lock, hold>>

Lock(r) ==
    /\ pc[r] = "ensure" /\ lock = None
    /\ Goto(r, "install")
    /\ lock' = r /\ hold' = 0

\* Bug: ensureMu is kept when the core cannot be had.
LockKept(r) ==
    /\ pc[r] = "install"
    /\ \/ Goto(r, "batch") /\ lock' = None /\ hold' = 0
       \/ Release(r, "error") /\ UNCHANGED <<lock, hold>>

\* A core that is installed is returned whatever became of the context.
Install(r) ==
    /\ pc[r] = "install"
    /\ Goto(r, "batch") \/ Release(r, "error")
    /\ lock' = None /\ hold' = 0

\* A cancelled batch may have dispatched its last config: then it returns the
\* results as they are.
Batch(r) ==
    /\ pc[r] = "batch"
    /\ Goto(r, "report") \/ (Over(r) /\ Release(r, "error"))
    /\ UNCHANGED <<lock, hold>>

Ssh(r) ==
    /\ pc[r] = "ssh"
    /\ (~Over(r) /\ Goto(r, "report")) \/ Release(r, "error")
    /\ UNCHANGED <<lock, hold>>

\* Bug: the error of the limit, found late, forgets the slot.
SlotForgotten(r) ==
    /\ pc[r] = "report"
    /\ Release(r, "ok") \/ (Answer(r, "error") /\ UNCHANGED slots)
    /\ UNCHANGED <<lock, hold>>

\* The number of results, or result_limit, may not be right.
Report(r) ==
    /\ pc[r] = "report"
    /\ \E outcome \in {"ok", "error"} : Release(r, outcome)
    /\ UNCHANGED <<lock, hold>>

Proceed(r) ==
    \/ TakeSlot(r) \/ SlotTimeout(r) \/ Route(r) \/ Load(r)
    \/ Install(r) \/ Batch(r) \/ Ssh(r) \/ Report(r)

-----------------------------------------------------------------------------
(* The client and time.                                                    *)

Cancel(r) ==
    /\ pc[r] \notin {"idle", "answered"} /\ r \notin cancelled
    /\ cancelled' = cancelled \cup {r}
    /\ UNCHANGED <<pc, res, elapsed, slots, lock, hold>>

\* Bug: the configs of a batch are tested to the end.
BatchHeedsNothing == {"slot", "load", "install", "ssh"}

\* The steps that end when the context does: a mutex is none of them.
Heeds == {"slot", "load", "install", "batch", "ssh"}

Instant == {"route", "report"}

\* What is due before time can pass.
Due ==
    \/ \E r \in Requests : pc[r] \in Instant \/ (pc[r] \in Heeds /\ Over(r))
    \/ slots < MaxConcurrent /\ \E r \in Requests : pc[r] = "slot"
    \/ lock = None /\ \E r \in Requests : pc[r] = "ensure"
    \/ hold = MaxHold /\ \E r \in Requests : pc[r] = "install"

Later(n) == IF n < Cap THEN n + 1 ELSE Cap

Tick ==
    /\ ~Due
    /\ elapsed' = [r \in Requests |->
            IF pc[r] \in {"idle", "answered"} THEN elapsed[r] ELSE Later(elapsed[r])]
    /\ hold' = IF lock # None /\ hold < MaxHold THEN hold + 1 ELSE hold
    /\ UNCHANGED <<pc, res, cancelled, slots, lock>>

Next ==
    \/ \E r \in Requests : Call(r) \/ Proceed(r) \/ Lock(r) \/ Cancel(r)
    \/ Tick

Spec == Init /\ [][Next]_vars

\* Goroutines run, time passes, and a Go mutex is handed to the one that has
\* waited for it.  The client does as it likes.
Fairness ==
    /\ WF_vars(Tick)
    /\ \A r \in Requests : WF_vars(Proceed(r)) /\ SF_vars(Lock(r))

FairSpec == Spec /\ Fairness

-----------------------------------------------------------------------------
(* Properties.                                                             *)

Tests == {r \in Requests : pc[r] \in Testing}

\* --max-concurrent-tests bounds what runs, through every timeout and error.
TestsBounded == Cardinality(Tests) <= MaxConcurrent

\* No return keeps a slot: a server that has answered is as good as new.
SlotsReturned == Tests = {} => slots = 0

\* A request is late by what the others hold ensureMu, and nothing else.
LatenessBounded ==
    \A r \in Requests :
        elapsed[r] <= Timeout + (Cardinality(Requests) - 1) * MaxHold

\* Every call is answered, in spite of slots, lock and deadlines.
AllAnswered == \A r \in Requests : pc[r] = "slot" ~> pc[r] = "answered"

-----------------------------------------------------------------------------
(* An expectation the code does not meet (README).                         *)

\* --request-timeout is, as the usage text says, the maximum of a request.
InTime == \A r \in Requests : elapsed[r] <= Timeout
=============================================================================
