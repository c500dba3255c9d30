----------------------------- MODULE TestBatch -----------------------------
(***************************************************************************)
(* One batch of tests: tester.Service.Run hands the configurations of a    *)
(* source to a pool of workers over an unbuffered channel; each worker     *)
(* runs runOne, which picks a local port and lets xray.Run validate the    *)
(* configuration, start an Xray process on that port, wait for the port,   *)
(* probe through it, kill the process and remove its directory.  Xray      *)
(* processes, the kernel's ports, the caller's context and an abrupt end   *)
(* of the program are the environment.                                     *)
(*                                                                         *)
(* Time is not counted: a timer is a step that may be taken at any moment. *)
(***************************************************************************)
EXTENDS Naturals, FiniteSets

CONSTANTS
    NumSpecs,       \* configurations loaded from the source
    Concurrency,    \* RunOptions.Concurrency as the caller gave it
    Ports,          \* loopback ports the kernel hands out
    BadConfigs,     \* configurations Xray refuses ("run -test" fails)
    TakenBound      \* bound: other programs leave it at so many tests taken

None == 0           \* no job, no port, no listener

Specs == 1..NumSpecs
Other == NumSpecs + 1   \* a listener that is no Xray of this batch

ASSUME BatchAssumption ==
    /\ NumSpecs \in Nat \ {0}       \* LoadSource fails on an empty source
    /\ Concurrency \in Nat
    /\ None \notin Ports
    /\ BadConfigs \subseteq Specs
    /\ TakenBound \in Nat

\* The pool: 4 workers by default, never more than there are configurations.
PoolSize ==
    LET wanted == IF Concurrency = 0 THEN 4 ELSE Concurrency
    IN  IF wanted > NumSpecs THEN NumSpecs ELSE wanted
Workers == 1..PoolSize

VARIABLES
    alive,          \* the program is running
    ctxDone,        \* the caller's context is cancelled or timed out
    run,            \* where Service.Run is
    sent,           \* configurations handed to workers so far
    job,            \* job[w]: the configuration worker w is testing
    gone,           \* workers that left the job loop (wg.Done)
    stage,          \* stage[s]: where runOne is with configuration s
    port,           \* port[s]: the port freePort returned to its runOne
    dir,            \* dir[s]: its temporary directory exists
    err,            \* err[s]: the error its runOne is about to report
    via,            \* via[s]: processes that served its successful attempts
    status,         \* status[s]: results[s].Status, "blank" if never written
    proc,           \* proc[s]: the Xray process started for s
    listener,       \* listener[p]: whose process listens on port p
    taken           \* history: tests during which somebody else opened
                    \* the port they were given

pool == <<run, sent, job, gone>>
test == <<stage, port, dir, err, via, status>>
env == <<proc, listener, taken>>
vars == <<alive, ctxDone, pool, test, env>>

Stages == {"queued", "alloc", "build", "validate", "dial", "select", "probe",
           "reap", "done"}
Errors == {"nil", "rejected", "failed"}   \* of all the texts, one apart
Running == {"starting", "listening"}    \* alive and not killed
ProcStates == Running \cup {"none", "killed", "exited", "reaped"}

Active(s) == stage[s] \notin {"queued", "done"}

\* The type invariant.
TypeOK ==
    /\ alive \in BOOLEAN /\ ctxDone \in BOOLEAN
    /\ run \in {"dispatching", "cut", "closed", "returned",
                "returnedEarly"}
    /\ sent \in 0..NumSpecs
    /\ job \in [Workers -> Specs \cup {None}]
    /\ gone \subseteq Workers
    /\ stage \in [Specs -> Stages]
    /\ port \in [Specs -> Ports \cup {None}]
    /\ dir \in [Specs -> BOOLEAN]
    /\ err \in [Specs -> Errors]
    /\ via \in [Specs -> SUBSET (Specs \cup {Other})]
    /\ status \in [Specs -> {"blank", "ok", "failed"}]
    /\ proc \in [Specs -> ProcStates]
    /\ listener \in [Ports -> Specs \cup {None, Other}]
    /\ taken \subseteq Specs

Init ==
    /\ alive = TRUE /\ ctxDone = FALSE
    /\ run = "dispatching" /\ sent = 0
    /\ job = [w \in Workers |-> None] /\ gone = {}
    /\ stage = [s \in Specs |-> "queued"]
    /\ port = [s \in Specs |-> None]
    /\ dir = [s \in Specs |-> FALSE]
    /\ err = [s \in Specs |-> "nil"]
    /\ via = [s \in Specs |-> {}]
    /\ status = [s \in Specs |-> "blank"]
    /\ proc = [s \in Specs |-> "none"]
    /\ listener = [p \in Ports |-> None] /\ taken = {}

-----------------------------------------------------------------------------
(* Service.Run: dispatching, closing the channel, waiting for the workers.  *)

MoreSpecsOffByOne == sent <= NumSpecs       \* bug: one index too many
MoreSpecs == sent < NumSpecs

\* `jobs <- spec` meets a worker waiting in `range jobs`.
Dispatch(w) ==
    /\ run = "dispatching" /\ MoreSpecs
    /\ job[w] = None
    /\ sent' = sent + 1
    /\ job' = [job EXCEPT ![w] = sent + 1]
    /\ stage' = [stage EXCEPT ![sent + 1] = "alloc"]
    /\ UNCHANGED <<run, gone, port, dir, err, via, status, env>>

\* The select takes ctx.Done instead; both branches close the channel.
DispatchCancelled ==
    /\ run = "dispatching" /\ MoreSpecs /\ ctxDone
    /\ run' = "cut"
    /\ UNCHANGED <<sent, job, gone, test, env>>

CloseJobs ==
    /\ run = "dispatching" /\ ~MoreSpecs
    /\ run' = "closed"
    /\ UNCHANGED <<sent, job, gone, test, env>>

WorkerExits(w) ==
    /\ run \in {"cut", "closed"}
    /\ job[w] = None /\ w \notin gone
    /\ gone' = gone \cup {w}
    /\ UNCHANGED <<run, sent, job, test, env>>

SomeWorkerGone == gone # {}                 \* bug: wg.Wait waits for one
AllWorkersGone == gone = Workers

Return ==
    /\ run \in {"cut", "closed"}
    /\ AllWorkersGone
    /\ run' = IF run = "cut" THEN "returnedEarly" ELSE "returned"
    /\ UNCHANGED <<sent, job, gone, test, env>>

Returned == run \in {"returned", "returnedEarly"}
-----------------------------------------------------------------------------
(* runOne and xray.Run for one configuration.                              *)

NotRemoved(s) == dir                        \* bug: no deferred RemoveAll

\* runOne returns: the deferred RemoveAll, results[s], the next job; its
\* port was a local variable.
Removed(s) == [dir EXCEPT ![s] = FALSE]

Finish(s, e) ==
    /\ stage' = [stage EXCEPT ![s] = "done"]
    /\ dir' = Removed(s)
    /\ err' = [err EXCEPT ![s] = e]
    /\ status' = [status EXCEPT ![s] = IF e = "nil" THEN "ok" ELSE "failed"]
    /\ job' = [w \in Workers |-> IF job[w] = s THEN None ELSE job[w]]
    /\ port' = [port EXCEPT ![s] = None]
    /\ UNCHANGED <<run, sent, gone, via>>

FixedPort == Ports                          \* bug: not asked of the kernel

\* Ports freePort can return: it listens on port 0 and closes at once, so a
\* port is free although another test has been given it a moment before.
FreePorts == {p \in Ports : listener[p] = None}

AllocatePort(s) ==
    /\ stage[s] = "alloc"
    /\ \E p \in FreePorts : port' = [port EXCEPT ![s] = p]
    /\ stage' = [stage EXCEPT ![s] = "build"]
    /\ UNCHANGED <<pool, dir, err, via, status, env>>

AllocateFails(s) ==
    /\ stage[s] = "alloc"
    /\ Finish(s, "failed") /\ UNCHANGED env

\* Build, MkdirTemp and WriteFile succeed.
Prepare(s) ==
    /\ stage[s] = "build"
    /\ stage' = [stage EXCEPT ![s] = "validate"]
    /\ dir' = [dir EXCEPT ![s] = TRUE]
    /\ UNCHANGED <<pool, port, err, via, status, env>>

PrepareFails(s) ==
    /\ stage[s] = "build"
    /\ Finish(s, "failed") /\ UNCHANGED env

\* `xray run -test` accepts, and the process proper is started: it is not
\* tied to the context.
ValidationPasses(s) ==
    /\ stage[s] = "validate" /\ s \notin BadConfigs /\ ~ctxDone
    /\ stage' = [stage EXCEPT ![s] = "dial"]
    /\ proc' = [proc EXCEPT ![s] = "starting"]
    /\ UNCHANGED <<pool, port, dir, err, via, status, listener, taken>>

\* Bug: exec.Command instead of exec.CommandContext.
ValidationIgnoresContext(s) ==
    /\ stage[s] = "validate" /\ s \in BadConfigs
    /\ Finish(s, "rejected") /\ UNCHANGED env

\* Every error of validation.Run gets the same text, the killed validation
\* of a cancelled context included.
ValidationFails(s) ==
    /\ stage[s] = "validate" /\ (s \in BadConfigs \/ ctxDone)
    /\ Finish(s, "rejected") /\ UNCHANGED env

StartFails(s) ==
    /\ stage[s] = "validate" /\ s \notin BadConfigs /\ ~ctxDone
    /\ Finish(s, "failed") /\ UNCHANGED env

NoKill(s) == proc                           \* bug: the Kill is missing

\* process.Process.Kill: no effect on a process that is gone.
Kill(s) == [proc EXCEPT ![s] = IF @ \in Running THEN "killed" ELSE @]

\* The end of waitForPort or of the probe callback.
Stop(s, e) ==
    /\ stage' = [stage EXCEPT ![s] = "reap"]
    /\ err' = [err EXCEPT ![s] = e]
    /\ UNCHANGED <<pool, port, dir, via, status, listener, taken>>

\* waitForPort believes whoever accepts the connection.
DialSucceeds(s) ==
    /\ stage[s] = "dial" /\ listener[port[s]] # None
    /\ stage' = [stage EXCEPT ![s] = "probe"]
    /\ UNCHANGED <<pool, port, dir, err, via, status, env>>

\* Nobody listens, or the 150 ms are not enough.
DialFails(s) ==
    /\ stage[s] = "dial"
    /\ stage' = [stage EXCEPT ![s] = "select"]
    /\ UNCHANGED <<pool, port, dir, err, via, status, env>>

SelectTick(s) ==
    /\ stage[s] = "select"
    /\ stage' = [stage EXCEPT ![s] = "dial"]
    /\ UNCHANGED <<pool, port, dir, err, via, status, env>>

\* Takes the only message of waitErr: the reap below must wait for its timer.
SelectExited(s) ==
    /\ stage[s] = "select" /\ proc[s] = "exited"
    /\ proc' = [proc EXCEPT ![s] = "reaped"]
    /\ Stop(s, "failed")

SelectCancelled(s) ==
    /\ stage[s] = "select" /\ ctxDone
    /\ proc' = Kill(s)
    /\ Stop(s, "failed")

SelectDeadline(s) ==
    /\ stage[s] = "select"
    /\ proc' = Kill(s)
    /\ Stop(s, "failed")

\* Who answers on a port: an Xray that was not killed, or another program,
\* which may be a proxy too (another batch's Xray).
Serving(p) ==
    {t \in Specs : listener[p] = t /\ proc[t] = "listening"}
        \cup {t \in {Other} : listener[p] = t}

\* One attempt of probe.Run succeeds through whoever is on the test's port.
ProbeAttempt(s) ==
    /\ stage[s] = "probe" /\ ~ctxDone
    /\ \E t \in Serving(port[s]) : via' = [via EXCEPT ![s] = @ \cup {t}]
    /\ UNCHANGED <<pool, stage, port, dir, err, status, env>>

\* All attempts are over: one success is enough.
ProbeEnds(s) ==
    /\ stage[s] = "probe"
    /\ proc' = Kill(s)
    /\ Stop(s, IF via[s] # {} THEN "nil" ELSE "failed")

\* The select after Kill: the Wait goroutine's message, or two seconds.
ReapExited(s) ==
    /\ stage[s] = "reap" /\ proc[s] = "exited"
    /\ proc' = [proc EXCEPT ![s] = "reaped"]
    /\ Finish(s, err[s]) /\ UNCHANGED <<listener, taken>>

\* Bug: the reap waits for the Wait goroutine alone.
ReapNeedsMessage(s) ==
    /\ stage[s] = "reap" /\ proc[s] = "exited"
    /\ Finish(s, err[s]) /\ UNCHANGED env

\* The two seconds are over (the second Kill adds nothing to the first).
ReapTimeout(s) ==
    /\ stage[s] = "reap"
    /\ Finish(s, err[s]) /\ UNCHANGED env

RunOne(s) ==
    \/ AllocatePort(s) \/ AllocateFails(s)
    \/ Prepare(s) \/ PrepareFails(s)
    \/ ValidationPasses(s) \/ ValidationFails(s) \/ StartFails(s)
    \/ DialSucceeds(s) \/ DialFails(s)
    \/ SelectTick(s) \/ SelectExited(s) \/ SelectCancelled(s)
    \/ SelectDeadline(s)
    \/ ProbeAttempt(s) \/ ProbeEnds(s)
    \/ ReapExited(s) \/ ReapTimeout(s)

Program ==
    \/ \E w \in Workers : Dispatch(w) \/ WorkerExits(w)
    \/ DispatchCancelled \/ CloseJobs \/ Return
    \/ \E s \in Specs : RunOne(s)

-----------------------------------------------------------------------------
(* The environment.                                                        *)

\* The request times out, or its client goes away.
Cancel ==
    /\ alive /\ ~ctxDone
    /\ ctxDone' = TRUE
    /\ UNCHANGED <<alive, pool, test, env>>

\* The program is interrupted or killed: no deferred call runs, and the
\* Xray processes are not told.
Interrupt ==
    /\ alive /\ ~Returned
    /\ alive' = FALSE
    /\ UNCHANGED <<ctxDone, pool, test, env>>

\* The tests that have been given port p and are not through with it.
Given(p) == {s \in Specs : port[s] = p}

\* Xray opens its local proxy; it exits if the port is taken (XrayExits).
XrayBinds(s) ==
    /\ proc[s] = "starting" /\ listener[port[s]] = None
    /\ proc' = [proc EXCEPT ![s] = "listening"]
    /\ listener' = [listener EXCEPT ![port[s]] = s]
    /\ taken' = taken \cup (Given(port[s]) \ {s})
    /\ UNCHANGED <<alive, ctxDone, pool, test>>

\* The process ends, by itself or killed: its port is free again and the
\* Wait goroutine puts the result in the buffered channel.
XrayExits(s) ==
    /\ proc[s] \in Running \cup {"killed"}
    /\ proc' = [proc EXCEPT ![s] = "exited"]
    /\ listener' = [p \in Ports |-> IF listener[p] = s THEN None
                                    ELSE listener[p]]
    /\ UNCHANGED <<alive, ctxDone, pool, test, taken>>

\* Another program of the host opens a free port that a test has been given
\* (one that nobody was given is just not given out then), and closes it.
OtherBinds(p) ==
    /\ alive /\ listener[p] = None /\ Given(p) # {}
    /\ listener' = [listener EXCEPT ![p] = Other]
    /\ taken' = taken \cup Given(p)
    /\ Cardinality(taken') <= TakenBound
    /\ UNCHANGED <<alive, ctxDone, pool, test, proc>>

OtherCloses(p) ==
    /\ alive /\ listener[p] = Other
    /\ listener' = [listener EXCEPT ![p] = None]
    /\ UNCHANGED <<alive, ctxDone, pool, test, proc, taken>>

\* Only an ended program may stop for good.
Ended == (Returned \/ ~alive) /\ UNCHANGED vars

Step == alive /\ Program /\ UNCHANGED <<alive, ctxDone>>

Next ==
    \/ Step
    \/ Cancel \/ Interrupt
    \/ \E s \in Specs : XrayBinds(s) \/ XrayExits(s)
    \/ \E p \in Ports : OtherBinds(p) \/ OtherCloses(p)
    \/ Ended

Spec == Init /\ [][Next]_vars

-----------------------------------------------------------------------------
(* Properties.                                                             *)

\* A configuration whose runOne is over leaves no temporary directory and
\* no Xray that was not killed, whichever of its exits runOne took.
NothingLeftBehind ==
    \A s \in Specs : ~Active(s) => ~dir[s] /\ proc[s] \notin Running

\* "ok" is a statement about this configuration: only if somebody else opens
\* the port while the test runs (between freePort's close and the bind of its
\* Xray, or after its Xray ended) can an attempt behind it have gone through
\* another process; neither an earlier listener nor a neighbour's that keeps
\* its own port ever serves one.
MeasuredThroughOwnCore ==
    \A s \in Specs : status[s] = "ok" /\ s \notin taken => via[s] = {s}

\* The pool bounds the Xray processes that run, not only the goroutines: a
\* worker without a job has left none behind.
ProcessesBounded ==
    Cardinality({s \in Specs : proc[s] \in Running})
        <= Cardinality({w \in Workers : job[w] # None})

Phase ==
    CASE run = "returned" -> "complete"
      [] run = "returnedEarly" -> "cancelled"
      [] OTHER -> "running"

Batch == INSTANCE BatchContract WITH slots <- status, phase <- Phase

\* Service.Run keeps its promise to the callers: each result is written
\* once, none after the return; a nil error means every result is there, a
\* context error a prefix of them.
ImplementsContract == Batch!Contract

-----------------------------------------------------------------------------
(* Fairness: goroutines run, a timer fires, a cancelled context kills the  *)
(* validation.  Nothing is assumed of Xray.                                *)

On(A) == alive /\ A /\ UNCHANGED <<alive, ctxDone>>

\* The Go scheduler runs a goroutine that can run; `xray run -test` has no
\* deadline of its own.
GoFairness ==
    /\ WF_vars(On(DispatchCancelled \/ CloseJobs \/ Return
                  \/ \E w \in Workers : Dispatch(w)))
    /\ \A w \in 1..NumSpecs : WF_vars(On(w \in Workers /\ WorkerExits(w)))
    /\ \A s \in 1..NumSpecs :
        WF_vars(On((stage[s] = "validate" => ctxDone) /\ RunOne(s)))

\* A select with several ready cases picks one at random, so the deadline
\* that has passed is taken in the end although the ticker is ready too.
SelectFairness == \A s \in 1..NumSpecs : SF_vars(On(SelectDeadline(s)))

FairSpec == Spec /\ GoFairness /\ SelectFairness

\* A cancelled batch comes back to its caller, whatever Xray does.
CancelledBatchReturns == ctxDone ~> (Returned \/ ~alive)

\* With a validation that ends, every batch comes back, cancelled or not.
ValidationEnds ==
    \A s \in 1..NumSpecs : WF_vars(On(stage[s] = "validate" /\ RunOne(s)))
BatchReturns == ValidationEnds => <>(Returned \/ ~alive)

-----------------------------------------------------------------------------
(* Expectations the code does not meet (README).                           *)

\* What "ok" is read as (README.md:207, "through the selected Xray outbound"):
\* every attempt behind it went through the process started for it.
AlwaysOwnCore == \A s \in Specs : status[s] = "ok" => via[s] = {s}

\* What the README says of the temporary configuration: it is removed once
\* the program is done with it.
TempConfigRemoved ==
    Returned \/ ~alive => \A s \in Specs : ~dir[s]

\* What the text of the error says: Xray refused this configuration.
RejectedByXray == \A s \in Specs : err[s] = "rejected" => s \in BadConfigs
=============================================================================
