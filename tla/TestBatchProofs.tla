-------------------------- MODULE TestBatchProofs --------------------------
(***************************************************************************)
(* Proofs about TestBatch, for every number of configurations and workers  *)
(* and every set of ports, and about the report of its results, for every  *)
(* score and limit.                                                        *)
(***************************************************************************)
EXTENDS BatchReport, FiniteSetTheorems, TLAPS

USE DEF None

\* Every step of the program or of its environment, for case analysis.
LEMMA StepCases ==
    ASSUME [Next]_vars
    PROVE  \/ \E w \in Workers : Dispatch(w) /\ UNCHANGED <<alive, ctxDone>>
           \/ \E w \in Workers : WorkerExits(w) /\ UNCHANGED <<alive, ctxDone>>
           \/ DispatchCancelled /\ UNCHANGED <<alive, ctxDone>>
           \/ CloseJobs /\ UNCHANGED <<alive, ctxDone>>
           \/ Return /\ UNCHANGED <<alive, ctxDone>>
           \/ \E s \in Specs : RunOne(s) /\ UNCHANGED <<alive, ctxDone>>
           \/ Cancel
           \/ Interrupt
           \/ \E s \in Specs : XrayBinds(s)
           \/ \E s \in Specs : XrayExits(s)
           \/ \E p \in Ports : OtherBinds(p) \/ OtherCloses(p)
           \/ UNCHANGED vars
BY DEF Next, Step, Program, Ended

-----------------------------------------------------------------------------
(* The type invariant.                                                     *)

LEMMA TypeInit == Init => TypeOK
<1> SUFFICES ASSUME Init PROVE TypeOK
  OBVIOUS
<1>1. sent \in 0..NumSpecs
  BY BatchAssumption DEF Init
<1>2. /\ via \in [Specs -> SUBSET (Specs \cup {Other})]
      /\ dir \in [Specs -> BOOLEAN]
  BY DEF Init
<1> QED
  BY <1>1, <1>2 DEF Init, TypeOK, Stages, Errors, ProcStates, Running

\* What runOne's return does to the variables it assigns.
LEMMA FinishType ==
    ASSUME TypeOK, NEW s \in Specs, NEW e \in Errors, Finish(s, e)
    PROVE  /\ run' = run /\ sent' = sent /\ gone' = gone
           /\ via' = via
           /\ port' \in [Specs -> Ports \cup {None}]
           /\ job' \in [Workers -> Specs \cup {None}]
           /\ stage' \in [Specs -> Stages]
           /\ dir' \in [Specs -> BOOLEAN]
           /\ err' \in [Specs -> Errors]
           /\ status' \in [Specs -> {"blank", "ok", "failed"}]
BY DEF TypeOK, Finish, Removed, Stages

LEMMA KillType ==
    ASSUME TypeOK, NEW s \in Specs
    PROVE  Kill(s) \in [Specs -> ProcStates]
BY DEF TypeOK, Kill, ProcStates, Running

LEMMA RunOneType ==
    ASSUME TypeOK, NEW s \in Specs, RunOne(s), UNCHANGED <<alive, ctxDone>>
    PROVE  TypeOK'
<1> USE DEF TypeOK, pool, test, env
<1>1. CASE AllocatePort(s)
  BY <1>1 DEF AllocatePort, FreePorts, Stages
<1>2. CASE Prepare(s)
  BY <1>2 DEF Prepare, Stages
<1>3. CASE ValidationPasses(s)
  BY <1>3 DEF ValidationPasses, Stages, ProcStates, Running
<1>4. CASE DialSucceeds(s) \/ DialFails(s) \/ SelectTick(s)
  BY <1>4 DEF DialSucceeds, DialFails, SelectTick, Stages
<1>5. CASE SelectExited(s)
  BY <1>5 DEF SelectExited, Stop, Stages, Errors, ProcStates
<1>6. CASE SelectCancelled(s) \/ SelectDeadline(s) \/ ProbeEnds(s)
  <2>1. proc' \in [Specs -> ProcStates]
    BY <1>6, KillType DEF SelectCancelled, SelectDeadline, ProbeEnds
  <2>2. \E e \in Errors : Stop(s, e)
    BY <1>6 DEF SelectCancelled, SelectDeadline, ProbeEnds, Errors
  <2> QED
    BY <2>1, <2>2 DEF Stop, Stages
<1>7. CASE ProbeAttempt(s)
  BY <1>7 DEF ProbeAttempt, Serving
<1>8. CASE \/ AllocateFails(s) \/ PrepareFails(s)
           \/ ValidationFails(s) \/ StartFails(s) \/ ReapTimeout(s)
  <2>1. UNCHANGED env /\ \E e \in Errors : Finish(s, e)
    BY <1>8 DEF AllocateFails, PrepareFails, ValidationFails, StartFails,
                ReapTimeout, Errors
  <2> QED
    BY <2>1, FinishType
<1>9. CASE ReapExited(s)
  <2>1. Finish(s, err[s]) /\ err[s] \in Errors
    BY <1>9 DEF ReapExited
  <2>2. proc' \in [Specs -> ProcStates] /\ UNCHANGED <<listener, taken>>
    BY <1>9 DEF ReapExited, ProcStates
  <2> QED
    BY <2>1, <2>2, FinishType
<1> QED
  BY <1>1, <1>2, <1>3, <1>4, <1>5, <1>6, <1>7, <1>8, <1>9 DEF RunOne

LEMMA TypeStep == TypeOK /\ [Next]_vars => TypeOK'
<1> SUFFICES ASSUME TypeOK, [Next]_vars PROVE TypeOK'
  OBVIOUS
<1> USE DEF TypeOK, pool, test, env
<1>1. ASSUME NEW w \in Workers, Dispatch(w), UNCHANGED <<alive, ctxDone>>
      PROVE  TypeOK'
  <2>1. sent + 1 \in Specs
    BY <1>1, BatchAssumption DEF Dispatch, MoreSpecs, Specs
  <2> QED
    BY <1>1, <2>1, BatchAssumption DEF Dispatch, Stages, Specs
<1>2. ASSUME NEW w \in Workers, WorkerExits(w), UNCHANGED <<alive, ctxDone>>
      PROVE  TypeOK'
  BY <1>2 DEF WorkerExits
<1>3. CASE /\ DispatchCancelled \/ CloseJobs \/ Return
           /\ UNCHANGED <<alive, ctxDone>>
  BY <1>3 DEF DispatchCancelled, CloseJobs, Return
<1>4. CASE Cancel \/ Interrupt \/ UNCHANGED vars
  BY <1>4 DEF Cancel, Interrupt, vars
<1>5. ASSUME NEW s \in Specs, XrayBinds(s) \/ XrayExits(s)
      PROVE  TypeOK'
  BY <1>5 DEF XrayBinds, XrayExits, Given, ProcStates, Running
<1>6. ASSUME NEW p \in Ports, OtherBinds(p) \/ OtherCloses(p)
      PROVE  TypeOK'
  BY <1>6 DEF OtherBinds, OtherCloses, Given
<1> QED
  BY <1>1, <1>2, <1>3, <1>4, <1>5, <1>6, RunOneType, StepCases

\* Every variable keeps its type: no index leaves the batch, no port is
\* invented, whatever the interleaving of workers, Xray and the caller.
THEOREM TypeCorrect == Spec => []TypeOK
BY TypeInit, TypeStep, PTL DEF Spec

-----------------------------------------------------------------------------
(* The inductive invariant, in three parts.                                *)

\* The pool: a test in progress has a worker, the workers leave after the
\* channel is closed, and the return waits for all of them.
PoolInv ==
    /\ \A w \in Workers : job[w] # None => Active(job[w])
    /\ \A s \in Specs : Active(s) => \E w \in Workers : job[w] = s
    /\ \A s \in Specs : stage[s] = "queued" <=> s > sent
    /\ \A w \in gone : job[w] = None
    /\ gone # {} => run # "dispatching"
    /\ Returned => gone = Workers
    /\ run \in {"closed", "returned"} => sent = NumSpecs
    /\ run \in {"cut", "returnedEarly"} => sent < NumSpecs

\* One configuration: what exists at which stage of its runOne.
SlotInv(s) ==
    /\ dir[s] => Active(s)
    /\ proc[s] \in Running => stage[s] \in {"dial", "select", "probe"}
    /\ stage[s] \in {"queued", "alloc"} => port[s] = None
    /\ stage[s] \in {"build", "validate", "dial", "select", "probe", "reap"}
         => port[s] \in Ports
    /\ status[s] # "blank" <=> stage[s] = "done"
    /\ stage[s] = "reap" /\ err[s] = "nil" => via[s] # {}
    /\ status[s] = "ok" => via[s] # {}

\* The ports: who is on a test's port opened it before the test was given
\* it, which the kernel excludes, or is the test's own Xray, or is the reason
\* why the test is in `taken`.
PortInv ==
    \A s \in Specs \ taken :
        /\ port[s] # None => listener[port[s]] \in {None, s}
        /\ via[s] \subseteq {s}

SlotsInv == \A s \in Specs : SlotInv(s)

\* A step of runOne either returns or moves to another stage of its own.
LEMMA RunOneShape ==
    ASSUME TypeOK, NEW s \in Specs, RunOne(s)
    PROVE  /\ Active(s)
           /\ \/ \E e \in Errors : Finish(s, e)
              \/ /\ UNCHANGED pool
                 /\ \E x \in Stages \ {"queued", "done"} :
                        stage' = [stage EXCEPT ![s] = x]
<1> USE DEF TypeOK, Active, Stages
<1>1. CASE \/ AllocatePort(s) \/ Prepare(s) \/ ValidationPasses(s)
           \/ DialSucceeds(s) \/ DialFails(s) \/ SelectTick(s)
  BY <1>1 DEF AllocatePort, Prepare, ValidationPasses, DialSucceeds,
              DialFails, SelectTick
<1>2. CASE \/ SelectExited(s) \/ SelectCancelled(s) \/ SelectDeadline(s)
           \/ ProbeEnds(s)
  BY <1>2 DEF SelectExited, SelectCancelled, SelectDeadline, ProbeEnds, Stop
<1>3. CASE ProbeAttempt(s)
  <2>1. stage' = [stage EXCEPT ![s] = stage[s]]
    BY <1>3 DEF ProbeAttempt
  <2> QED
    BY <1>3, <2>1 DEF ProbeAttempt
<1>4. CASE \/ AllocateFails(s) \/ PrepareFails(s)
           \/ ValidationFails(s) \/ StartFails(s)
  BY <1>4 DEF AllocateFails, PrepareFails, ValidationFails, StartFails, Errors
<1>5. CASE ReapExited(s) \/ ReapTimeout(s)
  BY <1>5 DEF ReapExited, ReapTimeout
<1> QED
  BY <1>1, <1>2, <1>3, <1>4, <1>5 DEF RunOne

LEMMA InvInit == Init => PoolInv /\ SlotsInv /\ PortInv
<1> SUFFICES ASSUME Init PROVE PoolInv /\ SlotsInv /\ PortInv
  OBVIOUS
<1> USE DEF Init, Active
<1>1. PoolInv
  BY BatchAssumption DEF PoolInv, Returned, Specs
<1>2. SlotsInv
  BY DEF SlotsInv, SlotInv, Running
<1>3. PortInv
  BY DEF PortInv
<1> QED
  BY <1>1, <1>2, <1>3

-----------------------------------------------------------------------------
(* The pool.                                                               *)

LEMMA PoolStep == TypeOK /\ PoolInv /\ [Next]_vars => PoolInv'
<1> SUFFICES ASSUME TypeOK, PoolInv, [Next]_vars PROVE PoolInv'
  OBVIOUS
<1> USE DEF TypeOK, PoolInv, Active, Returned
<1>1. ASSUME NEW w \in Workers, Dispatch(w) PROVE PoolInv'
  <2>1. sent + 1 \in Specs /\ sent \in Nat
    BY <1>1, BatchAssumption DEF Dispatch, MoreSpecs, Specs
  <2>2. stage[sent + 1] = "queued"
    BY <2>1
  <2>3. gone = {} /\ gone' = {} /\ run' = run /\ run = "dispatching"
    BY <1>1 DEF Dispatch
  <2>4. \A v \in Workers : (job[v] # None => Active(job[v]))'
    BY <1>1, <2>1, <2>2 DEF Dispatch
  <2>5. \A s \in Specs : Active(s)' => \E v \in Workers : job'[v] = s
    <3> TAKE s \in Specs
    <3>1. CASE s = sent + 1
      BY <1>1, <3>1 DEF Dispatch
    <3>2. ASSUME s # sent + 1, Active(s)' PROVE \E v \in Workers : job'[v] = s
      <4>1. PICK v \in Workers : job[v] = s
        BY <1>1, <3>2 DEF Dispatch
      <4>2. v # w
        BY <1>1, <4>1 DEF Dispatch, Specs
      <4> QED
        BY <1>1, <4>1, <4>2 DEF Dispatch
    <3> QED
      BY <3>1, <3>2
  <2>6. \A s \in Specs : stage'[s] = "queued" <=> s > sent'
    BY <1>1, <2>1 DEF Dispatch, Specs
  <2> QED
    BY <2>3, <2>4, <2>5, <2>6
<1>2. ASSUME NEW w \in Workers, WorkerExits(w) PROVE PoolInv'
  BY <1>2 DEF WorkerExits, test
<1>3. CASE DispatchCancelled \/ CloseJobs
  <2>1. NumSpecs \in Nat /\ sent <= NumSpecs
    BY BatchAssumption
  <2>2. /\ run = "dispatching" /\ gone = {}
        /\ UNCHANGED <<sent, job, gone, stage, status>>
        /\ \/ run' = "cut" /\ sent < NumSpecs
           \/ run' = "closed" /\ sent = NumSpecs
    <3>1. CASE DispatchCancelled
      BY <3>1 DEF DispatchCancelled, MoreSpecs, test
    <3>2. CASE CloseJobs
      BY <3>2, <2>1 DEF CloseJobs, MoreSpecs, test
    <3> QED
      BY <1>3, <3>1, <3>2
  <2> QED
    BY <2>2
<1>4. CASE Return
  BY <1>4 DEF Return, AllWorkersGone, test
<1>5. ASSUME NEW s \in Specs, RunOne(s) PROVE PoolInv'
  <2>1. CASE \E e \in Errors : Finish(s, e)
    <3>1. /\ job' = [w \in Workers |-> IF job[w] = s THEN None ELSE job[w]]
          /\ stage' = [stage EXCEPT ![s] = "done"]
          /\ UNCHANGED <<run, sent, gone>>
      BY <2>1 DEF Finish
    <3>2. stage[s] \notin {"queued", "done"}
      BY <1>5, RunOneShape
    <3>3. \A w \in Workers : (job[w] # None => Active(job[w]))'
      BY <3>1, <3>2
    <3>4. \A t \in Specs : Active(t)' => \E w \in Workers : job'[w] = t
      BY <3>1, <3>2 DEF Specs
    <3> QED
      BY <3>1, <3>2, <3>3, <3>4
  <2>2. CASE /\ UNCHANGED pool
             /\ \E x \in Stages \ {"queued", "done"} :
                    stage' = [stage EXCEPT ![s] = x]
    BY <1>5, <2>2, RunOneShape DEF pool
  <2> QED
    BY <1>5, <2>1, <2>2, RunOneShape
<1>6. CASE Cancel \/ Interrupt \/ UNCHANGED vars
  BY <1>6 DEF Cancel, Interrupt, vars, pool, test
<1>7. ASSUME NEW s \in Specs, XrayBinds(s) \/ XrayExits(s) PROVE PoolInv'
  BY <1>7 DEF XrayBinds, XrayExits, pool, test
<1>8. ASSUME NEW p \in Ports, OtherBinds(p) \/ OtherCloses(p) PROVE PoolInv'
  BY <1>8 DEF OtherBinds, OtherCloses, pool, test
<1> QED
  BY <1>1, <1>2, <1>3, <1>4, <1>5, <1>6, <1>7, <1>8, StepCases

-----------------------------------------------------------------------------
(* One configuration.                                                      *)

\* runOne touches the state of its own configuration only.
LEMMA RunOneFrame ==
    ASSUME TypeOK, NEW s \in Specs, RunOne(s), NEW t \in Specs, t # s
    PROVE  /\ stage'[t] = stage[t] /\ port'[t] = port[t] /\ dir'[t] = dir[t]
           /\ err'[t] = err[t] /\ via'[t] = via[t]
           /\ status'[t] = status[t] /\ proc'[t] = proc[t]
<1> USE DEF TypeOK, env
<1>1. CASE \/ AllocatePort(s) \/ Prepare(s) \/ ValidationPasses(s)
           \/ DialSucceeds(s) \/ DialFails(s) \/ SelectTick(s)
           \/ ProbeAttempt(s)
  BY <1>1 DEF AllocatePort, Prepare, ValidationPasses, DialSucceeds,
              DialFails, SelectTick, ProbeAttempt
<1>2. CASE \/ SelectExited(s) \/ SelectCancelled(s) \/ SelectDeadline(s)
           \/ ProbeEnds(s)
  BY <1>2 DEF SelectExited, SelectCancelled, SelectDeadline, ProbeEnds, Stop,
              Kill
<1>3. CASE \/ AllocateFails(s) \/ PrepareFails(s)
           \/ ValidationFails(s) \/ StartFails(s)
           \/ ReapExited(s) \/ ReapTimeout(s)
  BY <1>3 DEF AllocateFails, PrepareFails, ValidationFails, StartFails,
              ReapExited, ReapTimeout, Finish, Removed
<1> QED
  BY <1>1, <1>2, <1>3 DEF RunOne

LEMMA RunOneSlot ==
    ASSUME TypeOK, NEW s \in Specs, SlotInv(s), RunOne(s)
    PROVE  SlotInv(s)'
<1> USE DEF TypeOK, SlotInv, Active, env, Running
<1>1. CASE AllocatePort(s)
  BY <1>1 DEF AllocatePort, FreePorts
<1>2. CASE Prepare(s) \/ ValidationPasses(s)
  BY <1>2 DEF Prepare, ValidationPasses
<1>3. CASE DialSucceeds(s) \/ DialFails(s) \/ SelectTick(s)
  BY <1>3 DEF DialSucceeds, DialFails, SelectTick
<1>4. CASE ProbeAttempt(s)
  BY <1>4 DEF ProbeAttempt
<1>5. CASE SelectExited(s)
  BY <1>5 DEF SelectExited, Stop
<1>6. CASE SelectCancelled(s) \/ SelectDeadline(s) \/ ProbeEnds(s)
  <2>1. proc'[s] \notin Running
    BY <1>6 DEF SelectCancelled, SelectDeadline, ProbeEnds, Kill
  <2>2. PICK e \in Errors : Stop(s, e) /\ (e = "nil" => via[s] # {})
    BY <1>6 DEF SelectCancelled, SelectDeadline, ProbeEnds, Errors
  <2>3. stage[s] \in {"select", "probe"}
    BY <1>6 DEF SelectCancelled, SelectDeadline, ProbeEnds
  <2> QED
    BY <2>1, <2>2, <2>3 DEF Stop
<1>7. CASE \/ AllocateFails(s) \/ PrepareFails(s)
           \/ ValidationFails(s) \/ StartFails(s)
  BY <1>7 DEF AllocateFails, PrepareFails, ValidationFails, StartFails,
              Finish, Removed
<1>8. CASE ReapExited(s) \/ ReapTimeout(s)
  BY <1>8 DEF ReapExited, ReapTimeout, Finish, Removed
<1> QED
  BY <1>1, <1>2, <1>3, <1>4, <1>5, <1>6, <1>7, <1>8 DEF RunOne

LEMMA SlotStep == TypeOK /\ PoolInv /\ SlotsInv /\ [Next]_vars => SlotsInv'
<1> SUFFICES ASSUME TypeOK, PoolInv, SlotsInv, [Next]_vars, NEW t \in Specs
             PROVE  SlotInv(t)'
  BY DEF SlotsInv
<1>0. SlotInv(t)
  BY DEF SlotsInv
<1> USE DEF TypeOK, Active, Running
<1>1. ASSUME NEW w \in Workers, Dispatch(w) PROVE SlotInv(t)'
  <2>1. sent + 1 \in Specs /\ stage[sent + 1] = "queued"
    BY <1>1, BatchAssumption DEF Dispatch, MoreSpecs, Specs, PoolInv
  <2> QED
    BY <1>0, <1>1, <2>1 DEF Dispatch, SlotInv, env
<1>2. ASSUME NEW w \in Workers, WorkerExits(w) PROVE SlotInv(t)'
  BY <1>0, <1>2 DEF WorkerExits, SlotInv, test, env
<1>3. CASE DispatchCancelled \/ CloseJobs \/ Return
  BY <1>0, <1>3 DEF DispatchCancelled, CloseJobs, Return, SlotInv, test, env
<1>4. ASSUME NEW s \in Specs, RunOne(s) PROVE SlotInv(t)'
  <2>1. CASE s = t
    BY <1>0, <1>4, <2>1, RunOneSlot
  <2>2. CASE s # t
    BY <1>0, <1>4, <2>2, RunOneFrame DEF SlotInv
  <2> QED
    BY <2>1, <2>2
<1>5. CASE Cancel \/ Interrupt \/ UNCHANGED vars
  BY <1>0, <1>5 DEF Cancel, Interrupt, vars, SlotInv, test, env
<1>6. ASSUME NEW s \in Specs, XrayBinds(s) \/ XrayExits(s) PROVE SlotInv(t)'
  BY <1>0, <1>6 DEF XrayBinds, XrayExits, SlotInv, test
<1>7. ASSUME NEW p \in Ports, OtherBinds(p) \/ OtherCloses(p)
      PROVE  SlotInv(t)'
  BY <1>0, <1>7 DEF OtherBinds, OtherCloses, SlotInv, test
<1> QED
  BY <1>1, <1>2, <1>3, <1>4, <1>5, <1>6, <1>7, StepCases

-----------------------------------------------------------------------------
(* The ports.                                                              *)

LEMMA PortStep ==
    ASSUME TypeOK, PoolInv, SlotsInv, PortInv, [Next]_vars
    PROVE  PortInv'
<1> USE DEF TypeOK, PortInv
<1>0. \A s \in Specs : SlotInv(s)
  BY DEF SlotsInv
<1>1. ASSUME NEW w \in Workers, Dispatch(w) \/ WorkerExits(w) PROVE PortInv'
  BY <1>1 DEF Dispatch, WorkerExits, test, env
<1>2. CASE DispatchCancelled \/ CloseJobs \/ Return
  BY <1>2 DEF DispatchCancelled, CloseJobs, Return, test, env
<1>3. ASSUME NEW s \in Specs, AllocatePort(s) PROVE PortInv'
  <2>1. PICK p \in Ports : /\ listener[p] = None
                           /\ port' = [port EXCEPT ![s] = p]
    BY <1>3 DEF AllocatePort, FreePorts
  <2> QED
    BY <1>3, <2>1 DEF AllocatePort, env
<1>4. ASSUME NEW s \in Specs, ProbeAttempt(s) PROVE PortInv'
  <2>1. PICK t \in Serving(port[s]) : via' = [via EXCEPT ![s] = @ \cup {t}]
    BY <1>4 DEF ProbeAttempt
  <2>2. port[s] \in Ports
    BY <1>0, <1>4 DEF ProbeAttempt, SlotInv
  <2>3. listener[port[s]] = t /\ t # None
    BY <2>1, BatchAssumption DEF Serving, Specs, Other
  <2>4. UNCHANGED <<port, listener, taken>>
    BY <1>4 DEF ProbeAttempt, env
  <2>5. s \notin taken => t = s
    BY <2>2, <2>3, BatchAssumption
  <2> QED
    BY <2>1, <2>4, <2>5
<1>5. ASSUME NEW s \in Specs, RunOne(s), ~AllocatePort(s), ~ProbeAttempt(s)
      PROVE  PortInv'
  <2>1. UNCHANGED <<via, listener, taken>>
    BY <1>5 DEF RunOne, Prepare, PrepareFails, AllocateFails, Finish, env,
                ValidationPasses, ValidationFails, StartFails, DialSucceeds,
                DialFails, SelectTick, SelectExited, SelectCancelled,
                SelectDeadline, Stop, ProbeEnds, ReapExited, ReapTimeout
  <2>2. port' \in {port, [port EXCEPT ![s] = None]}
    BY <1>5 DEF RunOne, Prepare, PrepareFails, AllocateFails, Finish,
                ValidationPasses, ValidationFails, StartFails, DialSucceeds,
                DialFails, SelectTick, SelectExited, SelectCancelled,
                SelectDeadline, Stop, ProbeEnds, ReapExited, ReapTimeout
  <2> QED
    BY <2>1, <2>2
<1>6. CASE Cancel \/ Interrupt \/ UNCHANGED vars
  BY <1>6 DEF Cancel, Interrupt, vars, test, env
<1>7. ASSUME NEW s \in Specs, XrayBinds(s) PROVE PortInv'
  <2>1. port[s] \in Ports
    BY <1>0, <1>7 DEF XrayBinds, SlotInv, Running
  <2>2. /\ listener' = [listener EXCEPT ![port[s]] = s]
        /\ taken' = taken \cup ({t \in Specs : port[t] = port[s]} \ {s})
        /\ UNCHANGED <<port, via>>
    BY <1>7 DEF XrayBinds, Given, test
  <2> QED
    BY <2>1, <2>2
<1>8. ASSUME NEW s \in Specs, XrayExits(s) PROVE PortInv'
  <2>1. /\ UNCHANGED <<port, via, taken>>
        /\ \A p \in Ports : listener'[p] \in {None, listener[p]}
    BY <1>8 DEF XrayExits, test
  <2>2. \A t \in Specs : port[t] # None => port[t] \in Ports
    OBVIOUS
  <2> QED
    BY <2>1, <2>2
<1>9. ASSUME NEW p \in Ports, OtherBinds(p) \/ OtherCloses(p) PROVE PortInv'
  <2>1. /\ UNCHANGED <<port, via>>
        /\ \/ /\ listener' = [listener EXCEPT ![p] = Other]
              /\ taken' = taken \cup {t \in Specs : port[t] = p}
           \/ /\ listener' = [listener EXCEPT ![p] = None]
              /\ taken' = taken
    BY <1>9 DEF OtherBinds, OtherCloses, Given, test
  <2> QED
    BY <2>1
<1> QED
  BY <1>1, <1>2, <1>3, <1>4, <1>5, <1>6, <1>7, <1>8, <1>9, StepCases

-----------------------------------------------------------------------------
(* The results.                                                            *)

BatchInv == TypeOK /\ PoolInv /\ SlotsInv

LEMMA BatchInvariant == Spec => []BatchInv
<1>1. Init => BatchInv
  BY TypeInit, InvInit DEF BatchInv
<1>2. BatchInv /\ [Next]_vars => BatchInv'
  BY TypeStep, PoolStep, SlotStep DEF BatchInv
<1> QED
  BY <1>1, <1>2, PTL DEF Spec

\* Whatever exit runOne takes, whichever Xray hangs, exits early or outlives
\* its kill: no directory and no process that was not killed stays behind a
\* configuration that is not being tested.
THEOREM CleanUp == Spec => []NothingLeftBehind
<1>1. BatchInv => NothingLeftBehind
  BY DEF BatchInv, SlotsInv, SlotInv, NothingLeftBehind, Active
<1> QED
  BY <1>1, BatchInvariant, PTL

\* ProcessesBounded: a process that runs is of a test in progress, and that has
\* a worker of its own.
THEOREM PoolBounds == Spec => []ProcessesBounded
<1>1. BatchInv => ProcessesBounded
  <2> SUFFICES ASSUME BatchInv PROVE ProcessesBounded
    OBVIOUS
  <2> DEFINE Run == {s \in Specs : proc[s] \in Running}
             Busy == {w \in Workers : job[w] # None}
             worker == [s \in Run |-> CHOOSE w \in Workers : job[w] = s]
  <2>1. \A s \in Run : \E w \in Workers : job[w] = s
    BY DEF BatchInv, SlotsInv, SlotInv, PoolInv, Active
  <2>2. \A s \in Run : worker[s] \in Workers /\ job[worker[s]] = s
    BY <2>1
  <2>3. \A s \in Run : worker[s] \in Busy
    BY <2>2 DEF Specs
  <2>4. \A s, t \in Run : worker[s] = worker[t] => s = t
    BY <2>2
  <2>5. worker \in Injection(Run, Busy)
    BY <2>3, <2>4 DEF Injection, IsInjective
  <2>6. IsFiniteSet(Busy)
    <3>1. PoolSize \in Int
      BY BatchAssumption DEF PoolSize
    <3>2. IsFiniteSet(Workers)
      BY <3>1, FS_Interval DEF Workers
    <3>3. Busy \subseteq Workers
      OBVIOUS
    <3> QED
      BY <3>2, <3>3, FS_Subset
  <2>7. Cardinality(Run) <= Cardinality(Busy)
    <3> HIDE DEF Run, Busy, worker
    <3> QED
      BY <2>5, <2>6, FS_Injection
  <2> QED
    BY <2>7 DEF ProcessesBounded
<1> QED
  BY <1>1, BatchInvariant, PTL

\* MeasuredThroughOwnCore: the kernel may give a port out again and any other
\* program may open it; only a test to which that happened can have been
\* measured through a process that is not its own.
THEOREM OwnCore == Spec => []MeasuredThroughOwnCore
<1> DEFINE Inv == BatchInv /\ PortInv
<1>1. Init => Inv
  BY TypeInit, InvInit DEF BatchInv
<1>2. Inv /\ [Next]_vars => Inv'
  BY TypeStep, PoolStep, SlotStep, PortStep DEF BatchInv
<1>3. Inv => MeasuredThroughOwnCore
  BY DEF BatchInv, SlotsInv, SlotInv, PortInv, TypeOK, MeasuredThroughOwnCore
<1> HIDE DEF Inv
<1> QED
  BY <1>1, <1>2, <1>3, PTL DEF Spec

-----------------------------------------------------------------------------
(* The batch implements its contract.                                      *)

LEMMA ContractInit == Init => Batch!Init
BY DEF Init, Batch!Init, Batch!Slots, Phase, Specs

LEMMA ContractStep ==
    BatchInv /\ [Next]_vars => [Batch!Next]_<<status, Phase>>
<1> SUFFICES ASSUME BatchInv, [Next]_vars
             PROVE  [Batch!Next]_<<status, Phase>>
  OBVIOUS
<1> USE DEF BatchInv, TypeOK, Batch!Slots
<1>1. ASSUME run' = run, status' = status
      PROVE  UNCHANGED <<status, Phase>>
  BY <1>1 DEF Phase
<1>2. ASSUME NEW w \in Workers, Dispatch(w) \/ WorkerExits(w)
      PROVE  UNCHANGED <<status, Phase>>
  BY <1>2, <1>1 DEF Dispatch, WorkerExits, test
<1>3. CASE DispatchCancelled \/ CloseJobs
  BY <1>3 DEF DispatchCancelled, CloseJobs, test, Phase
<1>4. CASE Return
  <2>1. \A s \in Specs : stage[s] \in {"queued", "done"}
    BY <1>4 DEF Return, AllWorkersGone, PoolInv, Active, Specs
  <2>2. \A s \in Specs : status[s] # "blank" <=> s <= sent
    BY <2>1, BatchAssumption DEF PoolInv, SlotsInv, SlotInv, Specs
  <2>3. Batch!Filled = 1..sent
    BY <2>2, BatchAssumption DEF Batch!Filled, Specs
  <2>4. CASE run = "closed"
    <3>1. Phase = "running" /\ Phase' = "complete" /\ status' = status
      BY <1>4, <2>4 DEF Return, Phase, test
    <3>2. sent = NumSpecs
      BY <2>4 DEF PoolInv
    <3> QED
      BY <2>3, <3>1, <3>2 DEF Batch!Next, Batch!Complete
  <2>5. CASE run = "cut"
    <3>1. Phase = "running" /\ Phase' = "cancelled" /\ status' = status
      BY <1>4, <2>5 DEF Return, Phase, test
    <3>2. sent \in 0..(NumSpecs - 1)
      BY <2>5, BatchAssumption DEF PoolInv
    <3> QED
      BY <2>3, <3>1, <3>2 DEF Batch!Next, Batch!Cancelled
  <2> QED
    BY <1>4, <2>4, <2>5 DEF Return
<1>5. ASSUME NEW s \in Specs, RunOne(s)
      PROVE  [Batch!Next]_<<status, Phase>>
  <2>1. CASE \E e \in Errors : Finish(s, e)
    <3>1. Active(s) /\ status[s] = "blank"
      BY <1>5, RunOneShape DEF SlotsInv, SlotInv, Active
    <3>2. Phase = "running" /\ Phase' = "running"
      BY <2>1, <3>1 DEF Finish, PoolInv, Returned, Phase, Active, Specs
    <3>3. \E o \in {"ok", "failed"} : status' = [status EXCEPT ![s] = o]
      BY <2>1 DEF Finish
    <3> QED
      BY <3>1, <3>2, <3>3 DEF Batch!Next, Batch!Record, Specs
  <2>2. CASE UNCHANGED pool /\ status' = status
    BY <2>2, <1>1 DEF pool
  <2>3. (UNCHANGED pool /\ status' = status) \/ \E e \in Errors : Finish(s, e)
    BY <1>5 DEF RunOne, AllocatePort, AllocateFails, Prepare, PrepareFails,
                ValidationPasses, ValidationFails, StartFails, DialSucceeds,
                DialFails, SelectTick, SelectExited, SelectCancelled,
                SelectDeadline, Stop, ProbeAttempt, ProbeEnds, ReapExited,
                ReapTimeout, Errors
  <2> QED
    BY <2>1, <2>2, <2>3
<1>6. CASE Cancel \/ Interrupt \/ UNCHANGED vars
  BY <1>6, <1>1 DEF Cancel, Interrupt, vars, pool, test
<1>7. ASSUME NEW s \in Specs, XrayBinds(s) \/ XrayExits(s)
      PROVE  UNCHANGED <<status, Phase>>
  BY <1>7, <1>1 DEF XrayBinds, XrayExits, pool, test
<1>8. ASSUME NEW p \in Ports, OtherBinds(p) \/ OtherCloses(p)
      PROVE  UNCHANGED <<status, Phase>>
  BY <1>8, <1>1 DEF OtherBinds, OtherCloses, pool, test
<1> QED
  BY <1>2, <1>3, <1>4, <1>5, <1>6, <1>7, <1>8, StepCases

\* Every behaviour of the pool is one of the contract: no slot is written
\* twice or after the return, and the returned slice is complete, or a
\* prefix with an error.
THEOREM Implements == Spec => ImplementsContract
<1>1. BatchInv /\ [Next]_vars => [Batch!Next]_Batch!contractVars
  BY ContractStep DEF Batch!contractVars
<1> QED
  BY <1>1, ContractInit, BatchInvariant, PTL
     DEF Spec, ImplementsContract, Batch!Contract

-----------------------------------------------------------------------------
(* Ranks: an order of a finite set lists it.                               *)

\* R puts the elements of S in a line.
Lines(R, S) ==
    /\ \A i \in S : <<i, i>> \notin R
    /\ \A i, j \in S : i # j => <<i, j>> \in R \/ <<j, i>> \in R
    /\ \A i, j, k \in S : <<i, j>> \in R /\ <<j, k>> \in R => <<i, k>> \in R

\* Those before i in the line.
Ahead(S, R, i) == {j \in S : <<j, i>> \in R}

\* There are n numbers up to n.
LEMMA FirstNumbers ==
    ASSUME NEW n \in Nat
    PROVE  IsFiniteSet(1..n) /\ Cardinality(1..n) = n
<1>1. /\ IsFiniteSet(1..n)
      /\ Cardinality(1..n) = IF 1 > n THEN 0 ELSE n - 1 + 1
  BY FS_Interval
<1> QED
  BY <1>1

\* They can be counted.
LEMMA AheadTypes ==
    ASSUME NEW S, IsFiniteSet(S), NEW R, NEW i
    PROVE  Cardinality(Ahead(S, R, i)) \in Nat
<1>1. Ahead(S, R, i) \in SUBSET S
  BY DEF Ahead
<1> QED
  BY <1>1, FS_Subset, FS_CardinalityType

\* Fewer elements are ahead of the one that comes first.
LEMMA AheadGrows ==
    ASSUME NEW S, IsFiniteSet(S), NEW R, Lines(R, S),
           NEW i \in S, NEW j \in S, <<i, j>> \in R
    PROVE  Cardinality(Ahead(S, R, i)) < Cardinality(Ahead(S, R, j))
<1> DEFINE a == Ahead(S, R, i)
           b == Ahead(S, R, j)
<1>1. a \in SUBSET b /\ i \in b /\ i \notin a /\ b \in SUBSET S
  BY DEF Ahead, Lines
<1> HIDE DEF a, b
<1>2. IsFiniteSet(b)
  BY <1>1, FS_Subset
<1>3. IsFiniteSet(a) /\ Cardinality(a) <= Cardinality(b)
      /\ (Cardinality(b) = Cardinality(a) => b = a)
  BY <1>1, <1>2, FS_Subset
<1>4. Cardinality(a) \in Nat /\ Cardinality(b) \in Nat
  BY <1>2, <1>3, FS_CardinalityType
<1>5. Cardinality(a) < Cardinality(b)
  BY <1>1, <1>3, <1>4
<1> QED
  BY <1>5 DEF a, b

\* How many are ahead tells the elements of S apart and leaves no gap.
LEMMA AheadNumbers ==
    ASSUME NEW S, IsFiniteSet(S), NEW R, Lines(R, S)
    PROVE  /\ Cardinality(S) \in Nat
           /\ \A i \in S : Cardinality(Ahead(S, R, i)) + 1 \in 1..Cardinality(S)
           /\ \A k \in 1..Cardinality(S) :
                  \E i \in S : Cardinality(Ahead(S, R, i)) = k - 1
<1> DEFINE n == Cardinality(S)
           rank == [i \in S |-> Cardinality(Ahead(S, R, i)) + 1]
<1>1. n \in Nat
  BY FS_CardinalityType
<1>2. ASSUME NEW i \in S
      PROVE  Cardinality(Ahead(S, R, i)) + 1 \in 1..n
  <2>1. Ahead(S, R, i) \in SUBSET S /\ i \notin Ahead(S, R, i)
    BY DEF Ahead, Lines
  <2>2. /\ IsFiniteSet(Ahead(S, R, i))
        /\ Cardinality(Ahead(S, R, i)) <= n
        /\ n = Cardinality(Ahead(S, R, i)) => S = Ahead(S, R, i)
    BY <2>1, FS_Subset
  <2>3. Cardinality(Ahead(S, R, i)) \in Nat
    BY <2>2, FS_CardinalityType
  <2> QED
    BY <1>1, <2>1, <2>2, <2>3
<1>3. rank \in Injection(S, 1..n)
  <2>1. rank \in [S -> 1..n]
    BY <1>2
  <2>2. ASSUME NEW i \in S, NEW j \in S, i # j
        PROVE  rank[i] # rank[j]
    <3>1. \/ Cardinality(Ahead(S, R, i)) < Cardinality(Ahead(S, R, j))
          \/ Cardinality(Ahead(S, R, j)) < Cardinality(Ahead(S, R, i))
      BY <2>2, AheadGrows DEF Lines
    <3>2. Cardinality(Ahead(S, R, i)) \in Int /\ Cardinality(Ahead(S, R, j)) \in Int
      BY AheadTypes
    <3> QED
      BY <3>1, <3>2
  <2> QED
    BY <2>1, <2>2 DEF Injection, IsInjective
<1>4. rank \in Surjection(S, 1..n)
  BY <1>1, <1>3, FirstNumbers, FS_Injection
<1>5. ASSUME NEW k \in 1..n
      PROVE  \E i \in S : Cardinality(Ahead(S, R, i)) = k - 1
  <2>1. PICK i \in S : rank[i] = k
    BY <1>4 DEF Surjection
  <2>2. Cardinality(Ahead(S, R, i)) \in Int
    BY AheadTypes
  <2> QED
    BY <2>1, <2>2
<1> QED
  BY <1>1, <1>2, <1>5

\* Nth lists S in the order R: each element once, and none out of its place.
LEMMA NthLists ==
    ASSUME NEW S, IsFiniteSet(S), NEW R, Lines(R, S)
    PROVE  /\ Cardinality(S) \in Nat
           /\ \A k \in 1..Cardinality(S) : Nth(S, R, k) \in S
           /\ \A k, l \in 1..Cardinality(S) :
                  k < l => <<Nth(S, R, k), Nth(S, R, l)>> \in R
           /\ \A i \in S : \E k \in 1..Cardinality(S) : Nth(S, R, k) = i
<1> DEFINE n == Cardinality(S)
<1>1. n \in Nat
  BY FS_CardinalityType
<1>2. ASSUME NEW k \in 1..n
      PROVE  /\ Nth(S, R, k) \in S
             /\ Cardinality(Ahead(S, R, Nth(S, R, k))) = k - 1
  <2>1. \E i \in S : Cardinality(Ahead(S, R, i)) = k - 1
    BY AheadNumbers
  <2>2. Nth(S, R, k) = CHOOSE i \in S : Cardinality(Ahead(S, R, i)) = k - 1
    BY DEF Nth, Ahead
  <2> QED
    BY <2>1, <2>2
<1>3. ASSUME NEW i \in S, NEW j \in S,
             Cardinality(Ahead(S, R, i)) < Cardinality(Ahead(S, R, j))
      PROVE  <<i, j>> \in R
  <2>1. Cardinality(Ahead(S, R, i)) \in Int /\ Cardinality(Ahead(S, R, j)) \in Int
    BY AheadTypes
  <2> SUFFICES ASSUME <<i, j>> \notin R PROVE FALSE
    OBVIOUS
  <2>2. i # j
    BY <1>3, <2>1
  <2>3. <<j, i>> \in R
    BY <2>2 DEF Lines
  <2> QED
    BY <1>3, <2>1, <2>3, AheadGrows
<1>4. ASSUME NEW k \in 1..n, NEW l \in 1..n, k < l
      PROVE  <<Nth(S, R, k), Nth(S, R, l)>> \in R
  BY <1>1, <1>2, <1>3, <1>4
<1>5. ASSUME NEW i \in S
      PROVE  \E k \in 1..n : Nth(S, R, k) = i
  <2> DEFINE k == Cardinality(Ahead(S, R, i)) + 1
  <2>1. k \in 1..n /\ Cardinality(Ahead(S, R, i)) = k - 1
    BY AheadNumbers, AheadTypes
  <2> HIDE DEF k
  <2>2. /\ Nth(S, R, k) \in S
        /\ Cardinality(Ahead(S, R, Nth(S, R, k))) = Cardinality(Ahead(S, R, i))
    BY <1>2, <2>1
  <2>3. Nth(S, R, k) = i
    <3> SUFFICES ASSUME Nth(S, R, k) # i PROVE FALSE
      OBVIOUS
    <3>1. Cardinality(Ahead(S, R, i)) \in Int
      BY AheadTypes
    <3>2. <<Nth(S, R, k), i>> \in R \/ <<i, Nth(S, R, k)>> \in R
      BY <2>2 DEF Lines
    <3> QED
      BY <2>2, <3>1, <3>2, AheadGrows
  <2> QED
    BY <2>1, <2>3
<1> QED
  BY <1>1, <1>2, <1>4, <1>5

\* The results of n configurations, in the order of the source.
Outcomes(rs, n) ==
    /\ n \in Nat /\ DOMAIN rs = 1..n
    /\ \A i \in 1..n : /\ rs[i].index = i
                       /\ rs[i].status \in {"ok", "failed"}
                       /\ rs[i].score \in Nat

\* The results themselves.
Elements(rs) == {rs[i] : i \in DOMAIN rs}

\* Less is the order of quality, and with the place for equals a line.
LEMMA OrderLines ==
    ASSUME NEW rs, NEW n, Outcomes(rs, n)
    PROVE  Lines(Order(rs), 1..n)
<1>1. \A i, j \in 1..n : <<i, j>> \in Order(rs) <=> Precedes(rs, i, j)
  BY DEF Order, Outcomes
<1>2. \A i, j \in 1..n :
          Less(rs[i], rs[j]) <=>
              \/ rs[i].status = "ok" /\ rs[j].status = "failed"
              \/ rs[i].status = rs[j].status /\ rs[i].score > rs[j].score
  BY DEF Outcomes, Less, IsOk
<1>3. \A i, j \in 1..n :
          Precedes(rs, i, j) <=>
              \/ rs[i].status = "ok" /\ rs[j].status = "failed"
              \/ /\ rs[i].status = rs[j].status
                 /\ \/ rs[i].score > rs[j].score
                    \/ rs[i].score = rs[j].score /\ i < j
  BY <1>2 DEF Outcomes, Precedes
<1>4. \A i \in 1..n : ~Precedes(rs, i, i)
  BY <1>3 DEF Outcomes
<1>5. \A i, j \in 1..n : i # j => Precedes(rs, i, j) \/ Precedes(rs, j, i)
  BY <1>3 DEF Outcomes
<1>6. \A i, j, k \in 1..n :
          Precedes(rs, i, j) /\ Precedes(rs, j, k) => Precedes(rs, i, k)
  BY <1>3 DEF Outcomes
<1> QED
  BY <1>1, <1>4, <1>5, <1>6 DEF Lines

\* list is what a stable sort makes of the results.
Sorts(list, rs, n) ==
    /\ list \in [1..n -> Elements(rs)]
    /\ \A k \in 1..n : list[k].index \in 1..n /\ list[k] = rs[list[k].index]
    /\ \A k, l \in 1..n : k < l => Precedes(rs, list[k].index, list[l].index)
    /\ \A i \in 1..n : \E k \in 1..n : list[k].index = i

LEMMA SortedSorts ==
    ASSUME NEW rs, NEW n, Outcomes(rs, n)
    PROVE  Sorts(Sorted(rs), rs, n)
<1> DEFINE At(k) == Nth(1..n, Order(rs), k)
<1>1. n \in Nat /\ DOMAIN rs = 1..n
  BY DEF Outcomes
<1>2. IsFiniteSet(1..n) /\ Cardinality(1..n) = n
  BY <1>1, FirstNumbers
<1>3. /\ \A k \in 1..n : At(k) \in 1..n
      /\ \A k, l \in 1..n : k < l => <<At(k), At(l)>> \in Order(rs)
      /\ \A i \in 1..n : \E k \in 1..n : At(k) = i
  <2> HIDE DEF At
  <2> DEFINE S == 1..n
             R == Order(rs)
  <2>1. /\ \A k \in 1..Cardinality(S) : Nth(S, R, k) \in S
        /\ \A k, l \in 1..Cardinality(S) :
               k < l => <<Nth(S, R, k), Nth(S, R, l)>> \in R
        /\ \A i \in S : \E k \in 1..Cardinality(S) : Nth(S, R, k) = i
    BY <1>2, OrderLines, NthLists
  <2> QED
    BY <1>2, <2>1 DEF At
<1>4. \A k \in 1..n : Sorted(rs)[k] = rs[At(k)]
  BY <1>1 DEF Sorted
<1>5. Sorted(rs) \in [1..n -> Elements(rs)]
  BY <1>1, <1>3 DEF Sorted, Elements
<1> HIDE DEF At
<1>6. \A k \in 1..n : Sorted(rs)[k].index = At(k)
  BY <1>3, <1>4 DEF Outcomes
<1>7. \A i, j \in 1..n : <<i, j>> \in Order(rs) => Precedes(rs, i, j)
  BY DEF Order
<1> QED
  BY <1>3, <1>4, <1>5, <1>6, <1>7 DEF Sorts

\* Kept keeps the elements at the places it is given, in their order.
PlaceOf(places, k) == Nth(places, Earlier(places), k)

\* kept has the elements of list at the places, in their order.
Keeps(kept, list, S, places) ==
    /\ kept \in Seq(S) /\ Len(kept) = Cardinality(places)
    /\ \A k \in 1..Len(kept) :
           PlaceOf(places, k) \in places /\ kept[k] = list[PlaceOf(places, k)]
    /\ \A k, l \in 1..Len(kept) : k < l => PlaceOf(places, k) < PlaceOf(places, l)
    /\ \A p \in places : \E k \in 1..Len(kept) : PlaceOf(places, k) = p

LEMMA KeptKeeps ==
    ASSUME NEW n \in Nat, NEW S, NEW list \in [1..n -> S], NEW places \in SUBSET (1..n)
    PROVE  Keeps(Kept(list, places), list, S, places)
<1> DEFINE m == Cardinality(places)
<1>1. IsFiniteSet(places)
  BY FirstNumbers, FS_Subset
<1>2. Lines(Earlier(places), places)
  <2>1. \A i, j \in places : <<i, j>> \in Earlier(places) <=> i < j
    BY DEF Earlier
  <2>2. places \in SUBSET Nat
    OBVIOUS
  <2> QED
    BY <2>1, <2>2 DEF Lines
<1>3. /\ m \in Nat
      /\ \A k \in 1..m : PlaceOf(places, k) \in places
      /\ \A k, l \in 1..m :
             k < l => <<PlaceOf(places, k), PlaceOf(places, l)>> \in Earlier(places)
      /\ \A i \in places : \E k \in 1..m : PlaceOf(places, k) = i
  BY <1>1, <1>2, NthLists DEF PlaceOf
<1>4. \A k, l \in 1..m : k < l => PlaceOf(places, k) < PlaceOf(places, l)
  BY <1>3 DEF Earlier
<1>5. Kept(list, places) = [k \in 1..m |-> list[PlaceOf(places, k)]]
  BY DEF Kept, PlaceOf
<1> HIDE DEF m
<1>6. \A k \in 1..m : list[PlaceOf(places, k)] \in S
  BY <1>3
<1>7. Kept(list, places) \in Seq(S) /\ Len(Kept(list, places)) = m
  BY <1>3, <1>5, <1>6
<1> QED
  BY <1>3, <1>4, <1>5, <1>7 DEF m, Keeps

\* As many values as places, when no value is at two places.
LEMMA DistinctValues ==
    ASSUME NEW m \in Nat, NEW f, DOMAIN f = 1..m,
           \A k, l \in 1..m : k < l => f[k] # f[l]
    PROVE  /\ IsFiniteSet({f[k] : k \in 1..m})
           /\ Cardinality({f[k] : k \in 1..m}) = m
<1> DEFINE image == {f[k] : k \in 1..m}
           g == [k \in 1..m |-> f[k]]
<1>1. g \in Surjection(1..m, image)
  BY DEF Surjection
<1>2. g \in Injection(1..m, image)
  <2>1. \A k, l \in 1..m : k # l => g[k] # g[l]
    <3>1. \A k, l \in 1..m : k # l => k < l \/ l < k
      OBVIOUS
    <3> QED
      BY <3>1
  <2> QED
    BY <2>1 DEF Injection, IsInjective
<1>3. IsFiniteSet(1..m) /\ Cardinality(1..m) = m
  BY FirstNumbers
<1> HIDE DEF g, image
<1>4. IsFiniteSet(image) /\ Cardinality(image) = Cardinality(1..m)
  BY <1>1, <1>2, <1>3, FS_Surjection
<1> QED
  BY <1>3, <1>4 DEF image

\* The results of some configurations, picked out of the sorted ones.
Chosen(rs, n, specs) == Kept(Sorted(rs), {k \in 1..n : Sorted(rs)[k].index \in specs})

\* chosen has the results of specs, the better ones first.
Chooses(chosen, rs, specs) ==
    /\ chosen \in Seq(Elements(rs))
    /\ \A k \in 1..Len(chosen) :
           chosen[k].index \in specs /\ chosen[k] = rs[chosen[k].index]
    /\ \A k, l \in 1..Len(chosen) :
           k < l => Precedes(rs, chosen[k].index, chosen[l].index)
    /\ \A i \in specs : \E k \in 1..Len(chosen) : chosen[k].index = i

LEMMA ChosenChooses ==
    ASSUME NEW rs, NEW n, Outcomes(rs, n), NEW specs \in SUBSET (1..n)
    PROVE  Chooses(Chosen(rs, n, specs), rs, specs)
<1> DEFINE list == Sorted(rs)
           places == {k \in 1..n : list[k].index \in specs}
           chosen == Chosen(rs, n, specs)
           At(k) == PlaceOf(places, k)
<1>1. n \in Nat
  BY DEF Outcomes
<1>2. /\ list \in [1..n -> Elements(rs)]
      /\ \A k \in 1..n : list[k].index \in 1..n /\ list[k] = rs[list[k].index]
      /\ \A k, l \in 1..n : k < l => Precedes(rs, list[k].index, list[l].index)
      /\ \A i \in 1..n : \E k \in 1..n : list[k].index = i
  BY SortedSorts DEF Sorts
<1>3. chosen = Kept(list, places)
  BY DEF Chosen
<1>4. /\ places \in SUBSET (1..n)
      /\ \A k \in places : list[k].index \in specs
      /\ \A k \in 1..n : list[k].index \in specs => k \in places
  OBVIOUS
<1> HIDE DEF list, chosen, places
<1>5. /\ chosen \in Seq(Elements(rs))
      /\ Len(chosen) = Cardinality(places)
      /\ \A k \in 1..Len(chosen) : At(k) \in places /\ chosen[k] = list[At(k)]
      /\ \A k, l \in 1..Len(chosen) : k < l => At(k) < At(l)
      /\ \A p \in places : \E k \in 1..Len(chosen) : At(k) = p
  <2>1. Keeps(chosen, list, Elements(rs), places)
    BY <1>1, <1>2, <1>3, <1>4, KeptKeeps
  <2> QED
    BY <2>1 DEF Keeps
<1> HIDE DEF At
<1>6. \A k \in 1..Len(chosen) :
          At(k) \in 1..n /\ list[At(k)].index \in specs /\ chosen[k] = list[At(k)]
  BY <1>4, <1>5
<1>7. \A k \in 1..Len(chosen) :
          chosen[k].index \in specs /\ chosen[k] = rs[chosen[k].index]
  BY <1>2, <1>6
<1>8. \A k, l \in 1..Len(chosen) :
          k < l => Precedes(rs, chosen[k].index, chosen[l].index)
  <2> SUFFICES ASSUME NEW k \in 1..Len(chosen), NEW l \in 1..Len(chosen), k < l
               PROVE  Precedes(rs, chosen[k].index, chosen[l].index)
    OBVIOUS
  <2>1. Precedes(rs, list[At(k)].index, list[At(l)].index)
    BY <1>2, <1>5, <1>6
  <2> QED
    BY <1>6, <2>1
<1>9. \A i \in specs : \E k \in 1..Len(chosen) : chosen[k].index = i
  <2> SUFFICES ASSUME NEW i \in specs
               PROVE  \E k \in 1..Len(chosen) : chosen[k].index = i
    OBVIOUS
  <2>1. PICK p \in 1..n : list[p].index = i
    BY <1>2
  <2>2. p \in places
    BY <1>4, <2>1
  <2>3. PICK k \in 1..Len(chosen) : At(k) = p
    BY <1>5, <2>2
  <2> QED
    BY <1>6, <2>1, <2>3
<1> QED
  BY <1>5, <1>7, <1>8, <1>9 DEF chosen, Chooses

\* They are all there, once each.
LEMMA ChosenCount ==
    ASSUME NEW rs, NEW n, Outcomes(rs, n), NEW specs \in SUBSET (1..n)
    PROVE  /\ Len(Chosen(rs, n, specs)) = Cardinality(specs)
           /\ IndicesOf(Chosen(rs, n, specs)) = specs
           /\ \A k, l \in 1..Len(Chosen(rs, n, specs)) :
                  k < l => Chosen(rs, n, specs)[k].index # Chosen(rs, n, specs)[l].index
<1> DEFINE chosen == Chosen(rs, n, specs)
           f == [k \in 1..Len(chosen) |-> chosen[k].index]
<1>1. Chooses(chosen, rs, specs)
  BY ChosenChooses
<1> HIDE DEF chosen
<1>2. Len(chosen) \in Nat /\ DOMAIN chosen = 1..Len(chosen)
  BY <1>1 DEF Chooses
<1>3. \A i \in specs : ~Precedes(rs, i, i)
  <2> SUFFICES ASSUME NEW i \in specs PROVE ~Precedes(rs, i, i)
    OBVIOUS
  <2>1. i \in 1..n /\ n \in Nat /\ rs[i].score \in Nat
    BY DEF Outcomes
  <2> QED
    BY <2>1 DEF Precedes, Less
<1>4. \A k, l \in 1..Len(chosen) : k < l => chosen[k].index # chosen[l].index
  BY <1>1, <1>3 DEF Chooses
<1>5. {f[k] : k \in 1..Len(chosen)} = specs /\ IndicesOf(chosen) = specs
  BY <1>1, <1>2 DEF IndicesOf, Chooses
<1>6. Cardinality({f[k] : k \in 1..Len(chosen)}) = Len(chosen)
  <2>1. DOMAIN f = 1..Len(chosen) /\ \A k, l \in 1..Len(chosen) : k < l => f[k] # f[l]
    BY <1>4
  <2> HIDE DEF f
  <2> QED
    BY <1>2, <2>1, DistinctValues
<1> QED
  BY <1>4, <1>5, <1>6 DEF chosen

-----------------------------------------------------------------------------
(* What Service.Run returned, and the report of it.                        *)

\* The configurations that work.
OkSpecs == {s \in Specs : status[s] = "ok"}

LEMMA ReturnedOutcomes ==
    ASSUME TypeOK, PoolInv, SlotsInv, NEW rs \in Returns
    PROVE  /\ Outcomes(rs, NumSpecs)
           /\ OkSpecs \in SUBSET (1..NumSpecs)
           /\ {i \in DOMAIN rs : IsOk(rs[i])} = OkSpecs
           /\ {i \in DOMAIN rs : IsFailed(rs[i])} = Specs \ OkSpecs
<1>1. run = "returned"
  BY DEF Returns
<1>2. PICK score \in [Specs -> Scores] : rs = Results(score)
  BY <1>1 DEF Returns
<1>3. Specs = 1..NumSpecs /\ NumSpecs \in Nat
  BY BatchAssumption DEF Specs
<1>4. \A s \in Specs : status[s] \in {"ok", "failed"}
  <2> SUFFICES ASSUME NEW s \in Specs PROVE status[s] \in {"ok", "failed"}
    OBVIOUS
  <2>1. gone = Workers /\ sent = NumSpecs
    BY <1>1 DEF PoolInv, Returned
  <2>2. stage[s] # "queued"
    BY <1>3, <2>1 DEF PoolInv
  <2>3. ~Active(s)
    BY <1>3, <2>1 DEF PoolInv
  <2>4. stage[s] = "done"
    BY <2>2, <2>3 DEF Active
  <2> QED
    BY <2>4 DEF SlotsInv, SlotInv, TypeOK
<1>5. \A s \in Specs : score[s] \in Nat
  BY ScoresAssumption
<1>6. /\ DOMAIN rs = Specs
      /\ \A s \in Specs : /\ rs[s].index = s /\ rs[s].status = status[s]
                          /\ rs[s].score = score[s]
  BY <1>2 DEF Results
<1>7. Outcomes(rs, NumSpecs)
  BY <1>3, <1>4, <1>5, <1>6 DEF Outcomes
<1> QED
  BY <1>3, <1>6, <1>7 DEF OkSpecs, IsOk, IsFailed

\* The two loops over the sorted results leave the working ones and the failed
\* ones.
LEMMA LoopsChoose ==
    ASSUME NEW rs, NEW n, Outcomes(rs, n)
    PROVE  /\ Working(Sorted(rs)) = Chosen(rs, n, {i \in DOMAIN rs : IsOk(rs[i])})
           /\ Failing(Sorted(rs)) = Chosen(rs, n, {i \in DOMAIN rs : IsFailed(rs[i])})
<1> DEFINE list == Sorted(rs)
<1>1. /\ DOMAIN list = 1..n /\ DOMAIN rs = 1..n
      /\ \A k \in 1..n : list[k].index \in 1..n /\ list[k] = rs[list[k].index]
  BY SortedSorts DEF Sorts, Outcomes
<1> HIDE DEF list
<1>2. {k \in DOMAIN list : IsOk(list[k])}
        = {k \in 1..n : list[k].index \in {i \in DOMAIN rs : IsOk(rs[i])}}
  BY <1>1
<1>3. {k \in DOMAIN list : IsFailed(list[k])}
        = {k \in 1..n : list[k].index \in {i \in DOMAIN rs : IsFailed(rs[i])}}
  BY <1>1
<1> QED
  BY <1>2, <1>3 DEF Working, Failing, Chosen, list

\* The first of a list.
LEMMA FirstOnes ==
    ASSUME NEW S, NEW list \in Seq(S), NEW m \in 0..Len(list)
    PROVE  /\ SubSeq(list, 1, m) \in Seq(S)
           /\ Len(SubSeq(list, 1, m)) = m
           /\ \A k \in 1..m : SubSeq(list, 1, m)[k] = list[k]
OBVIOUS

\* The order of the sort is the order of quality.
LEMMA QualityOrder ==
    ASSUME NEW rs, NEW n, Outcomes(rs, n), NEW i \in 1..n, NEW j \in 1..n,
           Precedes(rs, i, j)
    PROVE  /\ Better(rs[i], rs[j]) \/ (~Better(rs[j], rs[i]) /\ i < j)
           /\ IsOk(rs[i]) /\ IsOk(rs[j]) => rs[i].score >= rs[j].score
BY DEF Outcomes, Precedes, Less, Better, IsOk

\* RankedByQuality: for any number of configurations and any scores, both
\* outputs are a stable sort by status and score, and the limit leaves out the
\* worst.
THEOREM QualityRanked == Spec => []RankedByQuality
<1>1. ASSUME TypeOK, PoolInv, SlotsInv, NEW rs \in Returns
      PROVE  IndicesOf(Sorted(rs)) = Specs
  <2>1. /\ Sorts(Sorted(rs), rs, NumSpecs) /\ Specs = 1..NumSpecs
    BY <1>1, ReturnedOutcomes, SortedSorts DEF Specs
  <2> QED
    BY <2>1 DEF Sorts, IndicesOf
<1>2. ASSUME TypeOK, PoolInv, SlotsInv, NEW rs \in Returns,
             NEW i \in Specs, NEW j \in Specs, i < j
      PROVE  LET a == Sorted(rs)[i]
                 b == Sorted(rs)[j]
             IN  Better(a, b) \/ (~Better(b, a) /\ a.index < b.index)
  <2>1. /\ Outcomes(rs, NumSpecs) /\ Specs = 1..NumSpecs
        /\ Sorts(Sorted(rs), rs, NumSpecs)
    BY <1>2, ReturnedOutcomes, SortedSorts DEF Specs
  <2> DEFINE a == Sorted(rs)[i]
             b == Sorted(rs)[j]
  <2>2. /\ a.index \in 1..NumSpecs /\ a = rs[a.index]
        /\ b.index \in 1..NumSpecs /\ b = rs[b.index]
        /\ Precedes(rs, a.index, b.index)
    BY <1>2, <2>1 DEF Sorts
  <2> HIDE DEF a, b
  <2>3. Better(a, b) \/ (~Better(b, a) /\ a.index < b.index)
    BY <2>1, <2>2, QualityOrder
  <2> QED
    BY <2>3 DEF a, b
<1>3. ASSUME TypeOK, PoolInv, SlotsInv, NEW rs \in Returns,
             NEW limit \in 1..NumSpecs, NEW s \in Specs,
             IsOk(rs[s]), s \notin IndicesOf(Ranked(rs, limit)),
             NEW i \in DOMAIN Ranked(rs, limit)
      PROVE  Ranked(rs, limit)[i].score >= rs[s].score
  <2> DEFINE ok == Working(Sorted(rs))
             shown == Ranked(rs, limit)
             m == IF Len(ok) < limit THEN Len(ok) ELSE limit
  <2>1. /\ Outcomes(rs, NumSpecs) /\ Specs = 1..NumSpecs
        /\ OkSpecs \in SUBSET (1..NumSpecs)
        /\ ok = Chosen(rs, NumSpecs, OkSpecs) /\ s \in OkSpecs
    <3>1. /\ Outcomes(rs, NumSpecs) /\ OkSpecs \in SUBSET (1..NumSpecs)
          /\ {k \in DOMAIN rs : IsOk(rs[k])} = OkSpecs
      BY <1>3, ReturnedOutcomes
    <3>2. ok = Chosen(rs, NumSpecs, OkSpecs)
      BY <3>1, LoopsChoose
    <3>3. DOMAIN rs = 1..NumSpecs /\ Specs = 1..NumSpecs
      BY <3>1 DEF Outcomes, Specs
    <3>4. s \in {k \in DOMAIN rs : IsOk(rs[k])}
      BY <1>3, <3>3
    <3> QED
      BY <3>1, <3>2, <3>3, <3>4
  <2>2. Chooses(ok, rs, OkSpecs)
    BY <2>1, ChosenChooses
  <2>3. shown = SubSeq(ok, 1, m)
    BY DEF Ranked, Limit
  <2> HIDE DEF ok, shown
  <2>4. ok \in Seq(Elements(rs)) /\ m \in 0..Len(ok)
    BY <2>2 DEF Chooses
  <2>5. PICK k \in 1..Len(ok) : ok[k].index = s
    BY <2>1, <2>2 DEF Chooses
  <2> HIDE DEF m
  <2>6. /\ DOMAIN shown = 1..m
        /\ \A l \in 1..m : shown[l] = ok[l]
    BY <2>3, <2>4, FirstOnes
  <2>7. k \notin 1..m
    BY <1>3, <2>5, <2>6 DEF IndicesOf, shown
  <2>8. i \in 1..m /\ i < k /\ i \in 1..Len(ok)
    BY <1>3, <2>4, <2>6, <2>7 DEF shown
  <2>9. /\ ok[i].index \in OkSpecs /\ ok[i] = rs[ok[i].index]
        /\ Precedes(rs, ok[i].index, s)
    BY <2>2, <2>5, <2>8 DEF Chooses
  <2>10. IsOk(rs[ok[i].index])
    BY <1>3, <2>9, ReturnedOutcomes
  <2>11. rs[ok[i].index].score >= rs[s].score
    BY <1>3, <2>1, <2>9, <2>10, QualityOrder
  <2> QED
    BY <2>6, <2>8, <2>9, <2>11 DEF shown
<1>4. BatchInv => RankedByQuality
  <2> SUFFICES ASSUME TypeOK, PoolInv, SlotsInv, NEW rs \in Returns
               PROVE  /\ IndicesOf(Sorted(rs)) = Specs
                      /\ \A i, j \in Specs :
                            i < j => LET a == Sorted(rs)[i]
                                         b == Sorted(rs)[j]
                                     IN  \/ Better(a, b)
                                         \/ ~Better(b, a) /\ a.index < b.index
                      /\ \A limit \in 1..NumSpecs : \A s \in Specs :
                            LET shown == Report(rs, limit, FALSE).results
                            IN  IsOk(rs[s]) /\ s \notin IndicesOf(shown) =>
                                    \A i \in DOMAIN shown : shown[i].score >= rs[s].score
    BY DEF BatchInv, RankedByQuality
  <2>1. \A limit : Report(rs, limit, FALSE).results = Ranked(rs, limit)
    BY DEF Report
  <2> QED
    BY <1>1, <1>2, <1>3, <2>1
<1> QED
  BY <1>4, BatchInvariant, PTL

\* What both shows and counts: the loops' lists, cut at the limit.
LEMMA ShownCount ==
    ASSUME NEW rs, NEW n, Outcomes(rs, n), NEW specs \in SUBSET (1..n),
           NEW m \in 0..Len(Chosen(rs, n, specs))
    PROVE  /\ IndicesOf(SubSeq(Chosen(rs, n, specs), 1, m)) \in SUBSET specs
           /\ IsFiniteSet(specs)
           /\ Cardinality(specs) \in Nat /\ Len(Chosen(rs, n, specs)) = Cardinality(specs)
           /\ Cardinality(IndicesOf(SubSeq(Chosen(rs, n, specs), 1, m))) = m
           /\ IndicesOf(SubSeq(Chosen(rs, n, specs), 1, m)) = specs <=> m = Cardinality(specs)
<1> DEFINE chosen == Chosen(rs, n, specs)
           shown == SubSeq(chosen, 1, m)
           f == [k \in 1..m |-> chosen[k].index]
<1>1. Chooses(chosen, rs, specs)
  BY ChosenChooses
<1>2. /\ Len(chosen) = Cardinality(specs)
      /\ \A k, l \in 1..Len(chosen) : k < l => chosen[k].index # chosen[l].index
  BY ChosenCount
<1>3. IsFiniteSet(specs) /\ Cardinality(specs) \in Nat
  <2>1. n \in Nat
    BY DEF Outcomes
  <2> QED
    BY <2>1, FirstNumbers, FS_Subset, FS_CardinalityType
<1> HIDE DEF chosen
<1>4. chosen \in Seq(Elements(rs)) /\ m \in Nat /\ m <= Len(chosen) /\ Len(chosen) \in Nat
  BY <1>1 DEF Chooses, chosen
<1>5. DOMAIN shown = 1..m /\ \A k \in 1..m : shown[k] = chosen[k] /\ k \in 1..Len(chosen)
  BY <1>4, FirstOnes
<1> HIDE DEF shown
<1>6. IndicesOf(shown) = {f[k] : k \in 1..m}
  BY <1>5 DEF IndicesOf
<1>7. IndicesOf(shown) \in SUBSET specs
  BY <1>1, <1>5 DEF IndicesOf, Chooses
<1>8. DOMAIN f = 1..m /\ \A k, l \in 1..m : k < l => f[k] # f[l]
  BY <1>2, <1>5
<1> HIDE DEF f
<1>9. Cardinality(IndicesOf(shown)) = m
  BY <1>4, <1>6, <1>8, DistinctValues
<1>10. IndicesOf(shown) = specs <=> m = Cardinality(specs)
  BY <1>3, <1>7, <1>9, FS_Subset
<1> QED
  BY <1>2, <1>3, <1>7, <1>9, <1>10 DEF chosen, shown

\* ReportAccounts: for any number of configurations, any scores and any limit,
\* the report and the exit code count every configuration, once.
THEOREM ReportCounts == Spec => []ReportAccounts
<1>1. ASSUME TypeOK, PoolInv, SlotsInv, NEW rs \in Returns, NEW limit \in 0..NumSpecs
      PROVE  LET report == Report(rs, limit, TRUE)
                 shown == IndicesOf(report.results)
             IN  /\ shown \subseteq OkSpecs
                 /\ Cardinality(shown) = Len(report.results)
                 /\ IndicesOf(report.failures) = Specs \ OkSpecs
                 /\ Len(report.failures) = report.failed
                 /\ report.succeeded + report.failed = NumSpecs
                 /\ report.truncated <=> shown # OkSpecs
                 /\ (report.best = <<>>) <=> (ExitCode(rs) = 1)
                 /\ report.best # <<>> => report.best[1] = report.results[1]
  <2> DEFINE ok == Working(Sorted(rs))
             failing == Failing(Sorted(rs))
             m == IF Len(ok) < Limit(limit) THEN Len(ok) ELSE Limit(limit)
             shown == SubSeq(ok, 1, m)
             best == SubSeq(ok, 1, IF Succeeded(rs) = 0 THEN 0 ELSE 1)
  <2>1. /\ Outcomes(rs, NumSpecs)
        /\ OkSpecs \in SUBSET (1..NumSpecs)
        /\ {i \in DOMAIN rs : IsOk(rs[i])} = OkSpecs
        /\ {i \in DOMAIN rs : IsFailed(rs[i])} = Specs \ OkSpecs
        /\ Specs = 1..NumSpecs
    BY <1>1, ReturnedOutcomes DEF Specs
  <2>2. /\ ok = Chosen(rs, NumSpecs, OkSpecs)
        /\ failing = Chosen(rs, NumSpecs, Specs \ OkSpecs)
    BY <2>1, LoopsChoose
  <2>3. Limit(limit) \in Nat /\ Limit(limit) >= 1
    BY <1>1, BatchAssumption DEF Limit
  <2>4. ok \in Seq(Elements(rs)) /\ Len(ok) \in Nat
    <3>1. Chooses(ok, rs, OkSpecs)
      BY <2>1, <2>2, ChosenChooses
    <3> QED
      BY <3>1 DEF Chooses
  <2>5. /\ Succeeded(rs) = Cardinality(OkSpecs)
        /\ Failed(rs) = Cardinality(Specs \ OkSpecs)
    BY <2>1 DEF Succeeded, Failed
  <2> HIDE DEF ok, failing
  <2>6. m \in 0..Len(ok) /\ m \in Nat /\ (Len(ok) >= 1 => m >= 1)
    BY <2>3, <2>4
  <2> HIDE DEF m
  <2>7. /\ IndicesOf(shown) \in SUBSET OkSpecs
        /\ IsFiniteSet(OkSpecs)
        /\ Cardinality(OkSpecs) \in Nat /\ Len(ok) = Cardinality(OkSpecs)
        /\ Cardinality(IndicesOf(shown)) = m
        /\ IndicesOf(shown) = OkSpecs <=> m = Cardinality(OkSpecs)
    BY <2>1, <2>2, <2>6, ShownCount
  <2>8. /\ Len(failing) = Cardinality(Specs \ OkSpecs)
        /\ IndicesOf(failing) = Specs \ OkSpecs
    <3>1. Specs \ OkSpecs \in SUBSET (1..NumSpecs)
      BY <2>1
    <3> QED
      BY <2>1, <2>2, <3>1, ChosenCount
  <2>9. Cardinality(OkSpecs) + Cardinality(Specs \ OkSpecs) = NumSpecs
    <3>1. IsFiniteSet(Specs) /\ Cardinality(Specs) = NumSpecs
      BY <2>1, FirstNumbers, BatchAssumption
    <3>2. Cardinality(Specs \ OkSpecs) = Cardinality(Specs) - Cardinality(Specs \cap OkSpecs)
      BY <3>1, FS_Difference
    <3>3. Specs \cap OkSpecs = OkSpecs
      BY <2>1
    <3>4. Cardinality(Specs \ OkSpecs) = NumSpecs - Cardinality(OkSpecs)
      BY <3>1, <3>2, <3>3
    <3> QED
      BY <2>7, <3>4, BatchAssumption
  <2>10. Len(shown) = m /\ (m >= 1 => shown[1] = ok[1])
    BY <2>4, <2>6, FirstOnes
  <2>11. /\ best = <<>> <=> Cardinality(OkSpecs) = 0
         /\ best # <<>> => best[1] = ok[1] /\ Len(ok) >= 1
    <3>1. CASE Cardinality(OkSpecs) = 0
      <4>1. best \in Seq(Elements(rs)) /\ Len(best) = 0
        BY <2>4, <2>5, <3>1, FirstOnes
      <4>2. best = <<>>
        BY <4>1
      <4> QED
        BY <3>1, <4>2
    <3>2. CASE Cardinality(OkSpecs) # 0
      <4>1. 1 \in 0..Len(ok) /\ Len(ok) >= 1
        BY <2>7, <3>2
      <4>2. best = SubSeq(ok, 1, 1)
        BY <2>5, <3>2
      <4> HIDE DEF best
      <4>3. best \in Seq(Elements(rs)) /\ Len(best) = 1 /\ best[1] = ok[1]
        BY <2>4, <4>1, <4>2, FirstOnes
      <4>4. best # <<>>
        BY <4>3
      <4> QED
        BY <3>2, <4>1, <4>3, <4>4
    <3> QED
      BY <3>1, <3>2
  <2>12. ExitCode(rs) = 1 <=> Cardinality(OkSpecs) = 0
    <3>1. (\E i \in DOMAIN rs : IsOk(rs[i])) <=> OkSpecs # {}
      BY <2>1
    <3>2. Cardinality(OkSpecs) = 0 <=> OkSpecs = {}
      BY <2>7, FS_EmptySet
    <3> QED
      BY <3>1, <3>2 DEF ExitCode
  <2>13. Report(rs, limit, TRUE) =
             [succeeded |-> Succeeded(rs), failed |-> Failed(rs), best |-> best,
              results |-> shown, truncated |-> Succeeded(rs) > Len(shown),
              failures |-> failing]
    BY DEF Report, Truncated, Ranked, ok, failing, m
  <2> HIDE DEF shown, best
  <2>14. (Succeeded(rs) > Len(shown)) <=> (IndicesOf(shown) # OkSpecs)
    BY <2>5, <2>6, <2>7, <2>10
  <2> DEFINE report == Report(rs, limit, TRUE)
  <2>15. /\ report.succeeded = Succeeded(rs) /\ report.failed = Failed(rs)
         /\ report.best = best /\ report.results = shown
         /\ report.failures = failing
         /\ report.truncated <=> Succeeded(rs) > Len(shown)
    <3> DEFINE truncated == Succeeded(rs) > Len(shown)
    <3>1. report = [succeeded |-> Succeeded(rs), failed |-> Failed(rs), best |-> best,
                    results |-> shown, truncated |-> truncated, failures |-> failing]
      BY <2>13
    <3> HIDE DEF report, truncated
    <3>2. /\ report.succeeded = Succeeded(rs) /\ report.failed = Failed(rs)
          /\ report.best = best /\ report.results = shown
          /\ report.failures = failing
      BY <3>1
    <3>3. report.truncated = truncated
      BY <3>1, Zenon
    <3> QED
      BY <3>2, <3>3, Zenon DEF truncated
  <2> HIDE DEF report
  <2>16. /\ IndicesOf(report.results) \subseteq OkSpecs
         /\ Cardinality(IndicesOf(report.results)) = Len(report.results)
    BY <2>7, <2>10, <2>15
  <2>17. /\ IndicesOf(report.failures) = Specs \ OkSpecs
         /\ Len(report.failures) = report.failed
         /\ report.succeeded + report.failed = NumSpecs
    BY <2>5, <2>8, <2>9, <2>15
  <2>18. report.truncated <=> IndicesOf(report.results) # OkSpecs
    BY <2>14, <2>15
  <2>19. /\ (report.best = <<>>) <=> (ExitCode(rs) = 1)
         /\ report.best # <<>> => report.best[1] = report.results[1]
    BY <2>6, <2>10, <2>11, <2>12, <2>15
  <2> QED
    BY <2>16, <2>17, <2>18, <2>19 DEF report
<1>2. BatchInv => ReportAccounts
  BY <1>1 DEF BatchInv, ReportAccounts, OkSpecs
<1> QED
  BY <1>2, BatchInvariant, PTL
=============================================================================
