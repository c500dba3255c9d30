--------------------------- MODULE McpServerProofs ---------------------------
(***************************************************************************)
(* Proofs about McpServer, for any number of requests and slots: the slots *)
(* taken are the tests that run, and a request is late by nothing but the  *)
(* time the others hold the lock.                                          *)
(***************************************************************************)
EXTENDS McpServer, FiniteSetTheorems, TLAPS

LEMMA ConstantTypes ==
    /\ IsFiniteSet(Requests) /\ None \notin Requests
    /\ Cardinality(Requests) \in Nat
    /\ MaxConcurrent \in Nat \ {0} /\ Timeout \in Nat \ {0}
    /\ MaxHold \in Nat \ {0}
BY ServerAssumption, FS_CardinalityType

LEMMA CapType == Cap \in Nat /\ Timeout <= Cap
<1>1. Cardinality(Requests) * MaxHold \in Nat
  BY ConstantTypes
<1> QED
  BY <1>1, ConstantTypes DEF Cap

\* Every step, for case analysis.
LEMMA StepCases ==
    ASSUME [Next]_vars
    PROVE  \/ \E r \in Requests : Call(r) \/ Proceed(r) \/ Lock(r) \/ Cancel(r)
           \/ Tick
           \/ UNCHANGED vars
BY DEF Next

-----------------------------------------------------------------------------
(* The type invariant and the slots.                                       *)

\* What len(s.semaphore) counts.
SlotsAreTests == slots = Cardinality(Tests)

SlotInv == TypeOK /\ SlotsAreTests

LEMMA TestsFinite ==
    /\ IsFiniteSet(Tests) /\ Cardinality(Tests) \in Nat
    /\ Cardinality(Tests) = 0 <=> Tests = {}
<1>1. Tests \subseteq Requests
  BY DEF Tests
<1>2. IsFiniteSet(Tests)
  BY <1>1, ConstantTypes, FS_Subset
<1> QED
  BY <1>2, FS_CardinalityType, FS_EmptySet

\* A request that goes on stays a test, or stays none.
LEMMA TestsKept ==
    ASSUME TypeOK, NEW r \in Requests, NEW x \in Steps,
           pc' = [pc EXCEPT ![r] = x], pc[r] \in Testing <=> x \in Testing
    PROVE  Tests' = Tests
BY DEF TypeOK, Tests

LEMMA GotoSlots ==
    ASSUME SlotInv, NEW r \in Requests, NEW x \in Steps, Goto(r, x),
           pc[r] \in Testing <=> x \in Testing,
           lock' \in Requests \cup {None}, hold' \in 0..MaxHold
    PROVE  SlotInv'
<1>1. Tests' = Tests
  BY TestsKept DEF Goto, SlotInv
<1> QED
  BY <1>1 DEF SlotInv, SlotsAreTests, TypeOK, Goto

LEMMA ReleaseSlots ==
    ASSUME SlotInv, NEW r \in Requests, NEW o \in {"ok", "error"}, Release(r, o),
           pc[r] \in Testing,
           lock' \in Requests \cup {None}, hold' \in 0..MaxHold
    PROVE  SlotInv'
<1>1. r \in Tests /\ Tests' = Tests \ {r}
  BY DEF Tests, Release, Answer, SlotInv, TypeOK, Testing
<1>2. Cardinality(Tests') = Cardinality(Tests) - 1
  BY <1>1, TestsFinite, FS_RemoveElement
<1>3. Cardinality(Tests) # 0
  BY <1>1, TestsFinite
<1>4. slots' = slots - 1 /\ slots \in 1..MaxConcurrent
  BY <1>3, TestsFinite, ConstantTypes DEF SlotInv, SlotsAreTests, TypeOK, Release
<1>5. slots' \in 0..MaxConcurrent /\ slots' = Cardinality(Tests')
  BY <1>2, <1>4, ConstantTypes DEF SlotInv, SlotsAreTests
<1> QED
  BY <1>5 DEF SlotInv, SlotsAreTests, TypeOK, Release, Answer, Steps

LEMMA TakeSlotSlots ==
    ASSUME SlotInv, NEW r \in Requests, TakeSlot(r)
    PROVE  SlotInv'
<1>1. r \notin Tests /\ Tests' = Tests \cup {r}
  BY DEF Tests, TakeSlot, SlotInv, TypeOK, Testing, Steps
<1>2. Cardinality(Tests') = Cardinality(Tests) + 1
  BY <1>1, TestsFinite, FS_AddElement
<1>3. slots' = slots + 1 /\ slots' \in 0..MaxConcurrent
  BY ConstantTypes DEF TakeSlot, SlotInv, TypeOK
<1> QED
  BY <1>2, <1>3 DEF SlotInv, SlotsAreTests, TypeOK, TakeSlot, Steps

LEMMA ProceedSlots ==
    ASSUME SlotInv, NEW r \in Requests, Proceed(r)
    PROVE  SlotInv'
<1>1. lock \in Requests \cup {None} /\ hold \in 0..MaxHold /\ 0 \in 0..MaxHold
  BY ConstantTypes DEF SlotInv, TypeOK
<1>2. CASE TakeSlot(r)
  BY <1>2, TakeSlotSlots
<1>3. CASE SlotTimeout(r)
  <2>1. Tests' = Tests
    BY <1>3, TestsKept DEF SlotTimeout, Answer, SlotInv, Steps, Testing
  <2> QED
    BY <1>3, <2>1 DEF SlotTimeout, Answer, SlotInv, SlotsAreTests, TypeOK, Steps
<1>4. CASE Route(r)
  BY <1>1, <1>4, GotoSlots, ReleaseSlots DEF Route, Steps, Testing
<1>5. CASE Load(r)
  BY <1>1, <1>5, GotoSlots, ReleaseSlots DEF Load, Steps, Testing
<1>6. CASE Install(r)
  BY <1>1, <1>6, GotoSlots, ReleaseSlots DEF Install, Steps, Testing
<1>7. CASE Batch(r)
  BY <1>1, <1>7, GotoSlots, ReleaseSlots DEF Batch, Steps, Testing
<1>8. CASE Ssh(r)
  BY <1>1, <1>8, GotoSlots, ReleaseSlots DEF Ssh, Steps, Testing
<1>9. CASE Report(r)
  BY <1>1, <1>9, ReleaseSlots DEF Report, Steps, Testing
<1> QED
  BY <1>2, <1>3, <1>4, <1>5, <1>6, <1>7, <1>8, <1>9 DEF Proceed

LEMMA LaterType ==
    ASSUME NEW n \in 0..Cap
    PROVE  Later(n) \in 0..Cap /\ Later(n) <= n + 1
BY CapType DEF Later

LEMMA SlotStep == SlotInv /\ [Next]_vars => SlotInv'
<1> SUFFICES ASSUME SlotInv, [Next]_vars PROVE SlotInv'
  OBVIOUS
<1>1. ASSUME NEW r \in Requests, Call(r) PROVE SlotInv'
  BY <1>1, GotoSlots DEF Call, Steps, Testing, SlotInv, TypeOK
<1>2. ASSUME NEW r \in Requests, Proceed(r) PROVE SlotInv'
  BY <1>2, ProceedSlots
<1>3. ASSUME NEW r \in Requests, Lock(r) PROVE SlotInv'
  BY <1>3, GotoSlots, ConstantTypes DEF Lock, Steps, Testing
<1>4. ASSUME NEW r \in Requests, Cancel(r) PROVE SlotInv'
  BY <1>4 DEF Cancel, SlotInv, SlotsAreTests, TypeOK, Tests
<1>5. CASE Tick
  <2>1. elapsed' \in [Requests -> 0..Cap]
    BY <1>5, LaterType DEF Tick, SlotInv, TypeOK
  <2>2. hold' \in 0..MaxHold
    BY <1>5, ConstantTypes DEF Tick, SlotInv, TypeOK
  <2> QED
    BY <1>5, <2>1, <2>2 DEF Tick, SlotInv, SlotsAreTests, TypeOK, Tests
<1>6. CASE UNCHANGED vars
  BY <1>6 DEF vars, SlotInv, SlotsAreTests, TypeOK, Tests
<1> QED
  BY <1>1, <1>2, <1>3, <1>4, <1>5, <1>6, StepCases

LEMMA SlotInit == Init => SlotInv
<1> SUFFICES ASSUME Init PROVE SlotInv
  OBVIOUS
<1>1. Tests = {}
  BY DEF Init, Tests, Testing
<1>2. TypeOK
  BY ConstantTypes, CapType DEF Init, TypeOK, Steps
<1> QED
  BY <1>1, <1>2, FS_EmptySet DEF Init, SlotInv, SlotsAreTests

LEMMA SlotInvariant == Spec => []SlotInv
BY SlotInit, SlotStep, PTL DEF Spec

\* Every variable keeps its type; that `slots` never falls below zero rests on
\* the deferred receive being run by a request that has a slot.
THEOREM TypeCorrect == Spec => []TypeOK
<1>1. SlotInv => TypeOK
  BY DEF SlotInv
<1> QED
  BY <1>1, SlotInvariant, PTL

\* --max-concurrent-tests bounds what runs.
THEOREM Bounded == Spec => []TestsBounded
<1>1. SlotInv => TestsBounded
  BY ConstantTypes DEF SlotInv, SlotsAreTests, TypeOK, TestsBounded
<1> QED
  BY <1>1, SlotInvariant, PTL

\* A server without tests has all its slots.
THEOREM AllReturned == Spec => []SlotsReturned
<1>1. SlotInv => SlotsReturned
  BY TestsFinite DEF SlotInv, SlotsAreTests, SlotsReturned
<1> QED
  BY <1>1, SlotInvariant, PTL

-----------------------------------------------------------------------------
(* The lock and the lateness.                                              *)

\* The lock is held by the request that installs, and by that one only.
HolderInv ==
    /\ lock # None => pc[lock] = "install"
    /\ \A r \in Requests : pc[r] = "install" => lock = r
    /\ lock = None => hold = 0

\* A request that has not come to the lock is in time.
EarlyInv ==
    \A r \in Requests :
        pc[r] \in {"idle", "slot", "route", "load"} => elapsed[r] <= Timeout

\* The requests that will not hold the lock any more.
Past == {r \in Requests : pc[r] \in {"batch", "ssh", "report", "answered"}}

\* Who waits for the lock is late by what those held it, each MaxHold at most,
\* and by what the holder has held it so far.
WaitBound == Timeout + Cardinality(Past) * MaxHold + hold
WaitInv == \A r \in Requests : pc[r] = "ensure" => elapsed[r] <= WaitBound

LateInv == TypeOK /\ HolderInv /\ EarlyInv /\ WaitInv /\ LatenessBounded

LEMMA TimesMonotone ==
    ASSUME NEW n \in Nat, NEW m \in Nat, NEW k \in Nat, n <= m
    PROVE  n * k <= m * k
<1>1. PICK d \in Nat : m = n + d
  <2>1. m - n \in Nat /\ m = n + (m - n)
    OBVIOUS
  <2> QED
    BY <2>1
<1>2. (n + d) * k = n * k + d * k
  OBVIOUS
<1>3. n * k \in Nat /\ d * k \in Nat
  OBVIOUS
<1> QED
  BY <1>1, <1>2, <1>3

LEMMA PastFinite == IsFiniteSet(Past) /\ Cardinality(Past) \in Nat
<1>1. Past \subseteq Requests
  BY DEF Past
<1> QED
  BY <1>1, ConstantTypes, FS_Subset, FS_CardinalityType

\* The one that waits and the one that holds the lock are not past it.
LEMMA TwoMore ==
    ASSUME NEW r \in Requests, NEW q \in Requests, r # q,
           pc[r] = "ensure", pc[q] = "install"
    PROVE  Cardinality(Past) + 2 <= Cardinality(Requests)
<1> DEFINE P1 == Past \cup {r}
           P2 == P1 \cup {q}
<1>1. IsFiniteSet(P1) /\ Cardinality(P1) = Cardinality(Past) + 1
  <2>1. r \notin Past
    BY DEF Past
  <2> QED
    BY <2>1, PastFinite, FS_AddElement
<1>2. Cardinality(P2) = Cardinality(P1) + 1
  <2>1. q \notin P1
    BY DEF Past
  <2> QED
    BY <1>1, <2>1, FS_AddElement
<1>3. P2 \subseteq Requests
  BY DEF Past
<1>4. Cardinality(P2) <= Cardinality(Requests)
  BY <1>3, ConstantTypes, FS_Subset
<1> QED
  BY <1>1, <1>2, <1>4, PastFinite

LEMMA BoundType == TypeOK => WaitBound \in Nat
<1>1. Cardinality(Past) * MaxHold \in Nat
  BY PastFinite, ConstantTypes
<1> QED
  BY <1>1, ConstantTypes DEF TypeOK, WaitBound

\* One more past the lock makes room for all the time it may have held it.
LEMMA PastGrows ==
    ASSUME TypeOK, TypeOK', NEW r \in Requests, NEW x \in Steps,
           pc' = [pc EXCEPT ![r] = x], r \notin Past,
           x \in {"batch", "ssh", "report", "answered"}
    PROVE  Timeout + Cardinality(Past') * MaxHold >= WaitBound
<1>1. Past' = Past \cup {r}
  BY DEF Past, TypeOK
<1>2. Cardinality(Past') = Cardinality(Past) + 1
  BY <1>1, PastFinite, FS_AddElement
<1>3. (Cardinality(Past) + 1) * MaxHold = Cardinality(Past) * MaxHold + MaxHold
  BY PastFinite, ConstantTypes
<1>4. Cardinality(Past) * MaxHold \in Nat /\ hold <= MaxHold
  BY PastFinite, ConstantTypes DEF TypeOK
<1> QED
  BY <1>2, <1>3, <1>4, ConstantTypes DEF WaitBound, TypeOK

LEMMA PastKept ==
    ASSUME TypeOK, NEW r \in Requests, NEW x \in Steps,
           pc' = [pc EXCEPT ![r] = x],
           r \in Past <=> x \in {"batch", "ssh", "report", "answered"}
    PROVE  Past' = Past
BY DEF Past, TypeOK

\* A step of a request takes no time: the bound does not shrink.
LEMMA MoveLate ==
    ASSUME LateInv, TypeOK', NEW r \in Requests, NEW x \in Steps,
           pc' = [pc EXCEPT ![r] = x], UNCHANGED elapsed,
           HolderInv',
           x \in {"idle", "slot", "route", "load", "ensure"} =>
               pc[r] \in {"idle", "slot", "route", "load"},
           r \in Past => x \in {"batch", "ssh", "report", "answered"},
           hold' = hold \/ (r \notin Past /\ x \in {"batch", "answered"} /\ hold' = 0)
    PROVE  LateInv'
<1>0. Cardinality(Past') \in Nat
  <2>1. (Cardinality(Past) \in Nat)'
    BY PastFinite, PTL
  <2> QED
    BY <2>1
<1>1. WaitBound' >= WaitBound
  <2>1. CASE r \notin Past /\ x \in {"batch", "ssh", "report", "answered"}
    <3>1. Timeout + Cardinality(Past') * MaxHold >= WaitBound
      BY <2>1, PastGrows DEF LateInv
    <3>2. hold' \in Nat
      BY ConstantTypes DEF TypeOK
    <3>3. Cardinality(Past') * MaxHold \in Nat
      BY <1>0, ConstantTypes
    <3> QED
      BY <3>1, <3>2, <3>3, BoundType, ConstantTypes DEF WaitBound, LateInv
  <2>2. CASE r \in Past <=> x \in {"batch", "ssh", "report", "answered"}
    <3>1. Past' = Past
      BY <2>2, PastKept DEF LateInv
    <3>2. hold' = hold
      BY <2>2
    <3> QED
      BY <3>1, <3>2, BoundType DEF WaitBound, LateInv
  <2> QED
    BY <2>1, <2>2
<1>2. WaitBound \in Nat /\ WaitBound' \in Nat /\ Timeout <= WaitBound
  <2>1. Cardinality(Past) * MaxHold \in Nat /\ Cardinality(Past') * MaxHold \in Nat
    BY <1>0, PastFinite, ConstantTypes
  <2> QED
    BY <2>1, ConstantTypes DEF LateInv, WaitBound, TypeOK
<1>3. EarlyInv'
  BY DEF EarlyInv, LateInv, TypeOK
<1>4. WaitInv'
  <2> SUFFICES ASSUME NEW q \in Requests, pc'[q] = "ensure"
               PROVE  elapsed'[q] <= WaitBound'
    BY DEF WaitInv
  <2>1. elapsed'[q] = elapsed[q] /\ elapsed[q] \in Nat
    BY CapType DEF LateInv, TypeOK
  <2>2. elapsed[q] <= WaitBound
    <3>1. CASE q = r
      <4>1. elapsed[q] <= Timeout
        BY <3>1 DEF EarlyInv, LateInv, TypeOK
      <4> QED
        BY <4>1, <2>1, <1>2, ConstantTypes
    <3>2. CASE q # r
      BY <3>2 DEF WaitInv, LateInv, TypeOK
    <3> QED
      BY <3>1, <3>2
  <2> QED
    BY <1>1, <1>2, <2>1, <2>2
<1>5. LatenessBounded'
  BY DEF LatenessBounded, LateInv
<1> QED
  BY <1>3, <1>4, <1>5 DEF LateInv

\* Nobody goes to another place and the lock stays: the rest does not matter.
LEMMA RestLate ==
    ASSUME LateInv, TypeOK', UNCHANGED <<pc, elapsed, lock, hold>>
    PROVE  LateInv'
<1>1. Past' = Past
  BY DEF Past
<1>2. WaitBound' = WaitBound
  BY <1>1 DEF WaitBound
<1> QED
  BY <1>2 DEF LateInv, HolderInv, EarlyInv, WaitInv, LatenessBounded

\* While a request that is late can wait, another holds the lock.
LEMMA TickLate ==
    ASSUME LateInv, TypeOK', Tick
    PROVE  LateInv'
<1> DEFINE Most == Timeout + (Cardinality(Requests) - 1) * MaxHold
<1>1. Past' = Past /\ HolderInv'
  BY DEF Tick, Past, HolderInv, LateInv
<1>2. \A r \in Requests :
        /\ elapsed[r] \in Nat /\ elapsed'[r] \in Nat
        /\ elapsed'[r] <= elapsed[r] + 1
  BY LaterType, CapType DEF Tick, LateInv, TypeOK
<1>3. \A r \in Requests :
        pc[r] \in {"idle", "answered", "route", "report"} => elapsed'[r] = elapsed[r]
  BY DEF Tick, Due, Instant
<1>4. \A r \in Requests :
        pc[r] \in Heeds => elapsed'[r] <= Timeout
  BY <1>2, ConstantTypes DEF Tick, Due, Over
<1>5. EarlyInv'
  BY <1>3, <1>4 DEF EarlyInv, LateInv, Heeds, Tick
<1>6. ASSUME NEW r \in Requests, pc[r] = "ensure"
      PROVE  elapsed'[r] <= WaitBound' /\ elapsed'[r] <= Most
  <2>1. lock # None /\ lock \in Requests /\ pc[lock] = "install" /\ lock # r
    BY <1>6, ConstantTypes DEF Tick, Due, LateInv, HolderInv, TypeOK
  <2>2. hold' = hold + 1 /\ hold' <= MaxHold /\ hold \in Nat
    BY <2>1, ConstantTypes DEF Tick, Due, LateInv, TypeOK
  <2>3. WaitBound' = WaitBound + 1
    <3>1. Cardinality(Past) * MaxHold \in Nat
      BY PastFinite, ConstantTypes
    <3> QED
      BY <1>1, <2>2, <3>1, ConstantTypes DEF WaitBound
  <2>4. elapsed'[r] <= WaitBound'
    <3>1. elapsed[r] <= WaitBound /\ WaitBound \in Nat
      BY <1>6, BoundType DEF LateInv, WaitInv
    <3> QED
      BY <1>2, <2>3, <3>1
  <2>5. WaitBound' <= Most
    <3>1. Cardinality(Past) + 1 <= Cardinality(Requests) - 1
      BY <1>6, <2>1, TwoMore, PastFinite, ConstantTypes
    <3>2. (Cardinality(Past) + 1) * MaxHold <= (Cardinality(Requests) - 1) * MaxHold
      BY <3>1, TimesMonotone, PastFinite, ConstantTypes
    <3>3. (Cardinality(Past) + 1) * MaxHold = Cardinality(Past) * MaxHold + MaxHold
      BY PastFinite, ConstantTypes
    <3>4. /\ Cardinality(Past) * MaxHold \in Nat
          /\ (Cardinality(Requests) - 1) * MaxHold \in Int
      BY PastFinite, ConstantTypes
    <3> QED
      BY <1>1, <2>2, <3>2, <3>3, <3>4, ConstantTypes DEF WaitBound
  <2>6. WaitBound' \in Nat /\ Most \in Int
    <3>1. (Cardinality(Requests) - 1) * MaxHold \in Int
      BY ConstantTypes
    <3> QED
      BY <2>3, <3>1, BoundType, ConstantTypes DEF LateInv
  <2> QED
    BY <1>2, <1>6, <2>4, <2>5, <2>6
<1>7. WaitInv'
  BY <1>6 DEF WaitInv, Tick
<1>8. LatenessBounded'
  <2> SUFFICES ASSUME NEW r \in Requests PROVE elapsed'[r] <= Most
    BY DEF LatenessBounded
  <2>1. Timeout <= Most
    <3>1. Cardinality(Requests) >= 1
      <4>1. Cardinality(Requests) # 0
        BY ConstantTypes, FS_EmptySet
      <4> QED
        BY <4>1, ConstantTypes
    <3>2. (Cardinality(Requests) - 1) * MaxHold \in Nat
      BY <3>1, ConstantTypes
    <3> QED
      BY <3>2, ConstantTypes
  <2>2. CASE pc[r] \in Heeds
    <3>1. Most \in Int
      BY ConstantTypes
    <3> QED
      BY <1>2, <1>4, <2>1, <2>2, <3>1, ConstantTypes
  <2>3. CASE pc[r] \in {"idle", "answered", "route", "report"}
    BY <1>3, <2>3 DEF LateInv, LatenessBounded
  <2>4. CASE pc[r] = "ensure"
    BY <1>6, <2>4
  <2> QED
    BY <2>2, <2>3, <2>4 DEF LateInv, TypeOK, Steps, Heeds
<1> QED
  BY <1>1, <1>5, <1>7, <1>8 DEF LateInv

LEMMA ProceedLate ==
    ASSUME LateInv, TypeOK', NEW r \in Requests, Proceed(r)
    PROVE  LateInv'
<1> USE DEF Steps, Past
<1>1. CASE Install(r)
  <2>1. lock = r
    BY <1>1 DEF Install, LateInv, HolderInv
  <2>2. \E x \in {"batch", "answered"} : pc' = [pc EXCEPT ![r] = x]
    BY <1>1 DEF Install, Goto, Release, Answer
  <2>3. HolderInv'
    BY <1>1, <2>1, <2>2 DEF Install, LateInv, HolderInv, TypeOK
  <2>4. hold' = 0 /\ UNCHANGED elapsed /\ pc[r] = "install"
    BY <1>1 DEF Install, Goto, Release, Answer
  <2> QED
    BY <2>2, <2>3, <2>4, MoveLate
<1>2. CASE ~Install(r)
  <2>1. UNCHANGED <<elapsed, lock, hold>>
    BY <1>2 DEF Proceed, TakeSlot, SlotTimeout, Route, Load, Batch, Ssh, Report,
                Goto, Release, Answer
  <2>2. PICK x \in Steps :
          /\ pc' = [pc EXCEPT ![r] = x]
          /\ pc[r] # "install" /\ x # "install"
          /\ x \in {"idle", "slot", "route", "load", "ensure"} =>
               pc[r] \in {"idle", "slot", "route", "load"}
          /\ r \in Past => x \in {"batch", "ssh", "report", "answered"}
    BY <1>2 DEF Proceed, TakeSlot, SlotTimeout, Route, Load, Batch, Ssh, Report,
                Goto, Release, Answer
  <2>3. HolderInv'
    BY <2>1, <2>2 DEF LateInv, HolderInv, TypeOK
  <2> QED
    BY <2>1, <2>2, <2>3, MoveLate
<1> QED
  BY <1>1, <1>2

LEMMA LateStep == SlotInv /\ LateInv /\ [Next]_vars => LateInv'
<1> SUFFICES ASSUME SlotInv, LateInv, [Next]_vars PROVE LateInv'
  OBVIOUS
<1>0. TypeOK'
  BY SlotStep DEF SlotInv
<1>1. ASSUME NEW r \in Requests, Call(r) PROVE LateInv'
  <2>1. /\ pc' = [pc EXCEPT ![r] = "slot"] /\ pc[r] = "idle"
        /\ UNCHANGED <<elapsed, lock, hold>>
    BY <1>1 DEF Call, Goto
  <2>2. HolderInv'
    BY <2>1 DEF LateInv, HolderInv, TypeOK
  <2> QED
    BY <1>0, <2>1, <2>2, MoveLate DEF Steps, Past
<1>2. ASSUME NEW r \in Requests, Proceed(r) PROVE LateInv'
  BY <1>0, <1>2, ProceedLate
<1>3. ASSUME NEW r \in Requests, Lock(r) PROVE LateInv'
  <2>1. /\ pc' = [pc EXCEPT ![r] = "install"] /\ pc[r] = "ensure"
        /\ lock = None /\ lock' = r /\ hold' = 0 /\ hold = 0
        /\ UNCHANGED elapsed
    BY <1>3 DEF Lock, Goto, LateInv, HolderInv
  <2>2. HolderInv'
    BY <2>1, ConstantTypes DEF LateInv, HolderInv, TypeOK
  <2> QED
    BY <1>0, <2>1, <2>2, MoveLate DEF Steps, Past
<1>4. ASSUME NEW r \in Requests, Cancel(r) PROVE LateInv'
  BY <1>0, <1>4, RestLate DEF Cancel
<1>5. CASE Tick
  BY <1>0, <1>5, TickLate
<1>6. CASE UNCHANGED vars
  BY <1>0, <1>6, RestLate DEF vars
<1> QED
  BY <1>1, <1>2, <1>3, <1>4, <1>5, <1>6, StepCases

LEMMA LateInit == Init => LateInv
<1> SUFFICES ASSUME Init PROVE LateInv
  OBVIOUS
<1>1. TypeOK
  BY SlotInit DEF SlotInv
<1>2. HolderInv /\ EarlyInv /\ WaitInv
  BY ConstantTypes DEF Init, HolderInv, EarlyInv, WaitInv
<1>3. LatenessBounded
  <2> SUFFICES ASSUME NEW r \in Requests
               PROVE  0 <= Timeout + (Cardinality(Requests) - 1) * MaxHold
    BY DEF Init, LatenessBounded
  <2>1. Cardinality(Requests) # 0
    BY ConstantTypes, FS_EmptySet
  <2>2. (Cardinality(Requests) - 1) * MaxHold \in Nat
    BY <2>1, ConstantTypes
  <2> QED
    BY <2>2, ConstantTypes
<1> QED
  BY <1>1, <1>2, <1>3 DEF LateInv

\* A request is answered at most as late as the others can hold ensureMu,
\* however many they are and whatever is cancelled.
THEOREM Lateness == Spec => []LatenessBounded
<1>1. SlotInv /\ LateInv /\ [Next]_vars => (SlotInv /\ LateInv)'
  BY SlotStep, LateStep
<1>2. Init => SlotInv /\ LateInv
  BY SlotInit, LateInit
<1>3. LateInv => LatenessBounded
  BY DEF LateInv
<1> QED
  BY <1>1, <1>2, <1>3, PTL DEF Spec
=============================================================================
