---------------------------- MODULE ProbeRunProofs ----------------------------
(***************************************************************************)
(* Proofs about ProbeRun: types, the status of the result, the verdict on  *)
(* Gemini and the range of the metrics, for any number of attempts, of     *)
(* redirects and any latencies.                                            *)
(***************************************************************************)
EXTENDS ProbeRun, FiniteSetTheorems, WellFoundedInduction, TLAPS

\* One step of the specification: an action, or nothing.
LEMMA StepCases ==
    [Next]_vars <=> \/ Metadata \/ Attempt \/ Summarize \/ Speed \/ Gemini \/ Hop
                    \/ End \/ Cancel \/ UNCHANGED vars
BY DEF Next, Done

-----------------------------------------------------------------------------
(* Types.                                                                  *)

LEMMA TypeInit == Init => TypeOK
<1>1. Len(<<>>) = 0 /\ \A S : <<>> \in Seq(S)
  OBVIOUS
<1>2. Init => events = <<>> /\ values = <<>> /\ visited = <<>>
  BY DEF Init
<1>3. Init => /\ events \in Seq(BOOLEAN) /\ Len(events) <= Attempts
              /\ values \in Seq(Latencies) /\ Len(values) <= Len(events)
              /\ visited \in Seq(Answers) /\ Len(visited) <= MaxRedirects + 1
  BY <1>1, <1>2, ProbeAssumption
<1> QED
  BY <1>3 DEF Init, TypeOK, Verdicts

LEMMA TypeStep == TypeOK /\ [Next]_vars => TypeOK'
<1> SUFFICES ASSUME TypeOK, [Next]_vars PROVE TypeOK'
  OBVIOUS
<1> USE ProbeAssumption DEF TypeOK
<1>1. CASE Metadata
  BY <1>1 DEF Metadata
<1>2. CASE Attempt
  <2>1. Len(events) < Attempts
    BY <1>2 DEF Attempt, AttemptsOver
  <2>2. \E answer \in BOOLEAN : events' = Append(events, answer)
    BY <1>2 DEF Attempt
  <2>3. /\ values' \in Seq(Latencies)
        /\ Len(values') <= Len(events')
    <3>1. Len(events') = Len(events) + 1
      BY <2>2
    <3>2. CASE UNCHANGED values
      BY <3>1, <3>2
    <3>3. CASE \E latency \in Latencies : values' = Append(values, latency)
      BY <3>1, <3>3
    <3> QED
      BY <1>2, <3>2, <3>3 DEF Attempt
  <2> QED
    BY <1>2, <2>1, <2>2, <2>3 DEF Attempt
<1>3. CASE Summarize
  BY <1>3 DEF Summarize
<1>4. CASE Speed
  BY <1>4 DEF Speed
<1>5. CASE Gemini
  BY <1>5 DEF Gemini, Verdicts
<1>6. CASE Hop
  <2>1. ASSUME NEW answer \in Answers, Len(visited) <= MaxRedirects,
               visited' = Append(visited, answer)
        PROVE  visited' \in Seq(Answers) /\ Len(visited') <= MaxRedirects + 1
    BY <2>1
  <2>2. "failure" \in Answers /\ \A answer : Verdict(answer) \in Verdicts
    BY DEF Answers, Verdict, Verdicts
  <2>3. gemini' \in Verdicts /\ pc' \in {"hop", "end"}
    BY <1>6, <2>2 DEF Hop, Verdicts
  <2>4. visited' \in Seq(Answers) /\ Len(visited') <= MaxRedirects + 1
    BY <1>6, <2>1, <2>2 DEF Hop
  <2> QED
    BY <1>6, <2>3, <2>4 DEF Hop
<1>7. CASE End
  BY <1>7 DEF End
<1>8. CASE Cancel
  BY <1>8 DEF Cancel
<1>9. CASE UNCHANGED vars
  BY <1>9 DEF vars
<1> QED
  BY <1>1, <1>2, <1>3, <1>4, <1>5, <1>6, <1>7, <1>8, <1>9, StepCases

\* The test keeps its types, the loops their bounds: no more attempts than were
\* asked for, no more pages than redirects and one.
THEOREM TypeCorrect == Spec => []TypeOK
BY TypeInit, TypeStep, PTL DEF Spec

-----------------------------------------------------------------------------
(* The status.                                                             *)

Successes(s) == {i \in 1..Len(s) : s[i]}

\* A success more is counted once, a failure not at all.
LEMMA CountSuccess ==
    ASSUME NEW s \in Seq(BOOLEAN), NEW b \in BOOLEAN
    PROVE  Cardinality(Successes(Append(s, b)))
               = Cardinality(Successes(s)) + (IF b THEN 1 ELSE 0)
<1>1. IsFiniteSet(1..Len(s)) /\ Successes(s) \in SUBSET (1..Len(s))
  BY FS_Interval DEF Successes
<1>2. IsFiniteSet(Successes(s))
  BY <1>1, FS_Subset
<1>3. Cardinality(Successes(s)) \in Nat
  BY <1>2, FS_CardinalityType
<1>4. CASE b
  <2>1. Successes(Append(s, b)) = Successes(s) \cup {Len(s) + 1}
    BY <1>4 DEF Successes
  <2>2. Len(s) + 1 \notin Successes(s)
    BY DEF Successes
  <2> QED
    BY <1>2, <1>4, <2>1, <2>2, FS_AddElement
<1>5. CASE ~b
  <2>1. Successes(Append(s, b)) = Successes(s)
    BY <1>5 DEF Successes
  <2> QED
    BY <1>3, <1>5, <2>1
<1> QED
  BY <1>4, <1>5

Measuring == {"metadata", "attempts"}
Measured == {"speed", "gemini", "hop", "end"}

\* The latencies are those of the successes; the parts the user added come
\* after probes that are complete and of which one succeeded.
StatusInv ==
    /\ Len(values) = Cardinality(Successes(events))
    /\ pc \notin Measuring => Len(events) = Attempts
    /\ pc \in Measured => values # <<>>
    /\ status = "ok" <=> pc = "done" /\ values # <<>>

LEMMA StatusInit == Init => StatusInv
<1>1. Successes(<<>>) = {}
  BY DEF Successes
<1> QED
  BY <1>1, FS_EmptySet DEF Init, StatusInv, Measuring, Measured

LEMMA StatusStep == TypeOK /\ StatusInv /\ [Next]_vars => StatusInv'
<1> SUFFICES ASSUME TypeOK, StatusInv, [Next]_vars PROVE StatusInv'
  OBVIOUS
<1> USE DEF StatusInv, Measuring, Measured
<1>1. CASE Metadata
  BY <1>1 DEF Metadata
<1>2. CASE Attempt
  <2>1. PICK b \in BOOLEAN :
          /\ events' = Append(events, b)
          /\ IF b THEN \E latency \in Latencies : values' = Append(values, latency)
                  ELSE values' = values
    BY <1>2 DEF Attempt
  <2>2. Cardinality(Successes(events'))
          = Cardinality(Successes(events)) + (IF b THEN 1 ELSE 0)
    BY <2>1, CountSuccess DEF TypeOK
  <2>3. Len(values') = Len(values) + (IF b THEN 1 ELSE 0)
    BY <2>1 DEF TypeOK
  <2> QED
    BY <1>2, <2>2, <2>3 DEF Attempt
<1>3. CASE Summarize
  BY <1>3 DEF Summarize, AttemptsOver
<1>4. CASE Speed
  BY <1>4 DEF Speed
<1>5. CASE Gemini
  BY <1>5 DEF Gemini
<1>6. CASE Hop
  BY <1>6 DEF Hop
<1>7. CASE End
  BY <1>7 DEF End
<1>8. CASE Cancel
  BY <1>8 DEF Cancel
<1>9. CASE UNCHANGED vars
  BY <1>9 DEF vars
<1> QED
  BY <1>1, <1>2, <1>3, <1>4, <1>5, <1>6, <1>7, <1>8, <1>9, StepCases

\* StatusIsOfProbes: whatever the user added and whenever the deadline comes,
\* every attempt is counted, and one success makes the result ok.
THEOREM StatusOfProbes == Spec => []StatusIsOfProbes
<1>1. TypeOK /\ StatusInv => StatusIsOfProbes
  <2> SUFFICES ASSUME TypeOK, StatusInv, pc = "done"
               PROVE  /\ Len(events) = Attempts
                      /\ Len(values) = Cardinality({i \in 1..Attempts : events[i]})
                      /\ status = "ok" <=> \E i \in 1..Attempts : events[i]
    BY DEF StatusIsOfProbes
  <2>1. Len(events) = Attempts
    BY DEF StatusInv, Measuring
  <2>2. Successes(events) = {i \in 1..Attempts : events[i]}
    BY <2>1 DEF Successes
  <2>3. IsFiniteSet(Successes(events))
    <3>1. IsFiniteSet(1..Attempts)
      BY FS_Interval, ProbeAssumption
    <3> QED
      BY <2>2, <3>1, FS_Subset
  <2>4. Len(values) = 0 <=> Successes(events) = {}
    BY <2>3, FS_EmptySet DEF StatusInv
  <2>5. values = <<>> <=> Len(values) = 0
    BY DEF TypeOK
  <2> QED
    BY <2>1, <2>2, <2>4, <2>5 DEF StatusInv
<1> QED
  BY <1>1, StatusInit, StatusStep, TypeCorrect, PTL DEF Spec

-----------------------------------------------------------------------------
(* Gemini.                                                                 *)

\* The loop has seen redirects alone, and /sorry/ as the last of them at most.
Redirected(s) ==
    /\ \A i \in 1..Len(s) : s[i] \in {"redirect", "sorry"}
    /\ \A i \in 1..Len(s) : s[i] = "sorry" => i = Len(s)

VerdictOf(s, verdict) ==
    /\ s # <<>>
    /\ verdict = "ok" <=> s[Len(s)] = "200"
    /\ verdict = "ok" => \A i \in 1..Len(s) : s[i] \notin {"429", "sorry"}
    /\ verdict = "blocked" => \E i \in 1..Len(s) : s[i] \in {"429", "sorry"}

VerdictInv ==
    /\ pc \in {"metadata", "attempts", "speed", "gemini"} =>
           gemini = "none" /\ visited = <<>>
    /\ pc = "hop" => gemini = "error" /\ Redirected(visited)
    /\ pc \in {"end", "done"} /\ gemini # "none" => VerdictOf(visited, gemini)

\* A redirect more, where none has led to /sorry/ yet.
LEMMA OneMoreRedirect ==
    ASSUME NEW s \in Seq(Answers), Redirected(s), s = <<>> \/ s[Len(s)] # "sorry",
           NEW answer \in {"redirect", "sorry"}
    PROVE  Redirected(Append(s, answer))
BY DEF Redirected

\* An answer that ends the loop decides.
LEMMA LastAnswer ==
    ASSUME NEW s \in Seq(Answers), Redirected(s), s = <<>> \/ s[Len(s)] # "sorry",
           NEW answer \in Answers \ {"redirect", "sorry"}
    PROVE  VerdictOf(Append(s, answer), Verdict(answer))
<1> DEFINE t == Append(s, answer)
<1>1. t # <<>> /\ Len(t) = Len(s) + 1 /\ t[Len(t)] = answer
  <2>1. t \in Seq(Answers) /\ Len(t) = Len(s) + 1 /\ t[Len(s) + 1] = answer
    OBVIOUS
  <2> QED
    BY <2>1
<1>2. \A i \in 1..Len(s) : t[i] = s[i] /\ t[i] = "redirect"
  BY DEF Redirected
<1>3. (\E i \in 1..Len(t) : t[i] \in {"429", "sorry"}) <=> answer = "429"
  BY <1>1, <1>2
<1>4. /\ Verdict(answer) = "ok" <=> answer = "200"
      /\ Verdict(answer) = "blocked" <=> answer = "429"
  BY DEF Verdict, Answers
<1> QED
  BY <1>1, <1>3, <1>4 DEF VerdictOf

LEMMA VerdictStep == TypeOK /\ VerdictInv /\ [Next]_vars => VerdictInv'
<1> SUFFICES ASSUME TypeOK, VerdictInv, [Next]_vars PROVE VerdictInv'
  OBVIOUS
<1> USE DEF VerdictInv
<1>1. CASE Metadata
  BY <1>1 DEF Metadata
<1>2. CASE Attempt
  BY <1>2 DEF Attempt
<1>3. CASE Summarize
  BY <1>3 DEF Summarize
<1>4. CASE Speed
  BY <1>4 DEF Speed
<1>5. CASE Gemini
  BY <1>5 DEF Gemini, Redirected
<1>6. CASE Hop
  <2>1. pc = "hop" /\ gemini = "error" /\ Redirected(visited) /\ visited \in Seq(Answers)
    BY <1>6 DEF Hop, TypeOK
  <2>2. CASE Len(visited) > MaxRedirects /\ pc' = "end" /\ UNCHANGED <<visited, gemini>>
    <3>1. visited # <<>> /\ Len(visited) \in 1..Len(visited)
      BY <2>1, <2>2, ProbeAssumption
    <3> QED
      BY <2>1, <2>2, <3>1, ProbeAssumption DEF Redirected, VerdictOf
  <2>3. CASE /\ Len(visited) <= MaxRedirects /\ AtSorry
             /\ gemini' = "blocked" /\ pc' = "end" /\ UNCHANGED visited
    <3>1. Len(visited) \in 1..Len(visited) /\ visited[Len(visited)] = "sorry"
      BY <2>1, <2>3 DEF AtSorry
    <3> QED
      BY <2>1, <2>3, <3>1 DEF VerdictOf, AtSorry
  <2>4. ASSUME NEW answer \in Answers, ~AtSorry, visited' = Append(visited, answer),
               IF answer \in {"redirect", "sorry"}
               THEN UNCHANGED <<pc, gemini>>
               ELSE gemini' = Verdict(answer) /\ pc' = "end"
        PROVE  VerdictInv'
    <3>1. CASE answer \in {"redirect", "sorry"}
      BY <2>1, <2>4, <3>1, OneMoreRedirect DEF AtSorry
    <3>2. CASE answer \notin {"redirect", "sorry"}
      BY <2>1, <2>4, <3>2, LastAnswer DEF AtSorry
    <3> QED
      BY <3>1, <3>2
  <2>5. "failure" \in Answers
    BY DEF Answers
  <2> QED
    BY <1>6, <2>2, <2>3, <2>4, <2>5 DEF Hop
<1>7. CASE End
  BY <1>7 DEF End
<1>8. CASE Cancel
  BY <1>8 DEF Cancel
<1>9. CASE UNCHANGED vars
  BY <1>9 DEF vars
<1> QED
  BY <1>1, <1>2, <1>3, <1>4, <1>5, <1>6, <1>7, <1>8, <1>9, StepCases

\* GeminiVerdict: for any limit of redirects, a page is "ok" only if it opened
\* and nothing on the way refused, and "blocked" only if something did.
THEOREM RightVerdict == Spec => []GeminiVerdict
<1>1. Init => VerdictInv
  BY DEF Init, VerdictInv
<1>2. VerdictInv => GeminiVerdict
  BY DEF VerdictInv, VerdictOf, GeminiVerdict, Refused
<1> QED
  BY <1>1, <1>2, VerdictStep, TypeCorrect, PTL DEF Spec

-----------------------------------------------------------------------------
(* Ranks.                                                                  *)

\* What is true of some number is true of a least one.
LEMMA Least ==
    ASSUME NEW T \in SUBSET Nat, T # {}
    PROVE  \E n \in T : \A m \in T : n <= m
<1>1. PICK x \in T : \A y \in T : <<y, x>> \notin OpToRel(<, Nat)
  BY NatLessThanWellFounded, WFMin, Zenon
<1>2. \A y \in T : ~(y < x)
  BY <1>1 DEF OpToRel
<1> QED
  BY <1>2

Bounded(s, n) == \E m \in Nat : \A i \in 1..n : s[i] <= m

\* One latency more leaves them bounded.
LEMMA BoundedStep ==
    ASSUME NEW s \in Seq(Nat), NEW n \in 1..Len(s), Bounded(s, n - 1)
    PROVE  Bounded(s, n)
<1>1. PICK m \in Nat : \A i \in 1..n - 1 : s[i] <= m
  BY DEF Bounded
<1>2. \A i \in 1..n : s[i] \in Nat /\ (i \in 1..n - 1 \/ i = n)
  OBVIOUS
<1>3. s[n] \in Nat
  OBVIOUS
<1>4. CASE s[n] <= m
  BY <1>1, <1>2, <1>4 DEF Bounded
<1>5. CASE m <= s[n]
  <2>1. \A i \in 1..n - 1 : s[i] <= s[n]
    BY <1>1, <1>2, <1>3, <1>5
  <2>2. \A i \in 1..n : s[i] <= s[n]
    BY <1>2, <1>3, <2>1
  <2> QED
    BY <1>3, <2>2 DEF Bounded
<1> QED
  BY <1>3, <1>4, <1>5

\* Finitely many latencies have an upper bound.
LEMMA UpperBound ==
    ASSUME NEW s \in Seq(Nat)
    PROVE  Bounded(s, Len(s))
<1> DEFINE Bad == {n \in 0..Len(s) : ~Bounded(s, n)}
<1>1. Bad = {}
  <2> SUFFICES ASSUME Bad # {} PROVE FALSE
    OBVIOUS
  <2>1. \E n \in Bad : \A k \in Bad : n <= k
    <3>1. Bad \in SUBSET Nat
      OBVIOUS
    <3> HIDE DEF Bad
    <3> QED
      BY <3>1, Least
  <2>2. PICK n \in 0..Len(s) : ~Bounded(s, n) /\ \A k \in Bad : n <= k
    BY <2>1
  <2>3. n # 0
    <3>1. Bounded(s, 0)
      <4>1. \A i \in 1..0 : s[i] <= 0
        OBVIOUS
      <4> QED
        BY <4>1 DEF Bounded
    <3> QED
      BY <2>2, <3>1
  <2>4. n \in 1..Len(s) /\ Bounded(s, n - 1)
    BY <2>2, <2>3
  <2> QED
    BY <2>2, <2>4, BoundedStep
<1> QED
  BY <1>1

\* There are n numbers up to n.
LEMMA FirstNumbers ==
    ASSUME NEW n \in Nat
    PROVE  IsFiniteSet(1..n) /\ Cardinality(1..n) = n
<1>1. /\ IsFiniteSet(1..n)
      /\ Cardinality(1..n) = IF 1 > n THEN 0 ELSE n - 1 + 1
  BY FS_Interval
<1> QED
  BY <1>1

\* The places of the latencies under v, and of those that are not over it.
Below(s, v) == {i \in 1..Len(s) : s[i] < v}
UpTo(s, v) == {i \in 1..Len(s) : s[i] <= v}

\* There are finitely many of either.
LEMMA Counted ==
    ASSUME NEW s \in Seq(Nat), NEW v \in Nat
    PROVE  /\ IsFiniteSet(Below(s, v)) /\ Cardinality(Below(s, v)) \in Nat
           /\ IsFiniteSet(UpTo(s, v)) /\ Cardinality(UpTo(s, v)) \in Nat
<1>1. IsFiniteSet(1..Len(s))
  BY FS_Interval
<1>2. Below(s, v) \in SUBSET (1..Len(s)) /\ UpTo(s, v) \in SUBSET (1..Len(s))
  BY DEF Below, UpTo
<1> QED
  BY <1>1, <1>2, FS_Subset, FS_CardinalityType

\* AtRank's choice exists: the k-th smallest is the least value that k latencies
\* do not exceed.
LEMMA AtRankIs ==
    ASSUME NEW s \in Seq(Nat), NEW k \in 1..Len(s)
    PROVE  /\ AtRank(s, k) \in {s[i] : i \in 1..Len(s)}
           /\ AtRank(s, k) \in Nat
           /\ Cardinality(Below(s, AtRank(s, k))) < k
           /\ k <= Cardinality(UpTo(s, AtRank(s, k)))
<1> DEFINE Reached == {v \in Nat : k <= Cardinality(UpTo(s, v))}
<1>1. PICK v \in Reached : \A w \in Reached : v <= w
  <2>1. PICK m \in Nat : \A i \in 1..Len(s) : s[i] <= m
    BY UpperBound DEF Bounded
  <2>2. UpTo(s, m) = 1..Len(s)
    BY <2>1 DEF UpTo
  <2>3. Cardinality(1..Len(s)) = Len(s)
    BY FirstNumbers
  <2>4. m \in Reached
    BY <2>2, <2>3
  <2>5. Reached \in SUBSET Nat /\ Reached # {}
    BY <2>4
  <2> HIDE DEF Reached
  <2> QED
    BY <2>5, Least
<1>2. v \in Nat /\ k <= Cardinality(UpTo(s, v))
  OBVIOUS
<1>3. Cardinality(Below(s, v)) < k
  <2>1. CASE v = 0
    <3>1. Below(s, v) = {}
      BY <2>1 DEF Below
    <3> QED
      BY <3>1, FS_EmptySet
  <2>2. CASE v # 0
    <3>1. v - 1 \in Nat /\ v - 1 \notin Reached
      BY <1>1, <1>2, <2>2
    <3>2. UpTo(s, v - 1) = Below(s, v)
      BY <1>2, <2>2 DEF UpTo, Below
    <3>3. ~(k <= Cardinality(UpTo(s, v - 1)))
      BY <3>1
    <3> QED
      BY <3>1, <3>2, <3>3, <1>2, Counted
  <2> QED
    BY <2>1, <2>2
<1>4. v \in {s[i] : i \in 1..Len(s)}
  <2> SUFFICES ASSUME v \notin {s[i] : i \in 1..Len(s)} PROVE FALSE
    OBVIOUS
  <2>1. UpTo(s, v) = Below(s, v)
    BY <1>2 DEF UpTo, Below
  <2> QED
    BY <1>2, <1>3, <2>1, Counted
<1> HIDE DEF Reached
<1>5. AtRank(s, k) = CHOOSE u \in {s[i] : i \in 1..Len(s)} :
          /\ Cardinality(Below(s, u)) < k
          /\ k <= Cardinality(UpTo(s, u))
  BY DEF AtRank, Below, UpTo
<1>6. {s[i] : i \in 1..Len(s)} \subseteq Nat
  OBVIOUS
<1> QED
  BY <1>2, <1>3, <1>4, <1>5, <1>6

\* A higher rank has no smaller latency.
LEMMA AtRankGrows ==
    ASSUME NEW s \in Seq(Nat), NEW j \in 1..Len(s), NEW k \in 1..Len(s), j <= k
    PROVE  AtRank(s, j) <= AtRank(s, k)
<1> DEFINE a == AtRank(s, j)
           b == AtRank(s, k)
<1>1. /\ a \in Nat /\ Cardinality(Below(s, a)) < j
      /\ b \in Nat /\ k <= Cardinality(UpTo(s, b))
  BY AtRankIs
<1> HIDE DEF a, b
<1> SUFFICES ASSUME b < a PROVE FALSE
  BY <1>1 DEF a, b
<1>2. UpTo(s, b) \in SUBSET Below(s, a)
  BY <1>1 DEF UpTo, Below
<1>3. Cardinality(UpTo(s, b)) <= Cardinality(Below(s, a))
  BY <1>1, <1>2, Counted, FS_Subset
<1> QED
  BY <1>1, <1>3, Counted

-----------------------------------------------------------------------------
(* Percentiles.                                                            *)

\* The line through two latencies, in 1/20 of the way and of a millisecond.
OnLine(a, b, w) == 20 * a + (b - a) * w

\* The line stays between its ends, and grows.
LEMMA Between ==
    ASSUME NEW a \in Nat, NEW b \in Nat, a <= b, NEW w \in Nat, w <= 20
    PROVE  /\ OnLine(a, b, w) \in Nat
           /\ 20 * a <= OnLine(a, b, w) /\ OnLine(a, b, w) <= 20 * b
<1>1. (b - a) * w \in Nat /\ (b - a) * (20 - w) >= 0
  OBVIOUS
<1>2. (b - a) * (20 - w) = 20 * b - 20 * a - (b - a) * w
  OBVIOUS
<1> QED
  BY <1>1, <1>2 DEF OnLine

LEMMA LineGrows ==
    ASSUME NEW a \in Nat, NEW b \in Nat, a <= b,
           NEW u \in Nat, NEW w \in Nat, u <= w
    PROVE  OnLine(a, b, u) <= OnLine(a, b, w)
<1>1. (b - a) * (w - u) >= 0
  OBVIOUS
<1>2. /\ (b - a) * (w - u) = (b - a) * w - (b - a) * u
      /\ (b - a) * w \in Int /\ (b - a) * u \in Int
  OBVIOUS
<1> QED
  BY <1>1, <1>2 DEF OnLine

\* Where the percentile falls.
Position(s, t) == (Len(s) - 1) * t
Segment(s, t) == Position(s, t) \div 20
Weight(s, t) == Position(s, t) % 20

\* There are ranks on both sides of it.
LEMMA Places ==
    ASSUME NEW s \in Seq(Nat), Len(s) > 0, NEW t \in Nat, t <= 20
    PROVE  /\ Segment(s, t) \in 0..Len(s) - 1
           /\ Weight(s, t) \in 0..19
           /\ Position(s, t) = 20 * Segment(s, t) + Weight(s, t)
           /\ Weight(s, t) # 0 => Segment(s, t) < Len(s) - 1
<1> DEFINE p == (Len(s) - 1) * t
<1>1. Len(s) - 1 \in Nat
  OBVIOUS
<1>2. p \in Nat /\ p <= 20 * (Len(s) - 1)
  <2>1. \A n \in Nat : n * t \in Nat /\ n * t <= 20 * n
    OBVIOUS
  <2> QED
    BY <1>1, <2>1
<1> HIDE DEF p
<1>3. /\ p \div 20 \in Nat /\ p % 20 \in 0..19
      /\ p = 20 * (p \div 20) + (p % 20)
  BY <1>2
<1>4. p \div 20 <= Len(s) - 1 /\ (p % 20 # 0 => p \div 20 < Len(s) - 1)
  BY <1>1, <1>2, <1>3
<1> QED
  BY <1>1, <1>3, <1>4 DEF p, Position, Segment, Weight

\* A percentile is on the line between two ranks.
LEMMA OnSegment ==
    ASSUME NEW s \in Seq(Nat), Len(s) > 0, NEW t \in Nat, t <= 20
    PROVE  /\ AtRank(s, Segment(s, t) + 1) \in Nat
           /\ Weight(s, t) = 0 =>
                  Percentile(s, t) = 20 * AtRank(s, Segment(s, t) + 1)
           /\ Weight(s, t) # 0 =>
                  /\ AtRank(s, Segment(s, t) + 2) \in Nat
                  /\ AtRank(s, Segment(s, t) + 1) <= AtRank(s, Segment(s, t) + 2)
                  /\ Percentile(s, t) = OnLine(AtRank(s, Segment(s, t) + 1),
                                               AtRank(s, Segment(s, t) + 2),
                                               Weight(s, t))
<1>1. /\ Segment(s, t) \in 0..Len(s) - 1 /\ Len(s) \in Nat
      /\ Weight(s, t) # 0 => Segment(s, t) < Len(s) - 1
  BY Places
<1>2. /\ Segment(s, t) + 1 \in 1..Len(s)
      /\ Weight(s, t) # 0 => /\ Segment(s, t) + 2 \in 1..Len(s)
                             /\ Segment(s, t) + 1 <= Segment(s, t) + 2
  BY <1>1
<1>3. Percentile(s, t) =
          IF Weight(s, t) = 0 THEN 20 * AtRank(s, Segment(s, t) + 1)
          ELSE OnLine(AtRank(s, Segment(s, t) + 1), AtRank(s, Segment(s, t) + 2),
                      Weight(s, t))
  <2>1. s # <<>>
    OBVIOUS
  <2> QED
    BY <2>1 DEF Percentile, Position, Segment, Weight, OnLine
<1> QED
  BY <1>2, <1>3, AtRankIs, AtRankGrows

\* Percentiles grow from the minimum to the maximum.
LEMMA PercentileGrows ==
    ASSUME NEW s \in Seq(Nat), Len(s) > 0, NEW t \in Nat, NEW u \in Nat,
           t <= u, u <= 20
    PROVE  Percentile(s, t) \in Nat /\ Percentile(s, t) <= Percentile(s, u)
<1> DEFINE d == Segment(s, t)
           e == Segment(s, u)
           v == Weight(s, t)
           w == Weight(s, u)
<1>1. /\ d \in 0..Len(s) - 1 /\ v \in 0..19 /\ (v # 0 => d < Len(s) - 1)
      /\ e \in 0..Len(s) - 1 /\ w \in 0..19 /\ (w # 0 => e < Len(s) - 1)
      /\ Position(s, t) = 20 * d + v /\ Position(s, u) = 20 * e + w
  BY Places
<1>2. Position(s, t) <= Position(s, u)
  <2>1. Len(s) - 1 \in Nat
    OBVIOUS
  <2>2. \A n \in Nat : n * t <= n * u
    OBVIOUS
  <2> QED
    BY <2>1, <2>2 DEF Position
<1> HIDE DEF d, e, v, w
<1>3. d < e \/ (d = e /\ v <= w)
  BY <1>1, <1>2
<1> DEFINE R(k) == AtRank(s, k)
<1>4. /\ R(d + 1) \in Nat /\ R(e + 1) \in Nat
      /\ v = 0 => Percentile(s, t) = 20 * R(d + 1)
      /\ v # 0 => /\ R(d + 2) \in Nat /\ R(d + 1) <= R(d + 2)
                  /\ Percentile(s, t) = OnLine(R(d + 1), R(d + 2), v)
      /\ w = 0 => Percentile(s, u) = 20 * R(e + 1)
      /\ w # 0 => /\ R(e + 2) \in Nat /\ R(e + 1) <= R(e + 2)
                  /\ Percentile(s, u) = OnLine(R(e + 1), R(e + 2), w)
  BY OnSegment DEF d, e, v, w
<1>5. R(d + 1) <= R(e + 1) /\ (d < e => R(d + 2) <= R(e + 1))
  <2>1. d + 1 \in 1..Len(s) /\ e + 1 \in 1..Len(s) /\ d + 1 <= e + 1
    BY <1>1, <1>3
  <2>2. d < e => d + 2 \in 1..Len(s) /\ d + 2 <= e + 1
    BY <1>1
  <2> QED
    BY <2>1, <2>2, AtRankGrows
<1> HIDE DEF R
<1>6. v \in Nat /\ v <= 20 /\ w \in Nat /\ w <= 20
  BY <1>1
<1>7. v # 0 => /\ OnLine(R(d + 1), R(d + 2), v) \in Nat
               /\ OnLine(R(d + 1), R(d + 2), v) <= 20 * R(d + 2)
  BY <1>6, <1>4, Between, Zenon
<1>8. w # 0 => /\ OnLine(R(e + 1), R(e + 2), w) \in Nat
               /\ 20 * R(e + 1) <= OnLine(R(e + 1), R(e + 2), w)
  BY <1>6, <1>4, Between, Zenon
<1>9. 20 * R(e + 1) <= Percentile(s, u)
  BY <1>8, <1>4
<1>10. Percentile(s, t) \in Nat /\ Percentile(s, u) \in Nat
  BY <1>7, <1>8, <1>4
<1>11. CASE d < e
  <2>1. R(d + 2) \in Nat /\ R(d + 1) <= R(d + 2)
    <3>1. d + 1 \in 1..Len(s) /\ d + 2 \in 1..Len(s) /\ d + 1 <= d + 2
      BY <1>1, <1>11
    <3> QED
      BY <3>1, AtRankIs, AtRankGrows DEF R
  <2>2. Percentile(s, t) <= 20 * R(d + 2)
    BY <1>7, <1>4, <2>1
  <2> QED
    BY <1>4, <1>5, <1>9, <1>10, <1>11, <2>1, <2>2
<1>12. CASE d = e /\ v <= w
  <2>1. CASE v = 0
    BY <1>4, <1>9, <1>10, <1>12, <2>1
  <2>2. CASE v # 0
    <3>1. w # 0 /\ v \in Nat /\ w \in Nat
      BY <1>1, <1>12, <2>2
    <3>2. OnLine(R(d + 1), R(d + 2), v) <= OnLine(R(d + 1), R(d + 2), w)
      BY <1>4, <1>12, <2>2, <3>1, LineGrows
    <3> QED
      BY <1>4, <1>10, <1>12, <2>2, <3>1, <3>2
  <2> QED
    BY <2>1, <2>2
<1> QED
  BY <1>3, <1>11, <1>12

-----------------------------------------------------------------------------
(* Jitter.                                                                 *)

\* What Jumps adds up from a latency on, given a function that says so for the
\* latencies after it.
SumAt(s, f, i) == IF i >= Len(s) THEN 0 ELSE Abs(s[i + 1] - s[i]) + f[i + 1]
SumsFrom(s, f, n) == \A i \in 1..Attempts : i > Attempts - n => f[i] = SumAt(s, f, i)
Summed(s, n) == \E f \in [1..Attempts -> Nat] : SumsFrom(s, f, n)

\* A sum of numbers is a number.
LEMMA SumAtIsNat ==
    ASSUME NEW s \in Seq(Nat), NEW i \in 1..Attempts, NEW f,
           i < Len(s) => f[i + 1] \in Nat
    PROVE  SumAt(s, f, i) \in Nat
<1>1. CASE i >= Len(s)
  BY <1>1 DEF SumAt
<1>2. CASE i < Len(s)
  <2>1. s[i] \in Nat /\ s[i + 1] \in Nat
    BY <1>2, ProbeAssumption
  <2>2. Abs(s[i + 1] - s[i]) \in Nat
    BY <2>1 DEF Abs
  <2> QED
    BY <1>2, <2>1, <2>2 DEF SumAt
<1> QED
  BY <1>1, <1>2

\* One place more can be summed, and in the end all of them.
LEMMA SummedStep ==
    ASSUME NEW s \in Seq(Nat), Len(s) <= Attempts,
           NEW n \in 1..Attempts, Summed(s, n - 1)
    PROVE  Summed(s, n)
<1>1. PICK f \in [1..Attempts -> Nat] : SumsFrom(s, f, n - 1)
  BY DEF Summed
<1> DEFINE k == Attempts - n + 1
           g == [f EXCEPT ![k] = SumAt(s, f, k)]
<1>2. k \in 1..Attempts
  BY ProbeAssumption
<1>3. g \in [1..Attempts -> Nat]
  <2>1. k < Len(s) => f[k + 1] \in Nat
    BY <1>2, ProbeAssumption
  <2> HIDE DEF k
  <2>2. SumAt(s, f, k) \in Nat
    BY <1>2, <2>1, SumAtIsNat
  <2> QED
    BY <2>2
<1>4. \A i \in 1..Attempts : i # k => g[i] = f[i]
  OBVIOUS
<1>5. g[k] = SumAt(s, f, k)
  BY <1>2
<1> HIDE DEF g
<1>6. ASSUME NEW i \in 1..Attempts, i >= k
      PROVE  SumAt(s, g, i) = SumAt(s, f, i)
  <2>1. CASE i >= Len(s)
    BY <2>1 DEF SumAt
  <2>2. CASE i < Len(s)
    <3>1. i + 1 \in 1..Attempts /\ i + 1 # k
      BY <1>2, <1>6, <2>2, ProbeAssumption
    <3> QED
      BY <1>4, <3>1 DEF SumAt
  <2> QED
    BY <2>1, <2>2
<1>7. SumsFrom(s, g, n)
  <2> SUFFICES ASSUME NEW i \in 1..Attempts, i > Attempts - n PROVE g[i] = SumAt(s, g, i)
    BY DEF SumsFrom
  <2>1. i >= k
    BY ProbeAssumption
  <2>2. CASE i = k
    BY <1>5, <1>6, <2>1, <2>2
  <2>3. CASE i # k
    <3>1. i > Attempts - (n - 1)
      BY <2>1, <2>3, ProbeAssumption
    <3>2. f[i] = SumAt(s, f, i)
      BY <1>1, <3>1 DEF SumsFrom
    <3> QED
      BY <1>4, <1>6, <2>1, <2>3, <3>2
  <2> QED
    BY <2>2, <2>3
<1> QED
  BY <1>3, <1>7 DEF Summed

LEMMA AllSummed ==
    ASSUME NEW s \in Seq(Nat), Len(s) <= Attempts
    PROVE  Summed(s, Attempts)
<1> DEFINE Bad == {n \in 0..Attempts : ~Summed(s, n)}
<1>1. Bad = {}
  <2> SUFFICES ASSUME Bad # {} PROVE FALSE
    OBVIOUS
  <2>1. \E n \in Bad : \A k \in Bad : n <= k
    <3>1. Bad \in SUBSET Nat
      OBVIOUS
    <3> HIDE DEF Bad
    <3> QED
      BY <3>1, Least
  <2>2. PICK n \in 0..Attempts : ~Summed(s, n) /\ \A k \in Bad : n <= k
    BY <2>1
  <2>3. n # 0
    <3>1. \A f : SumsFrom(s, f, 0)
      BY ProbeAssumption DEF SumsFrom
    <3>2. [i \in 1..Attempts |-> 0] \in [1..Attempts -> Nat]
      OBVIOUS
    <3>3. Summed(s, 0)
      BY <3>1, <3>2 DEF Summed
    <3> QED
      BY <2>2, <3>3
  <2>4. n \in 1..Attempts /\ Summed(s, n - 1)
    BY <2>2, <2>3, ProbeAssumption
  <2> QED
    BY <2>2, <2>4, SummedStep
<1> QED
  BY <1>1, ProbeAssumption

\* Jumps is a number: its recursion has a solution, and every solution adds
\* up numbers.
LEMMA JumpsIsNat ==
    ASSUME NEW s \in Seq(Nat), Len(s) <= Attempts
    PROVE  Jumps(s) \in Nat
<1> DEFINE Is(f) == f = [i \in 1..Attempts |-> SumAt(s, f, i)]
           sum == CHOOSE f : Is(f)
<1>1. \E f : Is(f)
  <2>1. PICK f \in [1..Attempts -> Nat] : SumsFrom(s, f, Attempts)
    BY AllSummed DEF Summed
  <2>2. \A i \in 1..Attempts : f[i] = SumAt(s, f, i)
    BY <2>1, ProbeAssumption DEF SumsFrom
  <2>3. f = [i \in 1..Attempts |-> SumAt(s, f, i)]
    BY <2>2
  <2> QED
    BY <2>3
<1>2. Is(sum)
  <2> HIDE DEF Is
  <2> QED
    BY <1>1
<1> HIDE DEF sum
<1>3. \A i \in 1..Attempts : sum[i] = SumAt(s, sum, i)
  BY <1>2
<1>4. Jumps(s) = IF Len(s) < 2 THEN 0 ELSE sum[1]
  BY DEF Jumps, sum, SumAt
<1> HIDE DEF Is
<1> DEFINE Bad == {n \in 0..Attempts - 1 : sum[Attempts - n] \notin Nat}
<1>5. Bad = {}
  <2> SUFFICES ASSUME Bad # {} PROVE FALSE
    OBVIOUS
  <2>1. \E n \in Bad : \A k \in Bad : n <= k
    <3>1. Bad \in SUBSET Nat
      OBVIOUS
    <3> HIDE DEF Bad
    <3> QED
      BY <3>1, Least
  <2>2. PICK n \in 0..Attempts - 1 : /\ sum[Attempts - n] \notin Nat
                                     /\ \A k \in Bad : n <= k
    BY <2>1
  <2> DEFINE i == Attempts - n
  <2>3. i \in 1..Attempts
    BY ProbeAssumption
  <2>4. i < Len(s) => sum[i + 1] \in Nat
    <3> SUFFICES ASSUME i < Len(s) PROVE sum[i + 1] \in Nat
      OBVIOUS
    <3>1. n - 1 \in 0..Attempts - 1 /\ n - 1 \notin Bad
      BY <2>2, ProbeAssumption
    <3>2. sum[Attempts - (n - 1)] \in Nat
      BY <3>1
    <3>3. Attempts - (n - 1) = i + 1
      BY ProbeAssumption
    <3> QED
      BY <3>2, <3>3
  <2>5. sum[i] = SumAt(s, sum, i) /\ sum[i] \notin Nat
    BY <1>3, <2>2, <2>3
  <2> HIDE DEF i
  <2> QED
    BY <2>3, <2>4, <2>5, SumAtIsNat
<1>6. sum[1] \in Nat
  <2>1. Attempts - 1 \in 0..Attempts - 1 /\ Attempts - (Attempts - 1) = 1
    BY ProbeAssumption
  <2>2. Attempts - 1 \notin Bad
    BY <1>5
  <2>3. sum[Attempts - (Attempts - 1)] \in Nat
    BY <2>1, <2>2
  <2> QED
    BY <2>1, <2>3
<1> QED
  BY <1>4, <1>6

-----------------------------------------------------------------------------
(* The score.                                                              *)

LEMMA MedianAndP95 ==
    ASSUME NEW s \in Seq(Nat), Len(s) > 0
    PROVE  /\ 20 * AtRank(s, 1) <= Median(s)
           /\ Median(s) <= P95(s)
           /\ P95(s) <= 20 * AtRank(s, Len(s))
           /\ Median(s) \in Nat
<1>1. s # <<>> /\ Len(s) \in Nat
  OBVIOUS
<1>2. Percentile(s, 0) = 20 * AtRank(s, 1)
  <2>1. /\ (Len(s) - 1) * 0 = 0 /\ 0 \div 20 + 1 = 1 /\ 0 % 20 = 0
    BY <1>1
  <2> QED
    BY <1>1, <2>1 DEF Percentile
<1>3. Percentile(s, 20) = 20 * AtRank(s, Len(s))
  <2>1. /\ ((Len(s) - 1) * 20) \div 20 + 1 = Len(s)
        /\ ((Len(s) - 1) * 20) % 20 = 0
    BY <1>1
  <2> QED
    BY <1>1, <2>1 DEF Percentile
<1>4. /\ Percentile(s, 0) <= Percentile(s, 10) /\ Percentile(s, 10) \in Nat
      /\ Percentile(s, 10) <= Percentile(s, 19)
      /\ Percentile(s, 19) <= Percentile(s, 20)
  BY PercentileGrows
<1> QED
  BY <1>2, <1>3, <1>4 DEF Median, P95

\* Each of the three parts of the score has its share of the unit at most.
LEMMA PointsInRange ==
    ASSUME NEW s \in Seq(Nat), Len(s) <= Attempts
    PROVE  Points(s) \in 0 .. 100 * Unit(s)
<1> DEFINE g == Gaps(s)
           m == Median(s)
           j == Jumps(s)
           n == Len(s)
           a == Attempts
<1>1. /\ g \in Nat /\ n \in Nat /\ a \in Nat /\ n <= a
  BY ProbeAssumption DEF Gaps
<1>2. m \in Nat
  <2>1. CASE Len(s) > 0
    BY <2>1, MedianAndP95
  <2>2. CASE s = <<>>
    BY <2>2 DEF Median, Percentile
  <2> QED
    BY <2>1, <2>2
<1>3. j \in Nat
  BY JumpsIsNat
<1> HIDE DEF g, m, j, n, a
<1> DEFINE l == Floor(20000 - m)
           b == Floor(250 * g - j)
<1>4. l \in 0..20000 /\ b \in Nat /\ b <= 250 * g
  BY <1>1, <1>2, <1>3 DEF Floor
<1> HIDE DEF l, b
<1>5. n * g \in Nat /\ a * g \in Nat /\ n * g <= a * g
  <2>1. (a - n) * g >= 0 /\ (a - n) * g = a * g - n * g
    BY <1>1
  <2>2. n * g \in Nat /\ a * g \in Nat
    BY <1>1
  <2> QED
    BY <2>1, <2>2
<1>6. (a * g) * l \in Nat /\ (a * g) * l <= 20000 * (a * g)
  <2>1. \A x \in Nat : x * l \in Nat /\ x * l <= 20000 * x
    BY <1>4
  <2> QED
    BY <1>5, <2>1
<1>7. a * b \in Nat /\ a * b <= 250 * (a * g)
  <2>1. a * (250 * g - b) >= 0 /\ a * (250 * g - b) = 250 * (a * g) - a * b
    BY <1>1, <1>4
  <2>2. a * b \in Nat /\ a * g \in Nat
    BY <1>1, <1>4
  <2> QED
    BY <2>1, <2>2
<1>8. Points(s) = 200000 * (n * g) + 7 * ((a * g) * l) + 240 * (a * b)
  <2>1. Points(s) = 200000 * n * g + 7 * a * g * l + 240 * a * b
    BY DEF Points, n, g, a, l, b, m, j
  <2>2. /\ 200000 * n * g = 200000 * (n * g)
        /\ 7 * a * g * l = 7 * ((a * g) * l)
        /\ 240 * a * b = 240 * (a * b)
    BY <1>1, <1>4
  <2> QED
    BY <2>1, <2>2
<1>9. 100 * Unit(s) = 400000 * (a * g)
  BY <1>1 DEF Unit, a, g
<1> QED
  BY <1>5, <1>6, <1>7, <1>8, <1>9

\* MetricsInRange: for any number of attempts and any latencies, the minimum, the
\* median, the 95th percentile and the maximum are in this order, and the score
\* is in 0..100 before its bounds are applied.
THEOREM MetricsRange == Spec => []MetricsInRange
<1>1. TypeOK => MetricsInRange
  <2> SUFFICES ASSUME TypeOK PROVE MetricsInRange
    OBVIOUS
  <2>1. values \in Seq(Nat) /\ Len(values) <= Attempts
    <3>1. values \in Seq(Latencies) /\ Latencies \subseteq Nat
      BY ProbeAssumption DEF TypeOK
    <3>2. values \in Seq(Nat)
      <4>1. /\ Len(values) \in Nat /\ DOMAIN values = 1..Len(values)
            /\ values = [i \in 1..Len(values) |-> values[i]]
            /\ \A i \in 1..Len(values) : values[i] \in Latencies
        BY <3>1
      <4>2. \A i \in 1..Len(values) : values[i] \in Nat
        BY <3>1, <4>1
      <4> QED
        BY <4>1, <4>2
    <3> QED
      BY <3>2, ProbeAssumption DEF TypeOK
  <2>2. values # <<>> => Len(values) > 0
    BY <2>1
  <2> QED
    BY <2>1, <2>2, MedianAndP95, PointsInRange DEF MetricsInRange
<1> QED
  BY <1>1, TypeCorrect, PTL
=============================================================================
