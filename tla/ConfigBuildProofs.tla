--------------------------- MODULE ConfigBuildProofs ---------------------------
(***************************************************************************)
(* Proofs about SourceLoading and ConfigBuild: types, the configs that are *)
(* loaded, the outbound that is measured and what a link is tested as, for *)
(* texts, documents, limits, rules and links of any size.                  *)
(***************************************************************************)
EXTENDS ConfigBuild, FiniteSetTheorems, SequenceTheorems, TLAPS

-----------------------------------------------------------------------------
(* Texts.                                                                  *)

Lines == Links \cup {Junk}
SpecRecords == [index : 0..MaxLines, uri : Texts \cup {<<>>}]

LEMMA TextType ==
    ASSUME NEW t \in Texts \cup {<<>>}
    PROVE  t \in Seq(Lines) /\ Len(t) \in 0..MaxLines
<1>1. CASE t = <<>>
  BY <1>1, SourceAssumption
<1>2. CASE t \in Texts
  <2>1. PICK n \in 1..MaxLines : t \in [1..n -> Lines]
    BY <1>2 DEF Texts, Lines
  <2>2. n \in Nat
    BY <2>1, SourceAssumption
  <2>3. t \in Seq(Lines)
    BY <2>1, <2>2, SeqDef
  <2>4. Len(t) = n
    BY <2>1, <2>2, <2>3, LenProperties
  <2> QED
    BY <2>1, <2>3, <2>4, SourceAssumption
<1> QED
  BY <1>1, <1>2

LEMMA OneLine ==
    ASSUME NEW x \in Lines
    PROVE  <<x>> \in Texts
<1>1. <<x>> \in [1..1 -> Lines]
  OBVIOUS
<1> QED
  BY <1>1, SourceAssumption DEF Texts, Lines

-----------------------------------------------------------------------------
(* First occurrences.                                                      *)

FirstIn(t, i) == t[i] \in Links /\ \A j \in 1..i - 1 : t[j] # t[i]
Firsts(t, n) == {i \in 1..n : FirstIn(t, i)}

LEMMA FirstsFinite ==
    ASSUME NEW t, NEW n \in Nat
    PROVE  /\ IsFiniteSet(Firsts(t, n))
           /\ Cardinality(Firsts(t, n)) \in 0..n
<1>1. IsFiniteSet(1..n) /\ Cardinality(1..n) = n /\ Firsts(t, n) \in SUBSET (1..n)
  BY FS_Interval DEF Firsts
<1>2. IsFiniteSet(Firsts(t, n)) /\ Cardinality(Firsts(t, n)) <= n
  BY <1>1, FS_Subset
<1>3. Cardinality(Firsts(t, n)) \in Nat
  BY <1>2, FS_CardinalityType
<1> QED
  BY <1>2, <1>3

LEMMA FirstsNext ==
    ASSUME NEW t, NEW n \in Nat
    PROVE  Cardinality(Firsts(t, n + 1))
               = Cardinality(Firsts(t, n)) + (IF FirstIn(t, n + 1) THEN 1 ELSE 0)
<1>1. IsFiniteSet(Firsts(t, n)) /\ Cardinality(Firsts(t, n)) \in Nat
  BY FirstsFinite
<1>2. n + 1 \notin Firsts(t, n)
  BY DEF Firsts
<1>3. CASE FirstIn(t, n + 1)
  <2>1. Firsts(t, n + 1) = Firsts(t, n) \cup {n + 1}
    BY <1>3 DEF Firsts
  <2> QED
    BY <1>1, <1>2, <1>3, <2>1, FS_AddElement
<1>4. CASE ~FirstIn(t, n + 1)
  <2>1. Firsts(t, n + 1) = Firsts(t, n)
    BY <1>4 DEF Firsts
  <2> QED
    BY <1>1, <1>4, <2>1
<1> QED
  BY <1>3, <1>4

\* sp holds what the first n lines of t have to give.
Collected(t, sp, n) ==
    /\ Len(sp) = Cardinality(Firsts(t, n))
    /\ \A i \in 1..n : FirstIn(t, i) =>
           sp[Cardinality(Firsts(t, i))]
               = [index |-> Cardinality(Firsts(t, i)) - 1, uri |-> <<t[i]>>]
    /\ \A x \in Links :
           (\E k \in 1..Len(sp) : sp[k].uri = <<x>>) <=> \E j \in 1..n : t[j] = x

LEMMA NothingCollected ==
    ASSUME NEW t PROVE Collected(t, <<>>, 0)
<1>1. Firsts(t, 0) = {}
  BY DEF Firsts
<1>2. Cardinality(Firsts(t, 0)) = 0
  BY <1>1, FS_EmptySet
<1>3. Len(<<>>) = 0
  OBVIOUS
<1> QED
  BY <1>2, <1>3 DEF Collected

LEMMA CollectLine ==
    ASSUME NEW t \in Seq(Lines), NEW n \in Nat, n < Len(t), n < MaxLines,
           NEW sp \in Seq(SpecRecords), Collected(t, sp, n),
           NEW sp2,
           sp2 = IF t[n + 1] \in Links /\ ~\E k \in 1..Len(sp) : sp[k].uri = <<t[n + 1]>>
                 THEN Append(sp, Spec0(Len(sp), <<t[n + 1]>>)) ELSE sp
    PROVE  Collected(t, sp2, n + 1) /\ sp2 \in Seq(SpecRecords)
<1> DEFINE m == n + 1
           new == Spec0(Len(sp), <<t[m]>>)
           rank(i) == Cardinality(Firsts(t, i))
<1>1. FirstIn(t, m) <=>
        (t[m] \in Links /\ ~\E k \in 1..Len(sp) : sp[k].uri = <<t[m]>>)
  <2>1. FirstIn(t, m) <=> (t[m] \in Links /\ ~\E j \in 1..n : t[j] = t[m])
    BY DEF FirstIn
  <2> QED
    BY <2>1 DEF Collected
<1>2. Len(sp) = rank(n) /\ rank(n) \in 0..n
  BY FirstsFinite DEF Collected
<1>3. \A i \in 1..n : FirstIn(t, i) => rank(i) \in 1..Len(sp)
  <2> SUFFICES ASSUME NEW i \in 1..n, FirstIn(t, i) PROVE rank(i) \in 1..Len(sp)
    OBVIOUS
  <2>1. i \in Firsts(t, i) /\ Firsts(t, i) \in SUBSET Firsts(t, n)
    BY DEF Firsts
  <2>2. IsFiniteSet(Firsts(t, i)) /\ IsFiniteSet(Firsts(t, n)) /\ rank(i) \in Nat
    BY FirstsFinite
  <2>3. rank(i) <= rank(n)
    BY <2>1, <2>2, FS_Subset
  <2>4. rank(i) # 0
    BY <2>1, <2>2, FS_EmptySet
  <2> QED
    BY <1>2, <2>2, <2>3, <2>4
<1>4. CASE FirstIn(t, m)
  <2>1. sp2 = Append(sp, new) /\ t[m] \in Links
    BY <1>1, <1>4
  <2>2. new \in SpecRecords /\ new.uri = <<t[m]>> /\ new.index = Len(sp)
    BY <1>2, <2>1, OneLine, SourceAssumption DEF Spec0, SpecRecords, Lines
  <2>3. /\ sp2 \in Seq(SpecRecords)
        /\ Len(sp2) = Len(sp) + 1
        /\ \A i \in 1..Len(sp) : sp2[i] = sp[i]
        /\ sp2[Len(sp) + 1] = new
    BY <2>1, <2>2, AppendProperties
  <2>4. rank(m) = Len(sp) + 1
    BY <1>2, <1>4, FirstsNext
  <2>5. ASSUME NEW i \in 1..m, FirstIn(t, i)
        PROVE  sp2[rank(i)] = [index |-> rank(i) - 1, uri |-> <<t[i]>>]
    <3>1. CASE i = m
      <4>1. sp2[rank(m)] = new
        BY <2>3, <2>4
      <4>2. rank(m) - 1 = Len(sp)
        BY <1>2, <2>4
      <4> QED
        BY <3>1, <4>1, <4>2 DEF Spec0
    <3>2. CASE i \in 1..n
      BY <1>3, <2>3, <2>5, <3>2 DEF Collected
    <3>3. i = m \/ i \in 1..n
      OBVIOUS
    <3> QED
      BY <3>1, <3>2, <3>3
  <2>6. ASSUME NEW x \in Links
        PROVE  (\E k \in 1..Len(sp2) : sp2[k].uri = <<x>>) <=> \E j \in 1..m : t[j] = x
    <3>1. (\E k \in 1..Len(sp2) : sp2[k].uri = <<x>>)
            <=> ((\E k \in 1..Len(sp) : sp[k].uri = <<x>>) \/ t[m] = x)
      <4> DEFINE Holds(q) == \E k \in 1..Len(q) : q[k].uri = <<x>>
      <4>1. 1..Len(sp2) = (1..Len(sp)) \cup {Len(sp) + 1}
        BY <1>2, <2>3
      <4>2. <<t[m]>> = <<x>> <=> t[m] = x
        OBVIOUS
      <4>3. sp2[Len(sp) + 1].uri = <<t[m]>>
        BY <2>2, <2>3
      <4>4. Holds(sp2) <=> ((\E k \in 1..Len(sp) : sp2[k].uri = <<x>>)
                              \/ <<t[m]>> = <<x>>)
        BY <4>1, <4>3
      <4> QED
        BY <2>3, <4>2, <4>4
    <3>2. (\E j \in 1..m : t[j] = x) <=> ((\E j \in 1..n : t[j] = x) \/ t[m] = x)
      OBVIOUS
    <3> QED
      BY <3>1, <3>2 DEF Collected
  <2> QED
    BY <2>3, <2>4, <2>5, <2>6 DEF Collected
<1>5. CASE ~FirstIn(t, m)
  <2>1. sp2 = sp /\ rank(m) = rank(n)
    BY <1>1, <1>2, <1>5, FirstsNext
  <2>2. \A i \in 1..m : FirstIn(t, i) => i \in 1..n
    BY <1>5
  <2>3. ASSUME NEW x \in Links
        PROVE  (\E k \in 1..Len(sp) : sp[k].uri = <<x>>) <=> \E j \in 1..m : t[j] = x
    <3>1. (\E j \in 1..m : t[j] = x) <=> ((\E j \in 1..n : t[j] = x) \/ t[m] = x)
      OBVIOUS
    <3>2. t[m] = x => \E j \in 1..n : t[j] = x
      BY <1>5 DEF FirstIn
    <3> QED
      BY <3>1, <3>2 DEF Collected
  <2> QED
    BY <2>1, <2>2, <2>3 DEF Collected
<1> QED
  BY <1>4, <1>5

-----------------------------------------------------------------------------
(* Loading.                                                                *)

\* Before the lines nothing is collected; then always what they have given.
LoadInv ==
    /\ LoadTypeOK
    /\ stage \in {"prepare", "load", "content"} => next = 1 /\ specs = <<>>
    /\ stage = "links" => /\ ~OverLimit
                          /\ next <= Len(lines) + 1
                          /\ Collected(lines, specs, next - 1)
    /\ Loaded /\ next > 1 => Collected(lines, specs, Len(lines))

\* There are no more first occurrences than the links that were counted.
LEMMA CollectedFits ==
    ASSUME LoadTypeOK, ~OverLimit, NEW n \in Nat, n <= Len(lines),
           NEW sp \in Seq(SpecRecords), Collected(lines, sp, n)
    PROVE  Len(sp) <= MaxConfigs
<1> DEFINE links == {i \in 1..Len(lines) : IsLink(lines[i])}
<1>1. Len(lines) \in Nat
  BY TextType, SourceAssumption DEF LoadTypeOK
<1>2. IsFiniteSet(links)
  <2>1. IsFiniteSet(1..Len(lines)) /\ links \in SUBSET (1..Len(lines))
    BY <1>1, FS_Interval
  <2> QED
    BY <2>1, FS_Subset
<1>3. Firsts(lines, n) \in SUBSET links
  BY <1>1 DEF Firsts, FirstIn, IsLink
<1>4. Cardinality(Firsts(lines, n)) <= Cardinality(links)
  BY <1>2, <1>3, FS_Subset
<1>5. Cardinality(links) \in Nat /\ Cardinality(Firsts(lines, n)) \in Nat
  BY <1>2, FS_CardinalityType, FirstsFinite
<1>6. Cardinality(links) <= MaxConfigs
  BY <1>5, SourceAssumption DEF OverLimit, CountLinks
<1> QED
  BY <1>4, <1>5, <1>6, SourceAssumption DEF Collected

LEMMA SpecType ==
    ASSUME NEW uri \in Texts \cup {<<>>}
    PROVE  /\ <<Spec0(0, uri)>> \in Seq(SpecRecords)
           /\ Len(<<Spec0(0, uri)>>) <= MaxConfigs
<1>1. Spec0(0, uri) \in SpecRecords
  BY SourceAssumption DEF Spec0, SpecRecords
<1> QED
  BY <1>1, SourceAssumption

LEMMA LoadInitInv == LoadInit => LoadInv
<1> SUFFICES ASSUME LoadInit PROVE LoadInv
  OBVIOUS
<1>1. /\ stage \in {"prepare", "load"} /\ next = 1 /\ specs = <<>>
      /\ lines \in Texts \cup {<<>>} /\ form \in Forms
      /\ kind \in Kinds /\ place \in Places /\ remote \in BOOLEAN
  BY DEF LoadInit, Forms
<1>2. specs \in Seq(SpecRecords) /\ Len(specs) <= MaxConfigs
  BY <1>1, SourceAssumption
<1> QED
  BY <1>1, <1>2, SourceAssumption DEF LoadInv, LoadTypeOK, Loaded, SpecRecords

\* Before the lines: the value is read, refused, or is the only config.
LEMMA EarlyStep ==
    LoadInv /\ (Prepare \/ LoadURI \/ LoadText \/ Fetch \/ LoadFails \/ ContentJSON
                \/ ContentFails \/ ContentLinks)
        => LoadInv'
<1> SUFFICES ASSUME LoadInv,
                    \/ Prepare \/ LoadURI \/ LoadText \/ Fetch \/ LoadFails
                    \/ ContentJSON \/ ContentFails \/ ContentLinks
             PROVE  LoadInv'
  OBVIOUS
<1> USE DEF To
<1>1. stage \in {"prepare", "load", "content"} /\ next = 1 /\ specs = <<>>
  BY DEF LoadInv, Prepare, LoadURI, LoadText, Fetch, LoadFails, ContentJSON, ContentFails,
         ContentLinks
<1>2. UNCHANGED <<remote, form, lines, next>>
  BY DEF Prepare, LoadURI, LoadText, Fetch, LoadFails, ContentJSON, ContentFails,
         ContentLinks, ReadHere, Failed, source
<1>3. kind' \in Kinds /\ place' \in Places
  BY DEF LoadInv, LoadTypeOK, Prepare, LoadURI, LoadText, Fetch, LoadFails, ContentJSON,
         ContentFails, ContentLinks, ReadHere, Failed, source, Kinds, Places
<1>4. /\ stage' \in {"load", "content", "failed", "links", "loaded"}
      /\ stage' # "loaded" => specs' = <<>>
      /\ stage' = "links" => ~OverLimit
  BY <1>1 DEF Prepare, LoadURI, LoadText, Fetch, LoadFails, ContentJSON, ContentFails,
              ContentLinks, Failed
<1>5. specs' = specs \/ (\E uri \in Texts \cup {<<>>} : specs' = <<Spec0(0, uri)>>)
  BY DEF LoadInv, LoadTypeOK, Prepare, LoadURI, LoadText, Fetch, LoadFails, ContentJSON,
         ContentFails, ContentLinks, Failed
<1>6. specs' \in Seq(SpecRecords) /\ Len(specs') <= MaxConfigs
  BY <1>5, SpecType DEF LoadInv, LoadTypeOK, SpecRecords
<1>7. LoadTypeOK'
  BY <1>2, <1>3, <1>4, <1>6 DEF LoadInv, LoadTypeOK, SpecRecords
<1>8. Len(lines) \in Nat
  BY TextType, SourceAssumption DEF LoadInv, LoadTypeOK
<1>9. stage' = "links" => /\ ~OverLimit'
                          /\ next' <= Len(lines') + 1
                          /\ Collected(lines', specs', next' - 1)
  <2>1. OverLimit' = OverLimit
    BY <1>2 DEF OverLimit, CountLinks, IsLink
  <2>2. next - 1 = 0
    BY <1>1
  <2> QED
    BY <1>1, <1>2, <1>4, <1>8, <2>1, <2>2, NothingCollected
<1> QED
  BY <1>1, <1>2, <1>4, <1>7, <1>9 DEF LoadInv, Loaded

LEMMA LineStep == LoadInv /\ TakeLine => LoadInv'
<1> SUFFICES ASSUME LoadInv, TakeLine PROVE LoadInv'
  OBVIOUS
<1>1. /\ stage = "links" /\ next \in 1..Len(lines) /\ next' = next + 1
      /\ UNCHANGED <<stage, remote, kind, place, form, lines>>
  BY DEF TakeLine, LoadInv, LoadTypeOK, source
<1>2. lines \in Seq(Lines) /\ Len(lines) \in 0..MaxLines
  BY TextType DEF LoadInv, LoadTypeOK
<1>3. Collected(lines, specs, next - 1) /\ specs \in Seq(SpecRecords)
  BY <1>1 DEF LoadInv, LoadTypeOK, SpecRecords
<1>4. specs' = IF /\ lines[next] \in Links
                  /\ ~\E k \in 1..Len(specs) : specs[k].uri = <<lines[next]>>
               THEN Append(specs, Spec0(Len(specs), <<lines[next]>>)) ELSE specs
  BY DEF TakeLine, IsLink, Seen, NextIndex
<1>5. Collected(lines, specs', next) /\ specs' \in Seq(SpecRecords)
  <2> DEFINE n == next - 1
  <2>1. n \in Nat /\ n < Len(lines) /\ n < MaxLines /\ n + 1 = next
    BY <1>1, <1>2, SourceAssumption
  <2>2. Collected(lines, specs', n + 1) /\ specs' \in Seq(SpecRecords)
    BY <1>2, <1>3, <1>4, <2>1, CollectLine
  <2> QED
    BY <2>1, <2>2
<1>6. ~OverLimit
  BY <1>1 DEF LoadInv
<1>7. Len(specs') <= MaxConfigs
  BY <1>1, <1>2, <1>5, <1>6, CollectedFits DEF LoadInv
<1>8. LoadTypeOK'
  BY <1>1, <1>2, <1>5, <1>7, SourceAssumption DEF LoadInv, LoadTypeOK, SpecRecords
<1>9. ~OverLimit' /\ next' <= Len(lines') + 1 /\ Collected(lines', specs', next' - 1)
  <2>1. OverLimit' = OverLimit
    BY <1>1 DEF OverLimit, CountLinks, IsLink
  <2>2. next' - 1 = next
    BY <1>1
  <2> QED
    BY <1>1, <1>2, <1>5, <1>6, <2>1, <2>2
<1> QED
  BY <1>1, <1>8, <1>9 DEF LoadInv, Loaded

LEMMA EndStep == LoadInv /\ EndLines => LoadInv'
<1> SUFFICES ASSUME LoadInv, EndLines PROVE LoadInv'
  OBVIOUS
<1>1. /\ stage = "links" /\ stage' = "loaded" /\ next > Len(lines)
      /\ UNCHANGED <<remote, kind, place, form, lines, next, specs>>
  BY DEF EndLines, To, source
<1>2. LoadTypeOK' /\ next \in Nat /\ Len(lines) \in Nat
  BY <1>1, TextType, SourceAssumption DEF LoadInv, LoadTypeOK
<1>3. next - 1 = Len(lines) /\ Collected(lines, specs, next - 1)
  BY <1>1, <1>2 DEF LoadInv
<1> QED
  BY <1>1, <1>2, <1>3 DEF LoadInv, Loaded

\* Collected is what FirstOccurrences says of all the lines.
LEMMA CollectedIsFirst == LoadInv => FirstOccurrences
<1> SUFFICES ASSUME LoadInv, Loaded, next > 1
             PROVE  /\ Len(specs) = Cardinality({i \in 1..Len(lines) : First(i)})
                    /\ \A i \in 1..Len(lines) :
                          First(i) => LET n == Cardinality({j \in 1..i : First(j)})
                                      IN  specs[n] = [index |-> n - 1, uri |-> <<lines[i]>>]
  BY DEF FirstOccurrences
<1>1. \A i : First(i) <=> FirstIn(lines, i)
  BY DEF First, FirstIn
<1>2. \A i : {j \in 1..i : First(j)} = Firsts(lines, i)
  BY <1>1 DEF Firsts
<1> QED
  BY <1>1, <1>2 DEF LoadInv, Collected

-----------------------------------------------------------------------------
(* Building and measuring.                                                 *)

LEMMA UpTo ==
    ASSUME NEW S, NEW n \in Nat, NEW q
    PROVE  q \in SeqUpTo(n, S) <=> q \in Seq(S) /\ Len(q) <= n
<1>1. ASSUME q \in SeqUpTo(n, S) PROVE q \in Seq(S) /\ Len(q) <= n
  <2>1. PICK k \in 0..n : q \in [1..k -> S]
    BY <1>1 DEF SeqUpTo
  <2>2. q \in Seq(S)
    BY <2>1, SeqDef
  <2>3. Len(q) = k
    BY <2>1, <2>2, LenProperties
  <2> QED
    BY <2>1, <2>2, <2>3
<1>2. ASSUME q \in Seq(S), Len(q) <= n PROVE q \in SeqUpTo(n, S)
  <2>1. Len(q) \in 0..n /\ q \in [1..Len(q) -> S]
    BY <1>2, LenProperties
  <2> QED
    BY <2>1 DEF SeqUpTo
<1> QED
  BY <1>1, <1>2

\* Everything but the selection, which is in BuiltInv.
Before == {"prepare", "load", "content", "links", "loaded", "failed"}

\* A document that was built has one rule more, to the outbound that was
\* selected, which has a tag; a link's has no rules and one outbound.
Selected ==
    /\ selected \in 1..Len(outbounds)
    /\ bound = IF interface THEN selected ELSE 0
    /\ outbounds[selected].tag # NoTag
    /\ form = "json" =>
          /\ rules # <<>>
          /\ rules[Len(rules)] = [matches |-> TRUE, to |-> outbounds[selected].tag]
    /\ form # "json" => rules = <<>> /\ selected = 1

BuildInv ==
    /\ LoadInv
    /\ outbounds \in Seq(Outbounds) /\ Len(outbounds) <= MaxOutbounds
    /\ rules \in Seq(Rules) /\ Len(rules) <= MaxRules + 1
    /\ requested \in Tags /\ interface \in BOOLEAN
    /\ selected \in 0..MaxOutbounds /\ bound \in 0..MaxOutbounds
    /\ measured \in 0..MaxOutbounds
    /\ stage \in Before => Len(rules) <= MaxRules /\ measured = 0
    /\ form # "json" => rules = <<>>
    /\ stage = "built" => Selected
    /\ measured # 0 => MeasuredIsSelected

LEMMA BuildInit == Init => BuildInv
<1> SUFFICES ASSUME Init PROVE BuildInv
  OBVIOUS
<1> USE BuildAssumption
<1>1. LoadInv /\ stage \in {"prepare", "load"}
  BY LoadInitInv DEF Init, LoadInit
<1>2. /\ outbounds \in Seq(Outbounds) /\ Len(outbounds) <= MaxOutbounds
      /\ rules \in Seq(Rules) /\ Len(rules) <= MaxRules
      /\ requested \in Tags /\ (form # "json" => rules = <<>>)
  <2>1. CASE form # "json" /\ outbounds = <<>> /\ rules = <<>> /\ requested = NoTag
    BY <2>1
  <2> DEFINE Outs == [tag : Tags, eligible : BOOLEAN]
             Rs == [matches : BOOLEAN, to : Tags \ {NoTag}]
  <2>2. CASE /\ form = "json" /\ requested \in Tags
             /\ outbounds \in SeqUpTo(MaxOutbounds, Outs)
             /\ rules \in SeqUpTo(MaxRules, Rs)
    <3>3. /\ outbounds \in Seq(Outs) /\ Len(outbounds) <= MaxOutbounds
          /\ rules \in Seq(Rs) /\ Len(rules) <= MaxRules
      BY <2>2, UpTo
    <3>4. Outs \subseteq Outbounds /\ Rs \subseteq Rules
      BY DEF Outbounds, Rules
    <3>5. ASSUME NEW S, NEW T, S \subseteq T, NEW q \in Seq(S) PROVE q \in Seq(T)
      BY <3>5
    <3> HIDE DEF Outs, Rs
    <3> QED
      BY <2>2, <3>3, <3>4, <3>5
  <2> QED
    BY <2>1, <2>2 DEF Init
<1>3. selected = 0 /\ bound = 0 /\ measured = 0 /\ interface \in BOOLEAN
  BY DEF Init
<1> QED
  BY <1>1, <1>2, <1>3 DEF BuildInv

LEMMA LoadStep == BuildInv /\ Load => BuildInv'
<1> SUFFICES ASSUME BuildInv, Load PROVE BuildInv'
  OBVIOUS
<1>1. LoadInv'
  BY EarlyStep, LineStep, EndStep DEF Load, LoadNext, BuildInv
<1>2. /\ stage \in Before /\ stage' \in Before /\ UNCHANGED form
      /\ UNCHANGED <<outbounds, rules, requested, interface, selected, bound, measured>>
  BY DEF Load, LoadNext, document, source, Prepare, LoadURI, LoadText, Fetch, LoadFails,
         ContentJSON, ContentFails, ContentLinks, TakeLine, EndLines, ReadHere, Failed,
         To, Before
<1> QED
  BY <1>1, <1>2 DEF BuildInv, Before

\* The configs stay what was loaded.
LEMMA LoadInvKept ==
    ASSUME LoadInv, Loaded, UNCHANGED <<remote, source, next, specs>>,
           stage' \in {"built", "rejected"}
    PROVE  LoadInv'
<1>1. UNCHANGED <<remote, kind, place, form, lines, next, specs>>
  BY DEF source
<1> QED
  BY <1>1 DEF LoadInv, LoadTypeOK, Loaded

LEMMA BuildJSONStep == BuildInv /\ BuildJSON => BuildInv'
<1> SUFFICES ASSUME BuildInv, BuildJSON PROVE BuildInv'
  OBVIOUS
<1> USE BuildAssumption
<1>1. PICK i \in Chosen :
        /\ selected' = i /\ bound' = Bound(i)
        /\ outbounds' = [outbounds EXCEPT ![i] = Target(@)]
        /\ rules' = Append(rules, RuleFor(i))
  BY DEF BuildJSON
<1>2. /\ stage = "loaded" /\ form = "json" /\ stage' = "built" /\ measured = 0
      /\ UNCHANGED <<form, requested, interface, measured>>
  BY DEF BuildJSON, BuildInv, Before, To, source
<1>3. LoadInv'
  BY LoadInvKept DEF BuildJSON, BuildInv, To, Loaded
<1>4. i \in 1..Len(outbounds) /\ outbounds \in Seq(Outbounds)
  BY DEF Chosen, BuildInv
<1> DEFINE old == outbounds[i]
           new == Target(old)
<1>5. old \in Outbounds
  BY <1>4
<1>6. new \in Outbounds /\ new.tag = Tagged(old.tag)
  BY <1>5 DEF Outbounds, Target, Tagged
<1>7. new.tag # NoTag /\ new.tag \in (Tags \cup {OwnTag}) \ {NoTag}
  BY <1>5, <1>6 DEF Tagged, Outbounds
<1>8. /\ outbounds' \in Seq(Outbounds) /\ Len(outbounds') = Len(outbounds)
      /\ outbounds'[i] = new
  <2>1. outbounds' = [outbounds EXCEPT ![i] = new]
    BY <1>1
  <2> HIDE DEF new
  <2> QED
    BY <1>4, <1>6, <2>1, ExceptSeq
<1>9. RuleFor(i) = [matches |-> TRUE, to |-> new.tag] /\ RuleFor(i) \in Rules
  BY <1>6, <1>7 DEF RuleFor, Rules
<1>10. /\ rules' \in Seq(Rules) /\ rules' # <<>> /\ Len(rules') = Len(rules) + 1
       /\ rules'[Len(rules')] = RuleFor(i)
  BY <1>1, <1>9, AppendProperties DEF BuildInv
<1>11. Selected'
  BY <1>1, <1>2, <1>4, <1>7, <1>8, <1>9, <1>10 DEF Selected, Bound
<1>12. Len(rules') <= MaxRules + 1 /\ Len(outbounds') <= MaxOutbounds
  BY <1>2, <1>8, <1>10 DEF BuildInv, Before
<1>13. selected' \in 0..MaxOutbounds /\ bound' \in 0..MaxOutbounds
  BY <1>1, <1>4 DEF Bound, BuildInv
<1> QED
  BY <1>2, <1>3, <1>8, <1>10, <1>11, <1>12, <1>13 DEF BuildInv, Before

LEMMA BuildLinkStep == BuildInv /\ BuildLink => BuildInv'
<1> SUFFICES ASSUME BuildInv, BuildLink PROVE BuildInv'
  OBVIOUS
<1> USE BuildAssumption
<1>1. /\ stage = "loaded" /\ form # "json" /\ stage' \in {"built", "rejected"}
      /\ measured = 0 /\ rules = <<>>
      /\ UNCHANGED <<form, rules, requested, interface, measured>>
  BY DEF BuildLink, BuildInv, Before, To, source
<1>2. LoadInv'
  BY <1>1, LoadInvKept DEF BuildLink, BuildInv, Loaded
<1>3. CASE stage' = "rejected" /\ UNCHANGED <<outbounds, selected, bound>>
  BY <1>1, <1>2, <1>3 DEF BuildInv, Before
<1>4. CASE /\ outbounds' = <<[tag |-> OwnTag, eligible |-> TRUE]>>
           /\ selected' = 1 /\ bound' = Bound(1) /\ stage' = "built"
  <2> DEFINE own == [tag |-> OwnTag, eligible |-> TRUE]
  <2>1. own \in Outbounds /\ own.tag # NoTag
    BY DEF Outbounds
  <2>2. outbounds' \in Seq(Outbounds) /\ Len(outbounds') = 1 /\ outbounds'[1] = own
    BY <1>4, <2>1
  <2>3. Selected' /\ bound' \in 0..MaxOutbounds
    BY <1>1, <1>4, <2>1, <2>2 DEF Selected, Bound
  <2> QED
    BY <1>1, <1>2, <1>4, <2>2, <2>3 DEF BuildInv, Before
<1> QED
  BY <1>3, <1>4 DEF BuildLink, To

\* The rule of the probes' inbound is the last: it decides if no other matches.
LEMMA RuleDecides ==
    ASSUME BuildInv, Selected, Accepted, NEW o \in 1..Len(outbounds), Carries(o),
           \A i \in 1..Len(rules) - 1 : ~rules[i].matches
    PROVE  o = selected
<1>1. CASE form # "json"
  BY <1>1 DEF Selected, Carries, Matching
<1>2. CASE form = "json"
  <2>1. /\ rules \in Seq(Rules) /\ Len(rules) \in Nat \ {0}
        /\ rules[Len(rules)].matches
        /\ rules[Len(rules)].to = outbounds[selected].tag
    BY <1>2 DEF BuildInv, Selected
  <2>2. PICK i \in 1..Len(rules) : Matching(i) /\ rules[i].to = outbounds[o].tag
    BY <2>1 DEF Carries
  <2>3. i = Len(rules)
    BY <2>1, <2>2 DEF Matching
  <2>4. outbounds[o].tag = outbounds[selected].tag /\ outbounds[o].tag # NoTag
    BY <2>1, <2>2, <2>3 DEF Selected
  <2> QED
    BY <2>4 DEF Accepted, Selected
<1> QED
  BY <1>1, <1>2

LEMMA MeasureStep == BuildInv /\ Measure => BuildInv'
<1> SUFFICES ASSUME BuildInv, Measure PROVE BuildInv'
  OBVIOUS
<1>1. /\ stage = "built" /\ measured = 0 /\ stage' \in {"built", "rejected"}
      /\ UNCHANGED <<form, outbounds, rules, requested, interface, selected, bound>>
  BY DEF Measure, To, source, document
<1>2. LoadInv' /\ Selected'
  <2>1. Selected
    BY <1>1 DEF BuildInv
  <2> QED
    BY <1>1, <2>1, LoadInvKept DEF Measure, BuildInv, Loaded, Selected
<1>3. CASE ~Accepted
  BY <1>1, <1>2, <1>3 DEF Measure, BuildInv, Before
<1>4. CASE Accepted
  <2>1. PICK o \in 1..Len(outbounds) : Carries(o) /\ measured' = o
    BY <1>4 DEF Measure
  <2>2. measured' \in 0..MaxOutbounds
    BY <2>1, BuildAssumption DEF BuildInv
  <2>3. (\A i \in 1..Len(rules) - 1 : ~rules[i].matches) => o = selected
    BY <1>1, <1>4, <2>1, RuleDecides DEF BuildInv
  <2>4. MeasuredIsSelected'
    BY <1>1, <1>2, <2>1, <2>3 DEF MeasuredIsSelected, Selected
  <2> QED
    BY <1>1, <1>2, <2>2, <2>4 DEF BuildInv, Before
<1> QED
  BY <1>3, <1>4

LEMMA BuildStep == BuildInv /\ [Next]_buildVars => BuildInv'
<1> SUFFICES ASSUME BuildInv, [Next]_buildVars PROVE BuildInv'
  OBVIOUS
<1>1. CASE BuildFails
  <2>1. /\ stage = "loaded" /\ stage' = "rejected" /\ UNCHANGED form
        /\ UNCHANGED <<outbounds, rules, requested, interface, selected, bound, measured>>
    BY <1>1 DEF BuildFails, To, document, source
  <2>2. LoadInv'
    BY <1>1, <2>1, LoadInvKept DEF BuildFails, BuildInv, Loaded
  <2> QED
    BY <2>1, <2>2 DEF BuildInv, Before
<1>2. CASE UNCHANGED buildVars
  BY <1>2 DEF buildVars, loadVars, source, document, BuildInv, LoadInv, LoadTypeOK, Loaded,
              OverLimit, CountLinks, IsLink, Selected, MeasuredIsSelected
<1> QED
  BY <1>1, <1>2, LoadStep, BuildJSONStep, BuildLinkStep, MeasureStep DEF Next, Ended

LEMMA BuildInvariant == Spec => []BuildInv
BY BuildInit, BuildStep, PTL DEF Spec

\* A config keeps its types from the source to the measurement: no index is
\* beyond the lines, and the configs are never more than the limit.
THEOREM TypeCorrect == Spec => []TypeOK
<1>1. BuildInv => TypeOK
  BY UpTo, BuildAssumption DEF BuildInv, LoadInv, TypeOK
<1> QED
  BY <1>1, BuildInvariant, PTL

\* FirstOccurrences: for any text the configs are the first occurrences of its
\* links, in order, and each has the slot of results of its own.
THEOREM Loads == Spec => []FirstOccurrences
<1>1. BuildInv => FirstOccurrences
  BY CollectedIsFirst DEF BuildInv
<1> QED
  BY <1>1, BuildInvariant, PTL

\* MeasuredIsSelected: for any document, the last rule wins if no other matches.
THEOREM Measures == Spec => []MeasuredIsSelected
<1>1. BuildInv => MeasuredIsSelected
  BY DEF BuildInv, MeasuredIsSelected
<1> QED
  BY <1>1, BuildInvariant, PTL

-----------------------------------------------------------------------------
(* Share links.                                                            *)

\* What is absent is no security, and not what is left of an address.
LEMMA AbsentApart == Absent \notin {"none", "tls", "reality", "TLS", "cut"}
BY DEF Absent

\* The parts of a link that its security depends on.
LEMMA LinkType ==
    ASSUME NEW l \in ShareLinks
    PROVE  /\ l.security \in {Absent, "none", "tls", "reality", "TLS"}
           /\ l.tls \in {Absent, "0", "1"}
           /\ l.host # Absent
           /\ l.scheme = "ss" => l.security = Absent /\ l.tls = Absent
<1>1. /\ l.security \in {Absent, "none", "tls", "reality", "TLS"}
      /\ l.tls \in {Absent, "0", "1"} /\ l.host \in Hosts
  BY DEF ShareLinks
<1>2. l.scheme = "ss" => l.security = Absent /\ l.tls = Absent
  BY Zenon DEF ShareLinks
<1> QED
  BY <1>1, <1>2, LinkAssumption

\* The old parameter says something.
LEMMA OldParameter == "1" # Absent
BY DEF Absent

\* What is set is the security that the link names, in its spelling.
LEMMA SecuredAs ==
    ASSUME NEW l \in ShareLinks
    PROVE  /\ SaysTLS(l) => Secured(l) \in {"tls", "TLS"}
           /\ SaysTLS(l) /\ l.security # "TLS" => Secured(l) = "tls"
           /\ SaysReality(l) => Secured(l) = "reality"
           /\ SaysPlain(l) => Secured(l) = Absent
           /\ Secured(l) \in {Absent, "tls", "reality", "TLS"}
BY LinkType, AbsentApart, OldParameter
   DEF Secured, Security, SaysTLS, SaysReality, SaysPlain

\* What an outbound of a link has, part by part.
LEMMA OutboundParts ==
    ASSUME NEW l
    PROVE  /\ Outbound(l).address = l.host
           /\ Outbound(l).port = Port(l)
           /\ Outbound(l).security = Secured(l)
           /\ Outbound(l).serverName = IF Secured(l) \in {"tls", "reality"}
                                       THEN ServerName(l) ELSE Absent
BY DEF Outbound

LEMMA OutboundFlags ==
    ASSUME NEW l
    PROVE  /\ Outbound(l).pinned = (Secured(l) = "tls" /\ l.pin # Absent)
           /\ Outbound(l).insecure = (Secured(l) = "tls" /\ l.insecure)
BY Zenon DEF Outbound

\* Only a link that asks for it makes an outbound insecure.
LEMMA InsecureAsked ==
    ASSUME NEW l, ~l.insecure
    PROVE  ~Outbound(l).insecure
BY OutboundFlags, Zenon

LEMMA ConnectionParts ==
    ASSUME NEW o
    PROVE  /\ Connection(o).address = o.address
           /\ Connection(o).port = o.port
           /\ Connection(o).security = Lower(o.security)
           /\ Connection(o).pinned = o.pinned
           /\ Lower(o.security) # Absent /\ ~o.insecure
                  => Connection(o).verifies = Or(o.serverName, o.address)
BY DEF Connection

LEMMA LinkServer ==
    ASSUME NEW l \in ShareLinks
    PROVE  ServerKept(l, Connection(Outbound(l)))
<1>1. /\ Connection(Outbound(l)).address = l.host
      /\ Connection(Outbound(l)).port = Port(l)
  BY OutboundParts, ConnectionParts
<1>2. (l.port # NoPort => Port(l) = l.port) /\ (l.port = NoPort => Port(l) = 443)
  BY DEF Port
<1> QED
  BY <1>1, <1>2 DEF ServerKept

\* Whoever is verified is verified by some name.
LEMMA Verified ==
    ASSUME NEW l \in ShareLinks, ~l.insecure, Lower(Secured(l)) # Absent
    PROVE  /\ Connection(Outbound(l)).verifies # Absent
           /\ Secured(l) # "TLS" /\ l.sni # Absent
                  => Connection(Outbound(l)).verifies = l.sni
<1>1. Connection(Outbound(l)).verifies = Or(Outbound(l).serverName, l.host)
  <2>1. Outbound(l).security = Secured(l) /\ Outbound(l).address = l.host
    BY OutboundParts
  <2>2. ~Outbound(l).insecure
    BY InsecureAsked
  <2> QED
    BY <2>1, <2>2, ConnectionParts
<1>2. l.host # Absent /\ Or(Outbound(l).serverName, l.host) # Absent
  BY LinkType DEF Or
<1>3. ASSUME Secured(l) # "TLS", l.sni # Absent
      PROVE  Outbound(l).serverName = l.sni
  <2>1. Secured(l) \in {"tls", "reality"}
    BY <1>3, SecuredAs, AbsentApart DEF Lower
  <2>2. ServerName(l) = l.sni
    BY <1>3 DEF ServerName, Or
  <2> QED
    BY <2>1, <2>2, OutboundParts
<1> QED
  BY <1>1, <1>2, <1>3 DEF Or

LEMMA LinkSecurity ==
    ASSUME NEW l \in ShareLinks
    PROVE  /\ SecurityKept(l, Connection(Outbound(l)))
           /\ ReportedRight(l, Connection(Outbound(l)))
<1>1. Connection(Outbound(l)).security = Lower(Secured(l))
  BY OutboundParts, ConnectionParts
<1>2. /\ SaysTLS(l) => Lower(Secured(l)) = "tls"
      /\ SaysReality(l) => Lower(Secured(l)) = "reality"
      /\ SaysPlain(l) => Lower(Secured(l)) = Absent
  BY SecuredAs, AbsentApart DEF Lower
<1>3. Lower(Metadata(l).security) = Lower(Secured(l))
  <2>1. Metadata(l).security = IF l.scheme = "ss" THEN Absent ELSE Outbound(l).security
    BY DEF Metadata
  <2>2. l.scheme = "ss" => Secured(l) = Absent
    BY DEF Secured
  <2> QED
    BY <2>1, <2>2, OutboundParts
<1>4. Lower(Secured(l)) # Absent /\ ~l.insecure
        => Connection(Outbound(l)).verifies # Absent
  BY Verified
<1> QED
  BY <1>1, <1>2, <1>3, <1>4 DEF SecurityKept, ReportedRight

LEMMA LinkIdentity ==
    ASSUME NEW l \in ShareLinks
    PROVE  IdentityKept(l, Connection(Outbound(l)))
<1> SUFFICES ASSUME l.security # "TLS"
             PROVE  /\ (SaysTLS(l) \/ SaysReality(l)) /\ l.sni # Absent /\ ~l.insecure
                          => Connection(Outbound(l)).verifies = l.sni
                    /\ SaysTLS(l) /\ l.pin # Absent => Connection(Outbound(l)).pinned
  BY DEF IdentityKept
<1>1. ASSUME SaysTLS(l) \/ SaysReality(l), l.sni # Absent, ~l.insecure
      PROVE  Connection(Outbound(l)).verifies = l.sni
  <2>1. Secured(l) \in {"tls", "reality"} /\ Lower(Secured(l)) # Absent
    BY <1>1, SecuredAs, AbsentApart DEF Lower
  <2> QED
    BY <1>1, <2>1, Verified
<1>2. ASSUME SaysTLS(l), l.pin # Absent
      PROVE  Connection(Outbound(l)).pinned
  <2>1. Secured(l) = "tls"
    BY <1>2, SecuredAs
  <2>2. Connection(Outbound(l)).pinned = (Secured(l) = "tls" /\ l.pin # Absent)
    BY OutboundFlags, ConnectionParts, Zenon
  <2> QED
    BY <1>2, <2>1, <2>2, Zenon
<1> QED
  BY <1>1, <1>2, Zenon

LEMMA EveryLink == \A l \in ShareLinks : LinkKept(l)
BY LinkServer, LinkSecurity, LinkIdentity, Zenon DEF LinkKept

\* LinkIsTested: whatever addresses, ports and names links may have, a link that
\* is tested is tested at its server, with the security it names, and verified
\* unless it asks not to be.
THEOREM LinksTested == Spec => []LinkIsTested
<1>1. LinkIsTested
  BY EveryLink DEF LinkIsTested, EveryLinkKept
<1> QED
  BY <1>1, PTL
=============================================================================
