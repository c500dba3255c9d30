------------------------- MODULE DesktopSetupProofs -------------------------
(***************************************************************************)
(* Proofs about DesktopSetup, for any number of setups, kills and saves,   *)
(* any servers and settings: what others write is lost only between a      *)
(* setup's read and its write; and without others a setup merges in one    *)
(* step or leaves a file that cannot be read.                              *)
(***************************************************************************)
EXTENDS DesktopSetup, TLAPS

LEMMA ConstantTypes ==
    None \notin Setups /\ MaxSaves \in Nat /\ MaxCrashes \in Nat
BY SetupAssumption

\* Every step, for case analysis.
LEMMA StepCases ==
    ASSUME [Next]_vars
    PROVE  (\E s \in Setups : Setup(s) \/ Crash(s)) \/ Save \/ UNCHANGED vars
BY DEF Next, Ended

-----------------------------------------------------------------------------
(* Contents of the file.                                                   *)

LEMMA BlankType ==
    ASSUME NEW form \in Config!Forms
    PROVE  Config!Blank(form) \in Config!Contents
BY DEF Config!Blank, Config!Contents, Config!Forms, Config!Lists

LEMMA ReadType ==
    ASSUME NEW c \in Config!Contents
    PROVE  Config!Read(c) \in Config!Contents
BY BlankType DEF Config!Read, Config!Forms

\* What is merged into is an object, and stays what it was but for the entry.
LEMMA MergedType ==
    ASSUME NEW c \in Config!Contents, NEW s \in Setups, Config!Mergeable(c)
    PROVE  /\ Config!Merged(c, s) \in Config!Contents
           /\ Config!Parses(Config!Merged(c, s))
           /\ Config!Merged(c, s).form = "object"
           /\ Config!Merged(c, s).own = s
           /\ Rest(Config!Merged(c, s)) = Rest(c)
BY DEF Config!Merged, Config!Contents, Config!Forms, Config!Lists, Config!Mergeable,
       Config!Parses, Rest

-----------------------------------------------------------------------------
(* The type invariant.                                                     *)

\* A setup merges into what could be parsed.
Parsed == \A s \in Setups : stage[s] = "merge" => Config!Parses(root[s])

SetupInv == TypeOK /\ Parsed

LEMMA RestType ==
    ASSUME NEW c \in Config!Contents
    PROVE  Rest(c) \in Rests
BY DEF Rest, Rests, Config!Contents

LEMMA Blanks ==
    /\ Empty \in Config!Contents /\ Torn \in Config!Contents
    /\ Config!Blank("object") \in Config!Contents
    /\ Config!Parses(Config!Blank("object"))
BY BlankType DEF Empty, Torn, Config!Forms, Config!Blank, Config!Parses

LEMMA EnteredType ==
    ASSUME NEW d \in Config!Contents, NEW s \in Setups, Config!Parses(d),
           ~NilMap(d), d.list # "other"
    PROVE  /\ Config!Mergeable(d)
           /\ Entered(d, s) = Config!Merged(d, s)
           /\ Entered(d, s) \in Config!Contents
<1>1. Config!Mergeable(d)
  BY DEF NilMap, Config!Mergeable, Config!Parses, Config!Contents, Config!Lists
<1>2. Entered(d, s) = Config!Merged(d, s)
  BY <1>1 DEF Entered, Config!Merged, Config!Mergeable
<1> QED
  BY <1>1, <1>2, MergedType

LEMMA InitInv == Init => SetupInv
<1> SUFFICES ASSUME Init PROVE SetupInv
  OBVIOUS
<1>1. Config!Blank("object") \in Config!Contents
  BY Blanks
<1>2. Rest(file) \in Rests
  BY RestType DEF Init
<1>3. kept \in Rests /\ base \in [Setups -> Rests]
  BY <1>2 DEF Init
<1> QED
  BY <1>1, <1>3, ConstantTypes DEF Init, SetupInv, TypeOK, Parsed, Steps

LEMMA InvStep == SetupInv /\ [Next]_vars => SetupInv'
<1> SUFFICES ASSUME SetupInv, [Next]_vars PROVE SetupInv'
  OBVIOUS
<1> USE ConstantTypes, Blanks DEF SetupInv, TypeOK, Parsed, Steps, Goto, End, Ends
<1>1. ASSUME NEW s \in Setups, Start(s) PROVE SetupInv'
  BY <1>1 DEF Start, others, entries, bounds
<1>2. ASSUME NEW s \in Setups, ReadConfig(s) PROVE SetupInv'
  <2>1. UNCHANGED <<file, kept, late, writes, order, last, alone, saves, crashes>>
    BY <1>2 DEF ReadConfig, others, entries, bounds
  <2>2. base' \in [Setups -> Rests]
    BY <1>2, RestType DEF ReadConfig
  <2>3. root' \in [Setups -> Config!Contents]
    BY <1>2 DEF ReadConfig
  <2>4. stage' \in [Setups -> Steps] /\ result' \in [Setups -> {"none", "updated", "refused",
            "failed", "panicked", "killed"}]
    BY <1>2 DEF ReadConfig
  <2>5. Parsed'
    BY <1>2 DEF ReadConfig
  <2> QED
    BY <2>1, <2>2, <2>3, <2>4, <2>5
<1>3. ASSUME NEW s \in Setups, Merge(s) PROVE SetupInv'
  <2>1. CASE /\ root' = [root EXCEPT ![s] = Entered(@, s)]
             /\ Goto(s, "open") /\ UNCHANGED <<file, base>>
             /\ ~NilMap(root[s]) /\ root[s].list # "other"
    <3>1. Entered(root[s], s) \in Config!Contents
      BY <1>3, <2>1, EnteredType DEF Merge
    <3> QED
      BY <1>3, <2>1, <3>1 DEF Merge, others, entries, bounds
  <2>2. CASE Ends(s, "failed") \/ Ends(s, "panicked") \/ Ends(s, "refused")
    BY <1>3, <2>2 DEF Merge, others, entries, bounds
  <2> QED
    BY <1>3, <2>1, <2>2 DEF Merge
<1>4. ASSUME NEW s \in Setups, Open(s) PROVE SetupInv'
  BY <1>4 DEF Open, others, entries, bounds
<1>5. ASSUME NEW s \in Setups, stage[s] = "write", InFull(s) \/ InPart,
             \/ Goto(s, "report") \/ End(s, "failed") \/ End(s, "killed"),
             UNCHANGED <<root, base, others, last, alone, saves>>, crashes' \in 0..MaxCrashes
      PROVE  SetupInv'
  <2>1. file' \in Config!Contents
    BY <1>5 DEF InFull, InPart
  <2>2. writes' \in Nat /\ order' \in [Setups -> Nat]
    BY <1>5 DEF InFull, InPart
  <2>3. stage' \in [Setups -> Steps] /\ result' \in [Setups -> {"none", "updated", "refused",
            "failed", "panicked", "killed"}]
    BY <1>5
  <2>4. Parsed'
    BY <1>5
  <2> QED
    BY <1>5, <2>1, <2>2, <2>3, <2>4 DEF others
<1>6. ASSUME NEW s \in Setups, Write(s) PROVE SetupInv'
  BY <1>5, <1>6 DEF Write, bounds
<1>7. ASSUME NEW s \in Setups, Report(s) PROVE SetupInv'
  BY <1>7 DEF Report, others, bounds
<1>8. ASSUME NEW s \in Setups, Crash(s) PROVE SetupInv'
  <2>1. crashes' \in 0..MaxCrashes
    BY <1>8 DEF Crash
  <2>2. CASE stage[s] = "write"
    BY <1>5, <1>8, <2>1, <2>2 DEF Crash
  <2>3. CASE stage[s] # "write"
    BY <1>8, <2>1, <2>3 DEF Crash, others
  <2> QED
    BY <2>2, <2>3
<1>9. CASE Save
  <2>1. kept' \in Rests /\ file' \in Config!Contents
    BY <1>9, RestType DEF Save
  <2>2. late' \in SUBSET Setups /\ saves' \in 0..MaxSaves
    BY <1>9 DEF Save
  <2> QED
    BY <1>9, <2>1, <2>2 DEF Save, memory, entries
<1>10. CASE UNCHANGED vars
  BY <1>10 DEF vars, memory, others, entries, bounds
<1> QED
  BY <1>1, <1>2, <1>3, <1>4, <1>6, <1>7, <1>8, <1>9, <1>10, StepCases DEF Setup

LEMMA TypeInvariant == Spec => []SetupInv
BY InitInv, InvStep, PTL DEF Spec

\* The file and the setups are what the module says, whoever writes the file
\* when.
THEOREM TypeCorrect == Spec => []TypeOK
<1>1. SetupInv => TypeOK
  BY DEF SetupInv
<1> QED
  BY <1>1, TypeInvariant, PTL

-----------------------------------------------------------------------------
(* What is lost.                                                           *)

Lost == file.form \in {"empty", "torn"}

LEMMA ReadRest ==
    ASSUME NEW c \in Config!Contents
    PROVE  Rest(Config!Read(c)) = Rest(c)
BY DEF Config!Contents, Config!Forms, Config!Lists, Config!Blank, Config!Read, Rest

LEMMA LostForms ==
    /\ Empty.form = "empty" /\ Torn.form = "torn"
    /\ ~Config!Parses(Empty) /\ ~Config!Parses(Torn)
    /\ \A c \in Config!Contents : Config!Parses(c) => c.form \notin {"empty", "torn"}
    /\ \A c \in Config!Contents : Config!Parses(Config!Read(c)) <=> c.form \notin {"empty", "torn"}
BY DEF Empty, Torn, Config!Blank, Config!Parses, Config!Read, Config!Contents, Config!Forms

\* What is read of others' is in memory until it is written.
LEMMA ReadKept ==
    ASSUME NEW c \in Config!Contents, Missing(c)
    PROVE  Rest(Config!Blank("object")) = Rest(c)
BY DEF Missing, Config!Contents, Config!Lists, Config!Blank, Rest

\* What others put there last, or what a setup read before that.
Traced(x) == x = kept \/ \E s \in late : x = base[s]

\* What a setup has in memory is what it read and, from the merge on, its entry;
\* and who was not disturbed has read what others put there last.
RestInv ==
    /\ ~Lost => Traced(Rest(file))
    /\ \A s \in Setups :
        /\ Holding(s) => Traced(base[s]) /\ Rest(root[s]) = base[s]
        /\ stage[s] \in {"open", "write"} => Config!Parses(root[s]) /\ root[s].own = s
        /\ stage[s] \in {"idle", "read"} => s \notin late

\* The entry is that of the last write that came to its end.
EntryInv ==
    /\ \A s \in Setups : order[s] <= writes
    /\ \A s \in Setups : stage[s] = "report" => order[s] > 0
    /\ last # None => order[last] > 0
    /\ ~Lost /\ writes > 0 => file.own # None /\ order[file.own] = writes

LEMMA RestStep == SetupInv /\ RestInv /\ [Next]_vars => RestInv'
<1> SUFFICES ASSUME SetupInv, RestInv, [Next]_vars PROVE RestInv'
  OBVIOUS
<1> USE ConstantTypes, LostForms
    DEF SetupInv, TypeOK, Steps, RestInv, Traced, Lost, Holding, Goto, End, Ends
<1>1. ASSUME NEW s \in Setups, Start(s) \/ Report(s) PROVE RestInv'
  BY <1>1 DEF Start, Report, others
<1>2. ASSUME NEW s \in Setups, ReadConfig(s) PROVE RestInv'
  <2>1. UNCHANGED <<file, kept, late>> /\ stage[s] = "read" /\ s \notin late
    BY <1>2 DEF ReadConfig, others
  <2>2. /\ \A t \in Setups : t # s => /\ base'[t] = base[t] /\ root'[t] = root[t]
                                      /\ stage'[t] = stage[t]
        /\ stage'[s] \in {"merge", "end"}
    BY <1>2 DEF ReadConfig
  <2>3. stage'[s] = "merge" =>
          base'[s] = Rest(file) /\ Rest(root'[s]) = Rest(file) /\ ~Lost
    BY <1>2, ReadKept DEF ReadConfig, Missing
  <2>4. ASSUME NEW x, Traced(x)
        PROVE  x = kept' \/ \E t \in late' : x = base'[t]
    BY <2>1, <2>2, <2>4
  <2>5. ASSUME ~Lost PROVE Rest(file) = kept' \/ \E t \in late' : Rest(file) = base'[t]
    <3>1. Traced(Rest(file))
      BY <2>5
    <3> HIDE DEF Traced
    <3> QED
      BY <2>4, <3>1
  <2>6. ASSUME NEW t \in Setups
        PROVE  /\ stage'[t] \in {"merge", "open", "write"} =>
                    /\ base'[t] = kept' \/ \E q \in late' : base'[t] = base'[q]
                    /\ Rest(root'[t]) = base'[t]
               /\ stage'[t] \in {"open", "write"} => Config!Parses(root'[t]) /\ root'[t].own = t
               /\ stage'[t] \in {"idle", "read"} => t \notin late'
    <3>1. CASE t = s
      BY <2>1, <2>2, <2>3, <2>5, <3>1
    <3>2. CASE t # s
      BY <2>1, <2>2, <2>4, <3>2
    <3> QED
      BY <3>1, <3>2
  <2> QED
    BY <2>1, <2>5, <2>6
<1>3. ASSUME NEW s \in Setups, Merge(s) PROVE RestInv'
  <2>1. CASE /\ root' = [root EXCEPT ![s] = Entered(@, s)]
             /\ Goto(s, "open") /\ UNCHANGED <<file, base>>
             /\ ~NilMap(root[s]) /\ root[s].list # "other"
    <3>1. /\ Config!Mergeable(root[s])
          /\ Entered(root[s], s) = Config!Merged(root[s], s)
      BY <1>3, <2>1, EnteredType DEF Merge, Parsed
    <3>2. /\ Config!Parses(Entered(root[s], s)) /\ Entered(root[s], s).own = s
          /\ Rest(Entered(root[s], s)) = Rest(root[s])
      BY <3>1, MergedType
    <3>3. UNCHANGED <<file, base, kept, late>> /\ stage[s] = "merge"
      BY <1>3, <2>1 DEF Merge, others
    <3>4. /\ root'[s] = Entered(root[s], s) /\ stage'[s] = "open"
          /\ \A t \in Setups : t # s => root'[t] = root[t] /\ stage'[t] = stage[t]
      BY <2>1
    <3> QED
      BY <3>2, <3>3, <3>4
  <2>2. CASE Ends(s, "failed") \/ Ends(s, "panicked") \/ Ends(s, "refused")
    BY <1>3, <2>2 DEF Merge, others
  <2> QED
    BY <1>3, <2>1, <2>2 DEF Merge
<1>4. ASSUME NEW s \in Setups, Open(s) PROVE RestInv'
  BY <1>4 DEF Open, others
<1>5. ASSUME NEW s \in Setups, stage[s] = "write", InFull(s) \/ InPart,
             \/ Goto(s, "report") \/ End(s, "failed") \/ End(s, "killed"),
             UNCHANGED <<root, base, others>>
      PROVE  RestInv'
  <2>1. file' \in {file, Torn, root[s]}
    BY <1>5 DEF InFull, InPart
  <2>2. Traced(Rest(root[s])) /\ UNCHANGED <<kept, late, base, root>>
    BY <1>5 DEF others
  <2>3. ~Lost' => Traced(Rest(file'))
    BY <2>1, <2>2
  <2>4. \A t \in Setups : stage'[t] = stage[t] \/ stage'[t] \in {"report", "end"}
    BY <1>5
  <2> QED
    BY <2>2, <2>3, <2>4
<1>6. ASSUME NEW s \in Setups, Write(s) PROVE RestInv'
  BY <1>5, <1>6 DEF Write
<1>7. ASSUME NEW s \in Setups, Crash(s) PROVE RestInv'
  <2>1. CASE stage[s] = "write"
    BY <1>5, <1>7, <2>1 DEF Crash
  <2>2. CASE stage[s] # "write"
    BY <1>7, <2>2 DEF Crash, others
  <2> QED
    BY <2>1, <2>2
<1>8. CASE Save
  <2>1. UNCHANGED <<stage, root, base>> /\ kept' = Rest(file')
        /\ late' = late \cup {s \in Setups : Holding(s)}
    BY <1>8 DEF Save, memory
  <2> QED
    BY <2>1
<1>9. CASE UNCHANGED vars
  BY <1>9 DEF vars, memory, others
<1> QED
  BY <1>1, <1>2, <1>3, <1>4, <1>6, <1>7, <1>8, <1>9, StepCases DEF Setup

LEMMA EntryStep == SetupInv /\ RestInv /\ EntryInv /\ [Next]_vars => EntryInv'
<1> SUFFICES ASSUME SetupInv, RestInv, EntryInv, [Next]_vars PROVE EntryInv'
  OBVIOUS
<1> USE ConstantTypes, LostForms
    DEF SetupInv, TypeOK, Steps, EntryInv, Lost, Goto, End, Ends
<1>1. ASSUME NEW s \in Setups, Start(s) \/ ReadConfig(s) \/ Merge(s) PROVE EntryInv'
  <2>1. UNCHANGED <<file, writes, order, last>>
    BY <1>1 DEF Start, ReadConfig, Merge, entries
  <2>2. \A t \in Setups : stage'[t] = "report" => stage[t] = "report"
    BY <1>1 DEF Start, ReadConfig, Merge
  <2> QED
    BY <2>1, <2>2
<1>2. ASSUME NEW s \in Setups, Open(s) PROVE EntryInv'
  BY <1>2 DEF Open, entries
<1>3. ASSUME NEW s \in Setups, stage[s] = "write", InFull(s) \/ InPart,
             \/ Goto(s, "report") /\ InFull(s)
             \/ End(s, "failed") \/ End(s, "killed"),
             UNCHANGED last
      PROVE  EntryInv'
  <2>1. CASE InFull(s)
    <3>1. /\ writes' = writes + 1 /\ order'[s] = writes + 1
          /\ \A t \in Setups : t # s => order'[t] = order[t]
      BY <2>1 DEF InFull
    <3>2. ~Lost' => file'.own = s
      BY <1>3, <2>1 DEF InFull, RestInv
    <3>3. \A t \in Setups : t # s => stage'[t] = stage[t]
      BY <1>3
    <3> QED
      BY <1>3, <3>1, <3>2, <3>3
  <2>2. CASE InPart
    BY <1>3, <2>2 DEF InPart, InFull
  <2> QED
    BY <1>3, <2>1, <2>2
<1>4. ASSUME NEW s \in Setups, Write(s) PROVE EntryInv'
  BY <1>3, <1>4 DEF Write
<1>5. ASSUME NEW s \in Setups, Report(s) PROVE EntryInv'
  BY <1>5 DEF Report
<1>6. ASSUME NEW s \in Setups, Crash(s) PROVE EntryInv'
  <2>1. CASE stage[s] = "write"
    BY <1>3, <1>6, <2>1 DEF Crash
  <2>2. CASE stage[s] # "write"
    BY <1>6, <2>2 DEF Crash
  <2> QED
    BY <2>1, <2>2
<1>7. CASE Save
  <2>1. UNCHANGED <<stage, writes, order, last>> /\ file'.own = file.own
    BY <1>7 DEF Save, memory, entries
  <2>2. ~Lost
    BY <1>7 DEF Save
  <2> QED
    BY <2>1, <2>2
<1>8. CASE UNCHANGED vars
  BY <1>8 DEF vars, memory, entries
<1> QED
  BY <1>1, <1>2, <1>4, <1>5, <1>6, <1>7, <1>8, StepCases DEF Setup

LEMMA LossInvariant == Spec => [](SetupInv /\ RestInv /\ EntryInv)
<1>1. Init => RestInv /\ EntryInv
  BY ConstantTypes DEF Init, RestInv, Traced, Holding, EntryInv
<1> QED
  BY <1>1, RestStep, EntryStep, InitInv, InvStep, PTL DEF Spec

\* NoSilentLoss: whoever saves when and wherever setups are killed, a file that can
\* be read has what others put there last, or what a setup had read before that,
\* and the entry of the last setup that said "updated", or of one that has written
\* after it.
THEOREM NothingLost == Spec => []NoSilentLoss
<1>1. SetupInv /\ RestInv /\ EntryInv => NoSilentLoss
  <2> SUFFICES ASSUME SetupInv, RestInv, EntryInv, Config!Parses(file)
               PROVE  /\ Rest(file) = kept \/ \E s \in late : Rest(file) = base[s]
                      /\ last # None => file.own # None /\ order[file.own] >= order[last]
    BY DEF NoSilentLoss
  <2>1. ~Lost
    BY LostForms DEF Lost, SetupInv, TypeOK
  <2>2. Rest(file) = kept \/ \E s \in late : Rest(file) = base[s]
    BY <2>1 DEF RestInv, Traced
  <2>3. ASSUME last # None PROVE file.own # None /\ order[file.own] >= order[last]
    <3>1. last \in Setups /\ order[last] \in Nat /\ writes \in Nat
      BY <2>3 DEF SetupInv, TypeOK
    <3>2. order[last] > 0 /\ order[last] <= writes
      BY <2>3, <3>1 DEF EntryInv
    <3>3. file.own # None /\ order[file.own] = writes
      BY <2>1, <3>1, <3>2 DEF EntryInv
    <3> QED
      BY <3>1, <3>2, <3>3
  <2> QED
    BY <2>2, <2>3
<1> QED
  BY <1>1, LossInvariant, PTL

-----------------------------------------------------------------------------
(* Alone.                                                                  *)

\* What the setup that runs knows of the file.
TurnInv ==
    /\ \A s, t \in Setups : Running(s) /\ Running(t) => s = t
    /\ \A s \in Setups :
        /\ stage[s] = "merge" => ~Lost /\ root[s] = Config!Read(file)
        /\ stage[s] = "open" =>
              /\ ~Lost /\ Config!Mergeable(Config!Read(file))
              /\ root[s] = Config!Merged(Config!Read(file), s)
        /\ stage[s] = "write" => file = Empty

LEMMA TurnStep == alone /\ SetupInv /\ TurnInv /\ [Next]_vars => TurnInv'
<1> SUFFICES ASSUME alone, SetupInv, TurnInv, [Next]_vars PROVE TurnInv'
  OBVIOUS
<1> USE ConstantTypes, LostForms
    DEF SetupInv, TypeOK, Steps, TurnInv, Lost, Running, Goto, End, Ends
<1>1. ASSUME NEW s \in Setups, Start(s) PROVE TurnInv'
  BY <1>1 DEF Start
<1>2. ASSUME NEW s \in Setups, ReadConfig(s) PROVE TurnInv'
  <2>1. Missing(file) => Config!Read(file) = Config!Blank("object")
    BY DEF Missing, Config!Read
  <2>2. Config!Parses(file) => Config!Read(file) = file
    BY DEF Config!Parses, Config!Read
  <2> QED
    BY <1>2, <2>1, <2>2 DEF ReadConfig, Missing
<1>3. ASSUME NEW s \in Setups, Merge(s) PROVE TurnInv'
  <2>1. CASE /\ root' = [root EXCEPT ![s] = Entered(@, s)]
             /\ Goto(s, "open") /\ UNCHANGED <<file, base>>
             /\ ~NilMap(root[s]) /\ root[s].list # "other"
    <3>1. /\ Config!Mergeable(root[s]) /\ root[s] = Config!Read(file)
          /\ Entered(root[s], s) = Config!Merged(Config!Read(file), s)
      BY <1>3, <2>1, EnteredType DEF Merge, Parsed
    <3> QED
      BY <1>3, <2>1, <3>1 DEF Merge
  <2>2. CASE Ends(s, "failed") \/ Ends(s, "panicked") \/ Ends(s, "refused")
    BY <1>3, <2>2 DEF Merge
  <2> QED
    BY <1>3, <2>1, <2>2 DEF Merge
<1>4. ASSUME NEW s \in Setups, Open(s) PROVE TurnInv'
  BY <1>4 DEF Open
<1>5. ASSUME NEW s \in Setups, Write(s) \/ Report(s) PROVE TurnInv'
  BY <1>5 DEF Write, Report
<1>6. ASSUME NEW s \in Setups, Crash(s) PROVE TurnInv'
  BY <1>6 DEF Crash
<1>7. CASE Save
  BY <1>7 DEF Save, memory
<1>8. CASE UNCHANGED vars
  BY <1>8 DEF vars, memory
<1> QED
  BY <1>1, <1>2, <1>3, <1>4, <1>5, <1>6, <1>7, <1>8, StepCases DEF Setup

LEMMA TurnInit == Init => TurnInv
BY ConstantTypes DEF Init, TurnInv, Running

-----------------------------------------------------------------------------
(* The contract.                                                           *)

LEMMA PromisedWrite ==
    ASSUME alone, TurnInv, NEW s \in Setups, stage[s] = "write"
    PROVE  Promised = root[s]
<1>1. \A t \in Setups : stage[t] = "write" => t = s
  BY DEF TurnInv, Running
<1> QED
  BY <1>1 DEF Promised

LEMMA PromisedFile ==
    ASSUME alone, \A s \in Setups : stage[s] # "write"
    PROVE  Promised = file
BY DEF Promised

LEMMA AloneKept == [Next]_vars => alone' = alone
BY StepCases DEF Setup, Start, ReadConfig, Merge, Open, Write, Report, Crash, Save, bounds, vars

LEMMA ContractStep ==
    alone /\ SetupInv /\ TurnInv /\ TurnInv' /\ [Next]_vars => [Config!Next]_Promised
<1> SUFFICES ASSUME alone, SetupInv, TurnInv, TurnInv', [Next]_vars
             PROVE  Config!Next \/ Promised' = Promised
  BY DEF Config!Next
<1> USE ConstantTypes DEF SetupInv, TypeOK, Steps, Goto, End, Ends
<1>0. alone'
  BY AloneKept
\* A step that leaves the file alone and is not about a write.
<1>1. ASSUME file' = file, root' = root \/ \A s \in Setups : stage[s] # "write",
             \A s \in Setups : stage'[s] = "write" <=> stage[s] = "write"
      PROVE  Promised' = Promised
  BY <1>0, <1>1 DEF Promised
<1>2. ASSUME NEW s \in Setups, Start(s) \/ ReadConfig(s) \/ Merge(s) \/ Report(s)
      PROVE  Promised' = Promised
  <2>1. \A t \in Setups : stage[t] # "write"
    BY <1>2 DEF Start, ReadConfig, Merge, Report, TurnInv, Running
  <2>2. \A t \in Setups : stage'[t] # "write"
    BY <1>2, <2>1 DEF Start, ReadConfig, Merge, Report
  <2>3. file' = file
    BY <1>2 DEF Start, ReadConfig, Merge, Report
  <2> QED
    BY <1>0, <2>1, <2>2, <2>3 DEF Promised
<1>3. ASSUME NEW s \in Setups, Open(s) PROVE Config!Next \/ Promised' = Promised
  <2>1. \A t \in Setups : stage[t] # "write"
    BY <1>3 DEF Open, TurnInv, Running
  <2>2. Promised = file
    BY <2>1, PromisedFile
  <2>3. CASE Goto(s, "write") /\ UNCHANGED <<root, base>>
    <3>1. Promised' = root[s]
      BY <1>0, <1>3, <2>1, <2>3 DEF Open, Promised
    <3>2. Config!Mergeable(Config!Read(file)) /\ root[s] = Config!Merged(Config!Read(file), s)
      BY <1>3 DEF Open, TurnInv
    <3> QED
      BY <2>2, <3>1, <3>2 DEF Config!Next, Config!Merge
  <2>4. CASE Ends(s, "failed")
    <3>1. \A t \in Setups : stage'[t] # "write"
      BY <1>3, <2>1, <2>4
    <3> QED
      BY <1>0, <2>1, <2>4, <3>1 DEF Promised
  <2> QED
    BY <1>3, <2>3, <2>4 DEF Open
\* After a write, finished or not, nobody writes.
<1>4. ASSUME NEW s \in Setups, stage[s] = "write", Write(s) \/ Crash(s)
      PROVE  /\ Promised = root[s] /\ Promised' = file'
             /\ file' \in {Empty, Torn, root[s]}
  <2>1. \A t \in Setups : stage[t] = "write" => t = s
    BY <1>4 DEF TurnInv, Running
  <2>2. \A t \in Setups : stage'[t] # "write"
    BY <1>4, <2>1 DEF Write, Crash
  <2>3. file' \in {Empty, Torn, root[s]}
    BY <1>4 DEF Write, Crash, InFull, InPart, TurnInv
  <2> QED
    BY <1>0, <1>4, <2>2, <2>3, PromisedWrite DEF Promised
<1>5. ASSUME NEW s \in Setups, stage[s] = "write", Write(s) \/ Crash(s)
      PROVE  Config!Next \/ Promised' = Promised
  BY <1>4, <1>5 DEF Empty, Torn, Config!Next, Config!Lose
<1>6. ASSUME NEW s \in Setups, stage[s] # "write", Crash(s)
      PROVE  Promised' = Promised
  BY <1>1, <1>6 DEF Crash
<1>7. CASE Save
  <2>1. \A t \in Setups : stage[t] # "write" /\ stage'[t] # "write"
    BY <1>7 DEF Save, memory, Running
  <2>2. Promised = file /\ Promised' = file'
    BY <1>0, <2>1 DEF Promised
  <2> QED
    BY <1>7, <2>2 DEF Save, Config!Next, Config!Edit
<1>8. CASE UNCHANGED vars
  BY <1>8 DEF vars, memory, bounds, Promised
<1>9. \A s \in Setups : Write(s) => stage[s] = "write"
  BY DEF Write
<1> QED
  BY <1>2, <1>3, <1>5, <1>6, <1>7, <1>8, <1>9, StepCases DEF Setup

LEMMA ContractInit == Init => Config!Init
<1>1. Nothing \in Config!Contents
  BY DEF Nothing, Config!Contents, Config!Forms, Config!Lists
<1>2. Init => Promised \in {Nothing, file}
  BY DEF Init, Promised
<1>3. Init => file \in Config!Contents
  BY DEF Init
<1> QED
  BY <1>1, <1>2, <1>3 DEF Config!Init

\* ImplementsMerge: setups that are alone implement the contract: the entry comes in
\* one step with everything else kept, or the file is visibly lost.
THEOREM Implements == Spec => ImplementsMerge
<1> DEFINE Turns == alone => TurnInv
<1>1. Init => Turns
  BY TurnInit
<1>2. SetupInv /\ Turns /\ [Next]_vars => Turns'
  BY TurnStep, AloneKept
<1>3. SetupInv /\ Turns /\ Turns' /\ [Next]_vars => [Config!Next]_Promised
  <2> SUFFICES ASSUME SetupInv, Turns, Turns', [Next]_vars
               PROVE  [Config!Next]_Promised
    OBVIOUS
  <2>1. CASE alone
    BY <2>1, AloneKept, ContractStep
  <2>2. CASE ~alone
    BY <2>2, AloneKept DEF Promised, Nothing
  <2> QED
    BY <2>1, <2>2
<1> HIDE DEF Turns
<1> QED
  BY <1>1, <1>2, <1>3, TypeInvariant, ContractInit, PTL
     DEF Spec, ImplementsMerge, Config!Spec
=============================================================================
