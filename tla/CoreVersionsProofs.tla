------------------------- MODULE CoreVersionsProofs -------------------------
(***************************************************************************)
(* Proofs about CoreVersions: for any number of releases, commands and     *)
(* kills, default-core names an installed core as long as the commands     *)
(* that write it do not run at the same time.                              *)
(***************************************************************************)
EXTENDS CoreVersions, TLAPS

USE DEF None, Latest

LEMMA ConstantTypes ==
    /\ NumReleases \in Nat \ {0}
    /\ Inodes \subseteq Nat \ {0} /\ 0 \notin Commands
    /\ MaxCrashes \in Nat
    /\ 0 \notin Versions /\ Mixed \notin Versions
BY VersionAssumption DEF Versions, Mixed

-----------------------------------------------------------------------------
(* The type invariant.                                                     *)

LEMMA TypeInit == Init => TypeOK
BY ConstantTypes DEF Init, TypeOK, Steps, Requests

LEMMA EndType ==
    ASSUME TypeOK, NEW c \in Commands, NEW o \in {"ok", "failed"}, End(c, o)
    PROVE  /\ pc' \in [Commands -> Steps]
           /\ res' \in [Commands -> {"none", "ok", "failed", "killed"}]
           /\ fd' \in [Commands -> Inodes \cup {None}]
           /\ crashes' \in 0..MaxCrashes
BY DEF TypeOK, End, Steps

LEMMA FailType ==
    ASSUME TypeOK, NEW c \in Commands, Fail(c), UNCHANGED <<published, cache>>,
           seen' \in [Commands -> 0..NumReleases]
    PROVE  TypeOK'
<1>1. End(c, "failed") /\ UNCHANGED <<kind, want, got, history>>
  BY DEF Fail
<1> QED
  BY <1>1, EndType DEF TypeOK, cache, history

LEMMA ReadyType ==
    ASSUME TypeOK, NEW c \in Commands, NEW v \in Versions, Ready(c, v)
    PROVE  /\ pc' \in [Commands -> Steps]
           /\ kind' \in [Commands -> {"test", "bare", "set"}]
           /\ want' \in [Commands -> Requests]
           /\ got' \in [Commands -> Versions \cup {None}]
           /\ res' \in [Commands -> {"none", "ok", "failed", "killed"}]
           /\ fd' \in [Commands -> Inodes \cup {None}]
           /\ UNCHANGED history
           /\ crashes' \in 0..MaxCrashes
<1>1. CASE End(c, "ok") /\ UNCHANGED history
  BY <1>1, EndType DEF Ready, TypeOK
<1>2. CASE Goto(c, "open") /\ UNCHANGED fd
  BY <1>2 DEF Ready, TypeOK, Goto, Steps
<1> QED
  BY <1>1, <1>2 DEF Ready

\* What a search for a release finds, and the text SetCurrent writes.
LEMMA FoundTypes ==
    ASSUME TypeOK, NEW c \in Commands
    PROVE  /\ Matching(c) \subseteq Versions
           /\ LastByName(installed) \subseteq installed
           /\ Target \subseteq Inodes
           /\ Current \in Requests
<1>1. 1..published \subseteq Versions
  BY ConstantTypes DEF TypeOK, Versions
<1>2. Matching(c) \subseteq Versions
  BY <1>1 DEF Matching, Candidates
<1>3. Target \subseteq Inodes
  BY DEF Target, Free, TypeOK
<1>4. Current \in Requests
  BY DEF Current, TypeOK, Requests
<1> QED
  BY <1>2, <1>3, <1>4 DEF LastByName

\* From the resolution on, a command has a release.
Got ==
    \A c \in Commands :
        pc[c] \in {"install", "open", "write", "rename"} => got[c] \in Versions

LEMMA DoType ==
    ASSUME TypeOK, Got, NEW c \in Commands, Do(c)
    PROVE  TypeOK'
<1>1. CASE Start(c)
  <2>1. want' \in [Commands -> Requests]
    BY <1>1 DEF Start, TypeOK, Requests
  <2>2. kind' \in [Commands -> {"test", "bare", "set"}]
    BY <1>1 DEF Start, TypeOK
  <2>3. pc' \in [Commands -> Steps] /\ UNCHANGED <<res, history, crashes>>
    BY <1>1 DEF Start, TypeOK, Goto, Steps, history
  <2> QED
    BY <1>1, <2>1, <2>2, <2>3 DEF Start, TypeOK, cache, history
<1>2. CASE ReadCurrent(c)
  <2>1. want' \in [Commands -> Requests]
    BY <1>2, FoundTypes DEF ReadCurrent, TypeOK, Requests
  <2> QED
    BY <1>2, <2>1 DEF ReadCurrent, TypeOK, Goto, Steps, cache, history
<1>3. CASE CheckPinned(c)
  <2>1. CASE want[c] \in installed /\ Ready(c, want[c])
    <3>1. want[c] \in Versions
      BY <2>1 DEF TypeOK
    <3> QED
      BY <1>3, <2>1, <3>1, ReadyType DEF CheckPinned, TypeOK, cache, history
  <2>2. CASE Goto(c, "list") /\ UNCHANGED <<kind, want, got, fd>>
    BY <1>3, <2>2 DEF CheckPinned, TypeOK, Goto, Steps, cache, history
  <2> QED
    BY <1>3, <2>1, <2>2 DEF CheckPinned
<1>4. CASE ListReleases(c)
  <2>1. seen' \in [Commands -> 0..NumReleases]
    BY <1>4 DEF ListReleases, TypeOK
  <2>2. PICK v \in Versions :
          \/ Ready(c, v)
          \/ /\ got' = [got EXCEPT ![c] = v]
             /\ Goto(c, "install") /\ UNCHANGED <<kind, want, fd>>
    BY <1>4, FoundTypes DEF ListReleases
  <2>3. CASE Ready(c, v)
    BY <1>4, <2>1, <2>3, ReadyType DEF ListReleases, TypeOK, cache, history
  <2>4. CASE /\ got' = [got EXCEPT ![c] = v]
             /\ Goto(c, "install") /\ UNCHANGED <<kind, want, fd>>
    BY <1>4, <2>1, <2>4 DEF ListReleases, TypeOK, cache, Goto, Steps, history
  <2> QED
    BY <2>2, <2>3, <2>4
<1>5. CASE ResolveFails(c)
  <2>1. CASE \E v \in LastByName(installed) : Ready(c, v)
    <3>1. PICK v \in Versions : Ready(c, v)
      BY <2>1, FoundTypes DEF TypeOK
    <3> QED
      BY <1>5, <3>1, ReadyType DEF ResolveFails, TypeOK, cache, history
  <2>2. CASE Fail(c)
    BY <1>5, <2>2, FailType DEF ResolveFails, TypeOK
  <2> QED
    BY <1>5, <2>1, <2>2 DEF ResolveFails
<1>6. CASE NoAsset(c)
  <2>1. seen' \in [Commands -> 0..NumReleases]
    BY <1>6 DEF NoAsset, TypeOK
  <2> QED
    BY <1>6, <2>1, FailType DEF NoAsset
<1>7. CASE Install(c)
  <2>1. got[c] \in Versions /\ installed' \subseteq Versions
    BY <1>7 DEF Got, Install, TypeOK
  <2> QED
    BY <1>7, <2>1, ReadyType DEF Install, TypeOK, history
<1>8. CASE InstallFails(c) \/ SetFails(c)
  BY <1>8, FailType DEF InstallFails, SetFails, TypeOK
<1>9. CASE OpenTemp(c)
  <2>1. PICK i \in Inodes : /\ temp' = i
                            /\ text' = [text EXCEPT ![i] = Latest]
                            /\ fd' = [fd EXCEPT ![c] = i]
    BY <1>9, FoundTypes DEF OpenTemp
  <2> QED
    BY <1>9, <2>1 DEF OpenTemp, TypeOK, Goto, Steps, Requests, history
<1>10. CASE WriteTemp(c)
  <2>1. text' \in [Inodes -> Requests]
    BY <1>10 DEF WriteTemp, Over, TypeOK, Requests
  <2> QED
    BY <1>10, <2>1 DEF WriteTemp, TypeOK, Goto, Steps, history
<1>11. CASE RenameTemp(c)
  <2>1. text' \in [Inodes -> Requests]
    BY <1>11 DEF RenameTemp, TypeOK, Requests
  <2> QED
    BY <1>11, <2>1 DEF RenameTemp, TypeOK, Steps, command
<1>12. CASE Report(c)
  <2>1. End(c, "ok")
    BY <1>12 DEF Report
  <2> QED
    BY <1>12, <2>1, EndType DEF Report, TypeOK, cache
<1> QED
  BY <1>1, <1>2, <1>3, <1>4, <1>5, <1>6, <1>7, <1>8, <1>9, <1>10, <1>11, <1>12 DEF Do

LEMMA DoGot ==
    ASSUME TypeOK, Got, NEW c \in Commands, Do(c)
    PROVE  Got'
<1>1. \A d \in Commands \ {c} : pc'[d] = pc[d] /\ got'[d] = got[d]
  <2>1. ASSUME NEW v, Ready(c, v)
        PROVE  \A d \in Commands \ {c} : pc'[d] = pc[d] /\ got'[d] = got[d]
    BY <2>1 DEF Ready, End, Goto, TypeOK
  <2>2. CASE Start(c) \/ ReadCurrent(c) \/ InstallFails(c) \/ NoAsset(c)
             \/ OpenTemp(c) \/ WriteTemp(c) \/ RenameTemp(c) \/ Report(c)
             \/ SetFails(c)
    BY <2>2 DEF Start, ReadCurrent, InstallFails, NoAsset, OpenTemp, WriteTemp,
                RenameTemp, Report, SetFails, Fail, End, Goto, TypeOK, command
  <2>3. CASE CheckPinned(c)
    BY <2>1, <2>3 DEF CheckPinned, Goto, TypeOK
  <2>4. CASE ListReleases(c)
    BY <2>1, <2>4 DEF ListReleases, Goto, TypeOK
  <2>5. CASE ResolveFails(c)
    BY <2>1, <2>5 DEF ResolveFails, Fail, End, TypeOK
  <2>6. CASE Install(c)
    BY <2>1, <2>6 DEF Install
  <2> QED
    BY <2>2, <2>3, <2>4, <2>5, <2>6 DEF Do
<1>2. pc'[c] \in {"install", "open", "write", "rename"} => got'[c] \in Versions
  <2>1. ASSUME NEW v \in Versions, Ready(c, v)
        PROVE  got'[c] \in Versions
    BY <2>1 DEF Ready, TypeOK
  <2>2. CASE Start(c) \/ ReadCurrent(c) \/ InstallFails(c) \/ NoAsset(c)
             \/ RenameTemp(c) \/ Report(c) \/ SetFails(c)
    BY <2>2 DEF Start, ReadCurrent, InstallFails, NoAsset, RenameTemp, Report,
                SetFails, Fail, End, Goto, TypeOK
  <2>3. CASE CheckPinned(c)
    BY <2>1, <2>3 DEF CheckPinned, Goto, TypeOK
  <2>4. CASE ListReleases(c)
    BY <2>1, <2>4, FoundTypes DEF ListReleases, TypeOK
  <2>5. CASE ResolveFails(c)
    BY <2>1, <2>5, FoundTypes DEF ResolveFails, Fail, End, TypeOK
  <2>6. CASE Install(c)
    BY <2>1, <2>6 DEF Install, Got
  <2>7. CASE OpenTemp(c) \/ WriteTemp(c)
    BY <2>7 DEF OpenTemp, WriteTemp, Got
  <2> QED
    BY <2>2, <2>3, <2>4, <2>5, <2>6, <2>7 DEF Do
<1> QED
  BY <1>1, <1>2 DEF Got

LEMMA CrashTypes ==
    ASSUME TypeOK, Got, NEW c \in Commands, Crash(c)
    PROVE  TypeOK' /\ Got'
<1>1. crashes' \in 0..MaxCrashes
  BY ConstantTypes DEF Crash, TypeOK
<1>2. TypeOK'
  BY <1>1 DEF Crash, TypeOK, cache, history, Steps
<1>3. Got'
  BY DEF Crash, TypeOK, Got
<1> QED
  BY <1>2, <1>3

LEMMA TypeStep == TypeOK /\ Got /\ [Next]_vars => TypeOK' /\ Got'
<1> SUFFICES ASSUME TypeOK, Got, [Next]_vars PROVE TypeOK' /\ Got'
  OBVIOUS
<1>1. CASE \E c \in Commands : Do(c)
  BY <1>1, DoType, DoGot
<1>2. CASE \E c \in Commands : Crash(c)
  BY <1>2, CrashTypes
<1>3. CASE Publish
  BY <1>3, ConstantTypes DEF Publish, TypeOK, Got, cache, command, history
<1>4. CASE UNCHANGED vars
  BY <1>4 DEF vars, TypeOK, Got, cache, command, history
<1> QED
  BY <1>1, <1>2, <1>3, <1>4 DEF Next, Done

\* The commands and the cache keep their types.
THEOREM TypeCorrect == Spec => []TypeOK
<1>1. Init => TypeOK /\ Got
  BY TypeInit DEF Init, Got
<1> QED
  BY <1>1, TypeStep, PTL DEF Spec

-----------------------------------------------------------------------------
(* One setter at a time: what it leaves on the way to its rename.          *)

Setting == {"write", "rename", "report"}

\* The commands about to write the default have their core.
SetterReady ==
    \A c \in Commands :
        pc[c] \in Setting \cup {"open"} => got[c] \in installed

\* The temporary file belongs to one command, which found it empty.
TempOwned ==
    /\ \A c, d \in Commands : pc[c] \in Setting /\ pc[d] \in Setting => c = d
    /\ \A c \in Commands : pc[c] \in {"write", "rename"} => temp # None
    /\ \A c \in Commands : pc[c] = "write" => fd[c] = temp /\ text[temp] = Latest
    /\ \A c \in Commands : pc[c] = "rename" => text[temp] = got[c]
    /\ temp # None => temp # default

\* What the last rename made the default is still there; it was reported, or
\* is about to be, or never will.
LastHolds ==
    /\ owner = None => last = None
    /\ owner # None => /\ default # None /\ text[default] = got[owner]
                       /\ pc[owner] \in {"report", "end"}
    /\ \A c \in Commands : pc[c] = "report" => owner = c
    /\ owner # last => pc[owner] = "report" \/ res[owner] = "killed"

\* The inductive invariant.
SetInv ==
    /\ TypeOK /\ Got
    /\ SetterReady
    /\ TempOwned
    /\ DefaultIsInstalled
    /\ LastHolds

\* A step that leaves default-core and its temporary file alone, and moves one
\* command at most, to a place outside SetCurrent or to its beginning.
LEMMA QuietStep ==
    ASSUME SetInv, TypeOK', Got', NEW c \in Commands,
           UNCHANGED <<default, temp, text, history>>,
           installed \subseteq installed',
           \A d \in Commands \ {c} :
               pc'[d] = pc[d] /\ got'[d] = got[d] /\ fd'[d] = fd[d]
               /\ res'[d] = res[d],
           pc[c] # "end", pc'[c] \notin Setting,
           pc'[c] = "open" => got'[c] \in installed',
           pc[c] = "report" =>
               pc'[c] = "end" /\ res'[c] = "killed" /\ got'[c] = got[c]
    PROVE  SetInv'
<1>1. SetterReady'
  BY DEF SetInv, SetterReady, Setting
<1>2. TempOwned'
  BY DEF SetInv, TempOwned, Setting
<1>3. DefaultIsInstalled'
  BY DEF SetInv, DefaultIsInstalled, Current
<1>4. LastHolds'
  <2>1. \A d \in Commands : pc'[d] = "report" => pc[d] = "report"
    BY DEF SetInv, TypeOK, Setting
  <2>2. CASE owner = c
    BY <2>1, <2>2, ConstantTypes DEF SetInv, LastHolds, TypeOK, history
  <2>3. CASE owner \in Commands \ {c}
    BY <2>1, <2>3, ConstantTypes DEF SetInv, LastHolds, TypeOK, history
  <2>4. CASE owner = None
    BY <2>1, <2>4, ConstantTypes DEF SetInv, LastHolds, TypeOK, history
  <2> QED
    BY <2>2, <2>3, <2>4 DEF SetInv, TypeOK
<1> QED
  BY <1>1, <1>2, <1>3, <1>4 DEF SetInv

\* How a command's place changes in Ready.
LEMMA ReadyPlace ==
    ASSUME TypeOK, NEW c \in Commands, NEW v \in Versions, Ready(c, v)
    PROVE  /\ \A d \in Commands \ {c} :
               pc'[d] = pc[d] /\ got'[d] = got[d] /\ fd'[d] = fd[d]
               /\ res'[d] = res[d]
           /\ pc'[c] \in {"open", "end"} /\ got'[c] = v
           /\ UNCHANGED history
BY DEF Ready, End, Goto, TypeOK

LEMMA EnsureStep ==
    ASSUME SetInv, TypeOK', Got', NEW c \in Commands,
           \/ Start(c) \/ ReadCurrent(c) \/ CheckPinned(c) \/ ListReleases(c)
           \/ ResolveFails(c) \/ NoAsset(c) \/ Install(c) \/ InstallFails(c)
           \/ SetFails(c) \/ Crash(c)
    PROVE  SetInv'
<1> USE DEF SetInv
<1>1. ASSUME NEW v \in Versions, Ready(c, v), v \in installed',
             pc[c] \in {"pinned", "list", "install"},
             UNCHANGED <<default, temp, text>>, installed \subseteq installed'
      PROVE  SetInv'
  BY <1>1, ReadyPlace, QuietStep DEF Setting
<1>2. CASE \/ Start(c) \/ ReadCurrent(c) \/ NoAsset(c) \/ InstallFails(c)
           \/ SetFails(c)
  <2>1. /\ UNCHANGED <<default, temp, text, history, installed>>
        /\ pc[c] \notin {"end", "report"}
    BY <1>2 DEF Start, ReadCurrent, NoAsset, InstallFails, SetFails, Fail, End,
                Goto, cache
  <2>2. /\ pc'[c] \in {"current", "pinned", "end"}
        /\ \A d \in Commands \ {c} :
               pc'[d] = pc[d] /\ got'[d] = got[d] /\ fd'[d] = fd[d]
               /\ res'[d] = res[d]
    BY <1>2 DEF Start, ReadCurrent, NoAsset, InstallFails, SetFails, Fail, End,
                Goto, TypeOK
  <2> QED
    BY <2>1, <2>2, QuietStep DEF Setting
<1>3. CASE CheckPinned(c)
  <2>1. CASE want[c] \in installed /\ Ready(c, want[c])
    BY <1>1, <1>3, <2>1 DEF CheckPinned, TypeOK, cache
  <2>2. CASE Goto(c, "list") /\ UNCHANGED <<kind, want, got, fd>>
    BY <1>3, <2>2, QuietStep DEF CheckPinned, TypeOK, cache, Goto, Setting
  <2> QED
    BY <1>3, <2>1, <2>2 DEF CheckPinned
<1>4. CASE ListReleases(c)
  <2>1. PICK v \in Versions :
          \/ v \in installed /\ Ready(c, v)
          \/ /\ got' = [got EXCEPT ![c] = v]
             /\ Goto(c, "install") /\ UNCHANGED <<kind, want, fd>>
    BY <1>4, FoundTypes DEF ListReleases
  <2>2. CASE v \in installed /\ Ready(c, v)
    BY <1>1, <1>4, <2>2 DEF ListReleases, cache
  <2>3. CASE /\ got' = [got EXCEPT ![c] = v]
             /\ Goto(c, "install") /\ UNCHANGED <<kind, want, fd>>
    BY <1>4, <2>3, QuietStep DEF ListReleases, TypeOK, cache, Goto, Setting
  <2> QED
    BY <2>1, <2>2, <2>3
<1>5. CASE ResolveFails(c)
  <2>1. CASE \E v \in LastByName(installed) : Ready(c, v)
    <3>1. PICK v \in installed : Ready(c, v)
      BY <2>1, FoundTypes
    <3> QED
      BY <1>1, <1>5, <3>1 DEF ResolveFails, TypeOK, cache
  <2>2. CASE Fail(c)
    BY <1>5, <2>2, QuietStep DEF ResolveFails, TypeOK, cache, Fail, End, Setting
  <2> QED
    BY <1>5, <2>1, <2>2 DEF ResolveFails
<1>6. CASE Install(c)
  BY <1>1, <1>6 DEF Install, Got
<1>7. CASE Crash(c)
  BY <1>7, QuietStep DEF Crash, TypeOK, cache, Setting
<1> QED
  BY <1>2, <1>3, <1>4, <1>5, <1>6, <1>7

LEMMA OpenStep ==
    ASSUME SetInv, OneWriter, TypeOK', Got', NEW c \in Commands, OpenTemp(c)
    PROVE  SetInv'
<1> USE DEF SetInv
<1>1. PICK i \in Inodes : /\ temp' = i /\ i # default
                          /\ text' = [text EXCEPT ![i] = Latest]
                          /\ fd' = [fd EXCEPT ![c] = i]
  <2>1. \A i \in Target : i # default /\ i \in Inodes
    BY FoundTypes DEF Target, Free, TempOwned
  <2> QED
    BY <2>1 DEF OpenTemp
<1>2. /\ \A d \in Commands : pc[d] \notin Setting
      /\ pc' = [pc EXCEPT ![c] = "write"]
      /\ UNCHANGED <<got, res, default, installed, history>>
  BY DEF OpenTemp, Goto, Setting, MidSet
<1>3. SetterReady'
  BY <1>2 DEF OpenTemp, SetterReady, Setting, TypeOK
<1>4. TempOwned'
  BY <1>1, <1>2, ConstantTypes DEF TempOwned, Setting, TypeOK
<1>5. DefaultIsInstalled' /\ LastHolds'
  BY <1>1, <1>2 DEF OpenTemp, DefaultIsInstalled, Current, LastHolds, TypeOK,
                     Setting, history
<1> QED
  BY <1>3, <1>4, <1>5

LEMMA WriteStep ==
    ASSUME SetInv, TypeOK', Got', NEW c \in Commands, WriteTemp(c)
    PROVE  SetInv'
<1> USE DEF SetInv
<1>1. /\ pc[c] = "write" /\ fd[c] = temp /\ text[temp] = 0
      /\ temp \in Inodes /\ temp # default
      /\ \A d \in Commands : pc[d] \in Setting => d = c
  BY DEF WriteTemp, TempOwned, Setting, TypeOK
<1>2. text' = [text EXCEPT ![temp] = got[c]]
  <2>1. 0 # Mixed /\ Over(0, got[c]) = got[c]
    BY ConstantTypes DEF Over, Mixed
  <2> QED
    BY <1>1, <2>1 DEF WriteTemp, TypeOK
<1>3. /\ pc' = [pc EXCEPT ![c] = "rename"]
      /\ UNCHANGED <<got, res, default, temp, installed, history>>
  BY DEF WriteTemp, Goto
<1>4. SetterReady'
  BY <1>3 DEF WriteTemp, SetterReady, Setting, TypeOK
<1>5. TempOwned'
  <2>1. \A d \in Commands : pc'[d] \in Setting => d = c /\ pc'[d] = "rename"
    BY <1>1, <1>3 DEF Setting, TypeOK
  <2>2. text'[temp] = got[c]
    BY <1>1, <1>2 DEF TypeOK
  <2> QED
    BY <1>1, <1>3, <2>1, <2>2 DEF TempOwned, Setting
<1>6. DefaultIsInstalled' /\ LastHolds'
  BY <1>1, <1>2, <1>3
     DEF WriteTemp, DefaultIsInstalled, Current, LastHolds, TypeOK, history
<1> QED
  BY <1>4, <1>5, <1>6

LEMMA RenameStep ==
    ASSUME SetInv, TypeOK', Got', NEW c \in Commands, RenameTemp(c)
    PROVE  SetInv'
<1> USE DEF SetInv
<1>1. /\ temp \in Inodes /\ temp # default /\ text[temp] = got[c]
      /\ got[c] \in installed
      /\ \A d \in Commands : pc[d] \in Setting => d = c
  BY DEF RenameTemp, TempOwned, SetterReady, Setting, TypeOK
<1>2. text'[temp] = got[c]
  BY <1>1 DEF RenameTemp, TypeOK
<1>3. /\ pc' = [pc EXCEPT ![c] = "report"] /\ default' = temp /\ temp' = None
      /\ owner' = c /\ UNCHANGED <<got, installed>>
  BY DEF RenameTemp, command
<1>4. SetterReady'
  BY <1>1, <1>3 DEF SetterReady, Setting, TypeOK
<1>5. TempOwned'
  BY <1>1, <1>3 DEF TempOwned, Setting, TypeOK
<1>6. DefaultIsInstalled'
  BY <1>1, <1>2, <1>3 DEF DefaultIsInstalled, Current
<1>7. LastHolds'
  BY <1>1, <1>2, <1>3, ConstantTypes DEF LastHolds, TypeOK, Setting
<1> QED
  BY <1>4, <1>5, <1>6, <1>7

LEMMA ReportStep ==
    ASSUME SetInv, TypeOK', Got', NEW c \in Commands, Report(c)
    PROVE  SetInv'
<1> USE DEF SetInv
<1>1. /\ pc[c] = "report" /\ pc' = [pc EXCEPT ![c] = "end"] /\ last' = c
      /\ fd' = [fd EXCEPT ![c] = None]
      /\ UNCHANGED <<installed, default, temp, text, got, owner>>
  BY DEF Report, End, cache
<1>2. SetterReady' /\ TempOwned'
  BY <1>1 DEF SetterReady, TempOwned, Setting, TypeOK
<1>3. DefaultIsInstalled' /\ LastHolds'
  BY <1>1 DEF DefaultIsInstalled, Current, LastHolds, TypeOK
<1> QED
  BY <1>2, <1>3

LEMMA SetStep == OneWriter /\ SetInv /\ [Next]_vars => SetInv'
<1> SUFFICES ASSUME OneWriter, SetInv, [Next]_vars PROVE SetInv'
  OBVIOUS
<1>1. TypeOK' /\ Got'
  BY TypeStep DEF SetInv
<1>2. ASSUME NEW c \in Commands, Do(c) \/ Crash(c) PROVE SetInv'
  BY <1>1, <1>2, EnsureStep, OpenStep, WriteStep, RenameStep, ReportStep
     DEF Do
<1>3. CASE Publish \/ UNCHANGED vars
  BY <1>1, <1>3 DEF Publish, vars, cache, command, SetInv, SetterReady, TempOwned,
                    DefaultIsInstalled, Current, LastHolds, history
<1> QED
  BY <1>2, <1>3 DEF Next, Done

LEMMA SetInit == Init => SetInv
<1> SUFFICES ASSUME Init PROVE SetInv
  OBVIOUS
<1>1. Got /\ SetterReady /\ TempOwned
  BY DEF Init, Got, SetterReady, TempOwned, Setting
<1>2. DefaultIsInstalled /\ LastHolds
  BY DEF Init, DefaultIsInstalled, Current, LastHolds
<1> QED
  BY <1>1, <1>2, TypeInit DEF SetInv

\* With one setter at a time, default-core names an installed core, whatever is
\* killed and whatever fails.
THEOREM DefaultInstalled == OneWriter => (Spec => []DefaultIsInstalled)
<1> SUFFICES ASSUME OneWriter PROVE Spec => []DefaultIsInstalled
  OBVIOUS
<1>1. SetInv /\ [Next]_vars => SetInv'
  BY SetStep
<1>2. SetInv => DefaultIsInstalled
  BY DEF SetInv
<1> QED
  BY <1>1, <1>2, SetInit, PTL DEF Spec

\* UsingIsCurrent: with one setter at a time, and any of them killed at any
\* step, the default is the one reported last, or that of a later setter which
\* was killed between its rename and its report.
THEOREM LastIsCurrent == OneWriter => (Spec => []UsingIsCurrent)
<1> SUFFICES ASSUME OneWriter PROVE Spec => []UsingIsCurrent
  OBVIOUS
<1>1. SetInv /\ [Next]_vars => SetInv'
  BY SetStep
<1>2. SetInv => UsingIsCurrent
  BY DEF SetInv, LastHolds, UsingIsCurrent, Current
<1> QED
  BY <1>1, <1>2, SetInit, PTL DEF Spec

-----------------------------------------------------------------------------
(* The version that is run.                                                *)

Fits(c) ==
    /\ want[c] \in Versions => got[c] = want[c]
    /\ want[c] = Latest /\ seen[c] # 0 =>
          /\ got[c] \notin Prereleases
          /\ \A v \in (1..seen[c]) \ Prereleases : v <= got[c]

\* What a command knows of its version at each step.
VersionAt(c) ==
    /\ pc[c] \in {"start", "current", "pinned", "list"} => seen[c] = 0
    /\ pc[c] # "end" => res[c] # "ok"
    /\ pc[c] \in Setting \cup {"install", "open"} \/ res[c] = "ok" => Fits(c)
    /\ pc[c] \in Setting \cup {"open"} \/ res[c] = "ok" => got[c] \in installed

VersionInv == \A c \in Commands : VersionAt(c)

\* A command moves nobody but itself, and no core is removed.
LEMMA OthersStay ==
    ASSUME TypeOK, NEW c \in Commands, Do(c) \/ Crash(c)
    PROVE  /\ installed \subseteq installed'
           /\ \A d \in Commands \ {c} :
                 /\ pc'[d] = pc[d] /\ res'[d] = res[d] /\ want'[d] = want[d]
                 /\ got'[d] = got[d] /\ seen'[d] = seen[d]
<1> USE DEF TypeOK, Goto, End, Fail, Ready, cache
<1>1. CASE Start(c) \/ ReadCurrent(c) \/ CheckPinned(c)
  BY <1>1 DEF Start, ReadCurrent, CheckPinned
<1>2. CASE ListReleases(c)
  BY <1>2 DEF ListReleases
<1>3. CASE ResolveFails(c) \/ NoAsset(c) \/ Install(c) \/ InstallFails(c)
  BY <1>3 DEF ResolveFails, NoAsset, Install, InstallFails
<1>4. CASE \/ OpenTemp(c) \/ WriteTemp(c) \/ RenameTemp(c) \/ Report(c)
           \/ SetFails(c) \/ Crash(c)
  BY <1>4 DEF OpenTemp, WriteTemp, RenameTemp, Report, SetFails, Crash, command
<1> QED
  BY <1>1, <1>2, <1>3, <1>4 DEF Do

\* Ensure returns a version that fits.
LEMMA ReadyVersion ==
    ASSUME TypeOK, NEW c \in Commands, NEW v \in Versions, Ready(c, v),
           v \in installed', res[c] # "ok",
           want[c] \in Versions => v = want[c],
           want[c] = Latest /\ seen'[c] # 0 =>
               /\ v \notin Prereleases
               /\ \A u \in (1..seen'[c]) \ Prereleases : u <= v
    PROVE  VersionAt(c)'
<1>1. got'[c] = v /\ want'[c] = want[c]
  BY DEF Ready, TypeOK
<1>2. pc'[c] = "end" \/ (pc'[c] = "open" /\ res'[c] = res[c])
  BY DEF Ready, End, Goto, TypeOK
<1> QED
  BY <1>1, <1>2 DEF VersionAt, Fits, Setting

\* The step of a command keeps what it knows.
LEMMA OwnVersion ==
    ASSUME TypeOK, Got, VersionInv, NEW c \in Commands, Do(c) \/ Crash(c)
    PROVE  VersionAt(c)'
<1>2. VersionAt(c)
  BY DEF VersionInv
<1>3. Matching(c) \subseteq Versions /\ LastByName(installed) \subseteq installed
      /\ installed \subseteq Versions /\ Latest \notin Versions
  BY FoundTypes, ConstantTypes DEF TypeOK, Latest
<1>4. CASE Start(c) \/ ReadCurrent(c)
  BY <1>2, <1>4 DEF Start, ReadCurrent, Goto, TypeOK, VersionAt, Setting
<1>5. CASE CheckPinned(c)
  <2>1. CASE want[c] \in installed /\ Ready(c, want[c])
    BY <1>2, <1>3, <1>5, <2>1, ReadyVersion DEF CheckPinned, cache, VersionAt, Setting
  <2>2. CASE Goto(c, "list") /\ UNCHANGED <<kind, want, got, fd>>
    BY <1>2, <1>5, <2>2 DEF CheckPinned, Goto, TypeOK, VersionAt, Setting
  <2> QED
    BY <1>5, <2>1, <2>2 DEF CheckPinned
<1>6. CASE ListReleases(c)
  <2>1. PICK v \in Matching(c) :
          \/ v \in installed /\ Ready(c, v)
          \/ /\ got' = [got EXCEPT ![c] = v]
             /\ Goto(c, "install") /\ UNCHANGED <<kind, want, fd>>
    BY <1>6 DEF ListReleases
  <2>2. v \in Versions /\ seen'[c] = published /\ pc[c] = "list" /\ installed' = installed
    BY <1>3, <1>6 DEF ListReleases, TypeOK, cache
  <2>3. want[c] \in Versions => v = want[c]
    BY <1>3, <2>1 DEF Matching
  <2>4. want[c] = Latest =>
          v \notin Prereleases /\ \A u \in (1..seen'[c]) \ Prereleases : u <= v
    BY <2>1, <2>2 DEF Matching, Candidates
  <2>5. CASE v \in installed /\ Ready(c, v)
    BY <1>2, <2>2, <2>3, <2>4, <2>5, ReadyVersion DEF VersionAt, Setting
  <2>6. CASE got' = [got EXCEPT ![c] = v] /\ Goto(c, "install") /\ UNCHANGED <<kind, want, fd>>
    BY <1>2, <2>2, <2>3, <2>4, <2>6 DEF VersionAt, Setting, Fits, Goto, TypeOK
  <2> QED
    BY <2>1, <2>5, <2>6
<1>7. CASE ResolveFails(c)
  <2>1. CASE MayFallBack(c) /\ \E v \in LastByName(installed) : Ready(c, v)
    <3>1. PICK v \in installed : Ready(c, v)
      BY <1>3, <2>1
    <3>2. seen'[c] = 0 /\ want[c] = Latest /\ res[c] # "ok" /\ installed' = installed
      BY <1>2, <1>7, <2>1 DEF ResolveFails, MayFallBack, VersionAt, Setting, cache
    <3> QED
      BY <1>3, <3>1, <3>2, ReadyVersion
  <2>2. CASE Fail(c)
    BY <1>7, <2>2 DEF ResolveFails, Fail, End, TypeOK, VersionAt, Setting
  <2> QED
    BY <1>7, <2>1, <2>2 DEF ResolveFails
<1>8. CASE NoAsset(c) \/ InstallFails(c) \/ SetFails(c)
  BY <1>8 DEF NoAsset, InstallFails, SetFails, Fail, End, TypeOK, VersionAt, Setting
<1>9. CASE Install(c)
  <2>1. got[c] \in Versions
    BY <1>9 DEF Install, Got
  <2>2. got[c] \in installed' /\ Ready(c, got[c]) /\ seen' = seen /\ pc[c] = "install"
    BY <1>9 DEF Install
  <2> QED
    BY <1>2, <2>1, <2>2, ReadyVersion DEF VersionAt, Setting, Fits
<1>10. CASE OpenTemp(c) \/ WriteTemp(c) \/ RenameTemp(c) \/ Report(c)
  BY <1>2, <1>10 DEF OpenTemp, WriteTemp, RenameTemp, Report, Goto, End, TypeOK,
                     VersionAt, Fits, Setting, command, cache
<1>11. CASE Crash(c)
  BY <1>11 DEF Crash, TypeOK, VersionAt, Setting
<1> QED
  BY <1>4, <1>5, <1>6, <1>7, <1>8, <1>9, <1>10, <1>11 DEF Do

LEMMA VersionStep == TypeOK /\ Got /\ VersionInv /\ [Next]_vars => VersionInv'
<1> SUFFICES ASSUME TypeOK, Got, VersionInv, [Next]_vars PROVE VersionInv'
  OBVIOUS
<1>1. ASSUME NEW c \in Commands, Do(c) \/ Crash(c) PROVE VersionInv'
  <2>1. \A d \in Commands \ {c} : VersionAt(d)'
    BY <1>1, OthersStay DEF VersionInv, VersionAt, Setting, Fits
  <2>2. VersionAt(c)'
    BY <1>1, OwnVersion
  <2> QED
    BY <2>1, <2>2 DEF VersionInv
<1>2. CASE Publish \/ UNCHANGED vars
  BY <1>2 DEF Publish, vars, cache, command, VersionInv, VersionAt, Setting, Fits
<1> QED
  BY <1>1, <1>2 DEF Next, Done

\* RightVersion: whatever is published meanwhile, refused, killed or written to
\* default-core by others, a command that succeeds has the version it asked for.
THEOREM Right == Spec => []RightVersion
<1>1. Init => TypeOK /\ Got /\ VersionInv
  BY TypeInit DEF Init, Got, VersionInv, VersionAt, Setting
<1>2. TypeOK /\ Got /\ [Next]_vars => TypeOK' /\ Got'
  BY TypeStep
<1>3. VersionInv => RightVersion
  BY DEF VersionInv, VersionAt, Setting, Fits, RightVersion
<1> QED
  BY <1>1, <1>2, <1>3, VersionStep, PTL DEF Spec
=============================================================================
