------------------------- MODULE CoreInstallProofs -------------------------
(***************************************************************************)
(* Proofs about CoreInstall: within one program, for any number of callers *)
(* and crashes and any size of file, a core the cache offers is intact.    *)
(***************************************************************************)
EXTENDS CoreInstall, TLAPS

USE DEF None

\* The single program of a cache that is not shared.
OneProgram == \A c, d \in Callers : ProcessOf[c] = ProcessOf[d]

Entries == {"xray", "dat"}
InCall(c) == pc[c] \in Steps

-----------------------------------------------------------------------------
(* The type invariant.                                                     *)

LEMMA ConstantTypes ==
    /\ ProcessOf \in [Callers -> Processes]
    /\ NumChunks \in Nat \ {0}
    /\ Inodes \subseteq Nat \ {0} /\ 0 \notin Callers
    /\ Bodies \subseteq {"good", "bad"}
    /\ MaxCrashes \in Nat
    /\ FirstEntry \in Entries /\ LastEntry \in Entries
BY InstallAssumption DEF FirstEntry, LastEntry, Entries

LEMMA EntryFacts ==
    /\ FirstEntry # LastEntry /\ Entries = {FirstEntry, LastEntry}
    /\ FirstEntry \in Files /\ LastEntry \in Files
    /\ FirstEntry \notin Downloads /\ LastEntry \notin Downloads
    /\ ~XrayFirst => FirstEntry = "dat" /\ LastEntry = "xray"
BY DEF FirstEntry, LastEntry, Entries, Files, Downloads

LEMMA FilledType == \A b \in Bytes : Filled(b) \in [Chunks -> Bytes]
BY DEF Filled

LEMMA TypeInit == Init => TypeOK
<1> SUFFICES ASSUME Init PROVE TypeOK
  OBVIOUS
<1> USE DEF Init
<1>1. content \in [Files -> [Inodes -> [Chunks -> Bytes]]]
  <2>1. Filled("hole") \in [Chunks -> Bytes]
    BY FilledType DEF Bytes
  <2>2. [i \in Inodes |-> Filled("hole")] \in [Inodes -> [Chunks -> Bytes]]
    BY <2>1
  <2> QED
    BY <2>2
<1>2. pinned \in [Callers -> BOOLEAN]
  OBVIOUS
<1>3. crashes \in 0..MaxCrashes /\ off \in [Callers -> 0..NumChunks]
  BY ConstantTypes
<1> QED
  BY <1>1, <1>2, <1>3 DEF TypeOK, Files

LEMMA LeaveType ==
    ASSUME TypeOK, NEW C \in SUBSET Callers, Leave(C)
    PROVE  /\ mutex' \in [Processes -> Callers \cup {None}]
           /\ pc' \in [Callers -> Steps \cup {"idle", "waiting"}]
           /\ target' \in [Callers -> Files]
           /\ fd' \in [Callers -> Inodes \cup {None}]
           /\ off' \in [Callers -> 0..NumChunks]
           /\ body' \in [Callers -> {"good", "bad"}]
           /\ src' \in [Callers -> Inodes \cup {None}]
           /\ pinned' \in [Callers -> BOOLEAN]
BY ConstantTypes DEF TypeOK, Leave, Unlocked, Files

LEMMA ReturnType ==
    ASSUME TypeOK, NEW c \in Callers, NEW o \in {"ok", "failed"}, Return(c, o),
           UNCHANGED disk
    PROVE  TypeOK'
<1>1. Leave({c}) /\ {c} \in SUBSET Callers
  BY DEF Return
<1>2. res' \in [Callers -> {"none", "ok", "failed"}] /\ crashes' = crashes
  BY DEF Return, TypeOK
<1> QED
  BY <1>1, <1>2, LeaveType DEF TypeOK, disk

LEMMA GotoType ==
    ASSUME TypeOK, NEW c \in Callers, NEW x \in Steps, Goto(c, x),
           UNCHANGED <<disk, files>>
    PROVE  TypeOK'
BY DEF TypeOK, Goto, disk, files

LEMMA OpenTempType ==
    ASSUME TypeOK, NEW c \in Callers, OpenTemp(c)
    PROVE  TypeOK'
<1>1. PICK i \in Inodes :
        /\ temp' = [temp EXCEPT ![target[c]] = i]
        /\ content' = [content EXCEPT ![target[c]][i] = Filled("hole")]
        /\ fd' = [fd EXCEPT ![c] = i]
  BY DEF OpenTemp, Fresh, Free, TypeOK
<1>2. content' \in [Files -> [Inodes -> [Chunks -> Bytes]]]
  <2>1. Filled("hole") \in [Chunks -> Bytes]
    BY FilledType DEF Bytes
  <2> QED
    BY <1>1, <2>1 DEF TypeOK
<1>3. PICK b \in {"good", "bad"} : body' = [body EXCEPT ![c] = b]
  BY ConstantTypes DEF OpenTemp
<1>4. /\ off' = [off EXCEPT ![c] = 0]
      /\ pc' = [pc EXCEPT ![c] = "write"]
      /\ UNCHANGED <<file, target, src, mutex, pinned, res, crashes>>
  BY DEF OpenTemp, Goto
<1> QED
  BY <1>1, <1>2, <1>3, <1>4, ConstantTypes DEF TypeOK, Steps

LEMMA CopyChunkType ==
    ASSUME TypeOK, NEW c \in Callers, CopyChunk(c)
    PROVE  TypeOK'
<1>1. PICK b \in Source(c) :
        content' = [content EXCEPT ![target[c]][fd[c]][off[c] + 1] = b]
  BY DEF CopyChunk
<1>2. b \in Bytes
  BY DEF Source, TypeOK, Bytes
<1>3. content' \in [Files -> [Inodes -> [Chunks -> Bytes]]]
  <2> DEFINE f == target[c]
             i == fd[c]
             new == [content[f][i] EXCEPT ![off[c] + 1] = b]
  <2>1. content' = [content EXCEPT ![f][i] = new]
    BY <1>1
  <2>2. content[f] \in [Inodes -> [Chunks -> Bytes]] /\ f \in Files
    BY DEF TypeOK
  <2>3. CASE i \in Inodes
    <3>1. new \in [Chunks -> Bytes]
      BY <1>2, <2>2, <2>3
    <3> HIDE DEF new
    <3> QED
      BY <2>1, <2>2, <2>3, <3>1 DEF TypeOK
  <2>4. CASE i \notin Inodes
    <3> HIDE DEF new
    <3>1. [content[f] EXCEPT ![i] = new] \in [Inodes -> [Chunks -> Bytes]]
      BY <2>2, <2>4
    <3> QED
      BY <2>1, <2>2, <3>1 DEF TypeOK
  <2> QED
    BY <2>3, <2>4
<1>4. off' \in [Callers -> 0..NumChunks]
  BY ConstantTypes DEF TypeOK, CopyChunk, Remaining
<1> QED
  BY <1>3, <1>4 DEF TypeOK, CopyChunk

LEMMA RenameTempType ==
    ASSUME TypeOK, NEW c \in Callers, RenameTemp(c)
    PROVE  TypeOK'
<1> DEFINE f == target[c]
<1>1. /\ file' \in [Files -> Inodes \cup {None}]
      /\ temp' \in [Files -> Inodes \cup {None}]
  BY DEF TypeOK, RenameTemp
<1>2. content' \in [Files -> [Inodes -> [Chunks -> Bytes]]]
  <2>1. Filled("hole") \in [Chunks -> Bytes]
    BY FilledType DEF Bytes
  <2> QED
    BY <2>1 DEF TypeOK, RenameTemp
<1>3. Following(f)[1] \in Steps \cup {"done"} /\ Following(f)[2] \in Files
  BY ConstantTypes DEF Following, Steps, Files, Entries, TypeOK
<1>4. CASE Return(c, "ok")
  <2>1. Leave({c}) /\ {c} \in SUBSET Callers
    BY <1>4 DEF Return
  <2>2. res' \in [Callers -> {"none", "ok", "failed"}] /\ crashes' = crashes
    BY <1>4 DEF Return, TypeOK
  <2> QED
    BY <1>1, <1>2, <2>1, <2>2, LeaveType DEF TypeOK
<1>5. CASE /\ Following(f)[1] # "done"
           /\ Goto(c, Following(f)[1])
           /\ target' = [target EXCEPT ![c] = Following(f)[2]]
           /\ fd' = [fd EXCEPT ![c] = None]
           /\ off' = [off EXCEPT ![c] = 0]
           /\ body' = [body EXCEPT ![c] = "good"]
           /\ UNCHANGED src
  BY <1>1, <1>2, <1>3, <1>5, ConstantTypes DEF TypeOK, Goto
<1> QED
  BY <1>4, <1>5 DEF RenameTemp

LEMMA EnsureType ==
    ASSUME TypeOK, NEW c \in Callers, Ensure(c)
    PROVE  TypeOK'
<1> USE DEF Steps
<1>1. CASE Call(c) \/ Enter(c)
  <2>1. CASE Call(c)
    BY <2>1 DEF Call, TypeOK, disk, call, files
  <2>2. CASE Enter(c)
    <3>1. PICK v \in BOOLEAN : pinned' = [pinned EXCEPT ![c] = v]
      BY <2>2 DEF Enter
    <3>2. pinned' \in [Callers -> BOOLEAN]
      BY <3>1 DEF TypeOK
    <3>3. pc' \in [Callers -> Steps \cup {"idle", "waiting"}]
      BY <2>2 DEF Enter, TypeOK
    <3>4. mutex' \in [Processes -> Callers \cup {None}]
      BY <2>2, ConstantTypes DEF Enter, TypeOK
    <3> QED
      BY <2>2, <3>2, <3>3, <3>4 DEF Enter, TypeOK, disk, files
  <2> QED
    BY <1>1, <2>1, <2>2
<1>2. CASE \/ CheckPinned(c) \/ Resolve(c) \/ ResolveFails(c)
           \/ CheckCached(c) \/ WriteFails(c)
           \/ ReadDigest(c) \/ VerifyFile(c) \/ OpenArchiveFails(c)
  <2>1. \/ \E o \in {"ok", "failed"} : Return(c, o) /\ UNCHANGED disk
        \/ \E x \in Steps : Goto(c, x) /\ UNCHANGED <<disk, files>>
    BY <1>2 DEF CheckPinned, Resolve, ResolveFails, CheckCached, WriteFails,
                ReadDigest, VerifyFile, OpenArchiveFails
  <2> HIDE DEF Steps
  <2> QED
    BY <2>1, ReturnType, GotoType
<1>3. CASE OpenArchive(c)
  <2>1. "archive" \in Files /\ FirstEntry \in Files
    BY ConstantTypes DEF Files, Entries
  <2> QED
    BY <1>3, <2>1 DEF OpenArchive, Goto, TypeOK, disk
<1> QED
  BY <1>1, <1>2, <1>3, OpenTempType, CopyChunkType, RenameTempType DEF Ensure

LEMMA TypeStep == TypeOK /\ [Next]_vars => TypeOK'
<1> SUFFICES ASSUME TypeOK, [Next]_vars PROVE TypeOK'
  OBVIOUS
<1>1. ASSUME NEW p \in Processes, Crash(p) PROVE TypeOK'
  <2>1. crashes' \in 0..MaxCrashes
    BY <1>1, ConstantTypes DEF Crash, TypeOK
  <2>2. res' \in [Callers -> {"none", "ok", "failed"}]
    BY <1>1 DEF Crash, TypeOK
  <2> DEFINE C == {c \in Callers : ProcessOf[c] = p}
  <2>3. Leave(C) /\ C \in SUBSET Callers
    BY <1>1 DEF Crash
  <2> HIDE DEF C
  <2> QED
    BY <1>1, <2>1, <2>2, <2>3, LeaveType DEF Crash, TypeOK, disk
<1>2. CASE UNCHANGED vars
  BY <1>2 DEF vars, disk, call, files, TypeOK
<1> QED
  BY <1>1, <1>2, EnsureType DEF Next, Served

\* Every variable keeps its type, shared cache or not.
THEOREM TypeCorrect == Spec => []TypeOK
BY TypeInit, TypeStep, PTL DEF Spec

-----------------------------------------------------------------------------
(* The inductive invariant for one program.                                *)

\* ensureMu: whoever is in the critical section holds it.
LockInv == \A c \in Callers : InCall(c) => mutex[ProcessOf[c]] = c

Byte(c) == IF target[c] \in Downloads THEN body[c] ELSE "good"

\* A caller: it writes the inode at the temporary path of its target, its
\* chunks are what it copies, and it extracts only from an intact archive.
CallInv(c) ==
    /\ pc[c] # "write" => fd[c] = None
    /\ src[c] # None <=> target[c] \in Entries
    /\ target[c] \in Entries =>
        /\ pc[c] \in {"open", "write"}
        /\ src[c] = file["archive"]
        /\ content["archive"][src[c]] = Filled("good")
    /\ target[c] = LastEntry => Intact(FirstEntry)
    /\ pc[c] = "unzip" => Intact("archive")
    /\ pc[c] = "write" =>
        /\ fd[c] # None /\ fd[c] = temp[target[c]]
        /\ \A k \in 1..off[c] : content[target[c]][fd[c]][k] = Byte(c)

\* The directory: an unfinished file is never at its final path.
PathInv == \A f \in Files : temp[f] # None => temp[f] # file[f]

\* What the cache offers.
Offered ==
    /\ ExecutableIsIntact
    /\ ~XrayFirst => ExecutableHasData
    /\ \A c \in Callers : res[c] = "ok" => Executable

InstallInv ==
    /\ TypeOK /\ LockInv /\ PathInv /\ Offered
    /\ \A c \in Callers : CallInv(c)

LEMMA InvInit == Init => InstallInv
<1> SUFFICES ASSUME Init PROVE InstallInv
  OBVIOUS
<1> USE DEF Init
<1>1. LockInv /\ PathInv
  BY DEF LockInv, PathInv, InCall, Steps
<1>2. Offered
  BY DEF Offered, ExecutableIsIntact, ExecutableHasData, Executable, Files
<1>3. \A c \in Callers : CallInv(c)
  BY ConstantTypes DEF CallInv, Entries
<1> QED
  BY <1>1, <1>2, <1>3, TypeInit DEF InstallInv

\* A step that keeps what is in place keeps what is offered.
LEMMA Kept ==
    ASSUME Offered,
           \A g \in Files : Intact(g) => Intact(g)',
           file'["xray"] = file["xray"], res' = res
    PROVE  Offered'
BY DEF Offered, ExecutableIsIntact, ExecutableHasData, Executable, Files

LEMMA AloneInCall ==
    ASSUME OneProgram, LockInv, NEW c \in Callers, NEW d \in Callers,
           InCall(c), InCall(d)
    PROVE  c = d
BY DEF OneProgram, LockInv

\* A caller outside the critical section has nothing at stake in the files.
LEMMA Quiet ==
    ASSUME NEW d \in Callers, CallInv(d), ~InCall(d), TypeOK,
           pc'[d] = pc[d], fd'[d] = fd[d], src'[d] = src[d],
           target'[d] = target[d]
    PROVE  CallInv(d)'
BY ConstantTypes DEF CallInv, InCall, Steps, TypeOK

-----------------------------------------------------------------------------
(* Steps that leave the files alone.                                       *)

LEMMA LeaveInv ==
    ASSUME InstallInv, NEW C \in SUBSET Callers, Leave(C), UNCHANGED disk
    PROVE  LockInv' /\ PathInv' /\ ExecutableIsIntact'
           /\ (~XrayFirst => ExecutableHasData')
           /\ \A c \in Callers : CallInv(c)'
<1> USE DEF InstallInv, disk
<1>1. PathInv'
  BY DEF PathInv
<1>2. ExecutableIsIntact' /\ (~XrayFirst => ExecutableHasData')
  BY DEF Offered, ExecutableIsIntact, ExecutableHasData, Executable, Intact
<1>3. LockInv'
  <2> SUFFICES ASSUME NEW c \in Callers, InCall(c)'
               PROVE  mutex'[ProcessOf[c]] = c
    BY DEF LockInv
  <2>1. c \notin C /\ InCall(c)
    BY DEF Leave, InCall, Steps
  <2>2. mutex[ProcessOf[c]] = c /\ ProcessOf[c] \in Processes
    BY <2>1, ConstantTypes DEF LockInv
  <2> QED
    BY <2>1, <2>2 DEF Leave, Unlocked
<1>4. ASSUME NEW c \in Callers PROVE CallInv(c)'
  <2>1. CASE c \in C
    BY <2>1, ConstantTypes DEF Leave, CallInv, Entries
  <2>2. CASE c \notin C
    <3>1. /\ pc'[c] = pc[c] /\ target'[c] = target[c] /\ fd'[c] = fd[c]
          /\ off'[c] = off[c] /\ body'[c] = body[c] /\ src'[c] = src[c]
      BY <2>2 DEF Leave
    <3>2. CallInv(c)
      OBVIOUS
    <3> QED
      BY <3>1, <3>2 DEF CallInv, Intact, Byte
  <2> QED
    BY <2>1, <2>2
<1> QED
  BY <1>1, <1>2, <1>3, <1>4

LEMMA ReturnInv ==
    ASSUME InstallInv, NEW c \in Callers, NEW o \in {"ok", "failed"},
           Return(c, o), o = "ok" => Executable, UNCHANGED disk
    PROVE  InstallInv'
<1>1. TypeOK'
  BY ReturnType DEF InstallInv
<1>2. Leave({c}) /\ {c} \in SUBSET Callers
  BY DEF Return
<1>3. \A d \in Callers : res'[d] = "ok" => Executable'
  BY DEF Return, InstallInv, Offered, Executable, disk, TypeOK
<1> QED
  BY <1>1, <1>2, <1>3, LeaveInv DEF InstallInv, Offered

\* A step to a label that opens nothing.
LEMMA GotoInv ==
    ASSUME OneProgram, InstallInv, NEW c \in Callers, NEW x \in Steps,
           x # "write", pc[c] \in Steps \ {"open", "write"},
           x = "unzip" => Intact("archive"),
           Goto(c, x), UNCHANGED <<disk, files>>
    PROVE  InstallInv'
<1> USE DEF InstallInv, Goto, disk, files
<1>1. TypeOK'
  BY GotoType
<1>2. LockInv'
  BY DEF LockInv, InCall, TypeOK
<1>3. PathInv'
  BY DEF PathInv
<1>4. Offered'
  BY DEF Offered, ExecutableIsIntact, ExecutableHasData, Executable, Intact
<1>5. ASSUME NEW d \in Callers PROVE CallInv(d)'
  <2>1. CASE d = c
    <3>1. CallInv(c) /\ pc'[c] = x
      BY DEF TypeOK
    <3> QED
      BY <2>1, <3>1 DEF CallInv, Intact
  <2>2. CASE d # c
    <3>1. ~InCall(d) /\ pc'[d] = pc[d]
      BY <2>2, AloneInCall DEF InCall, TypeOK
    <3> QED
      BY <3>1, Quiet
  <2> QED
    BY <2>1, <2>2
<1> QED
  BY <1>1, <1>2, <1>3, <1>4, <1>5

LEMMA CallEnterInv ==
    ASSUME OneProgram, InstallInv, NEW c \in Callers, Call(c) \/ Enter(c)
    PROVE  InstallInv'
<1> USE DEF InstallInv
<1>1. TypeOK'
  BY EnsureType DEF Ensure
<1>2. UNCHANGED <<disk, files, res>>
  BY DEF Call, Enter, call
<1>3. PathInv' /\ Offered'
  BY <1>2 DEF PathInv, Offered, ExecutableIsIntact, ExecutableHasData, Executable, Intact, disk
<1>4. LockInv'
  <2>1. CASE Call(c)
    BY <2>1 DEF Call, LockInv, InCall, TypeOK, Steps
  <2>2. CASE Enter(c)
    <3>1. \A d \in Callers : InCall(d) => FALSE
      <4> SUFFICES ASSUME NEW d \in Callers, InCall(d) PROVE FALSE
        OBVIOUS
      <4>1. mutex[ProcessOf[d]] = d /\ ProcessOf[d] = ProcessOf[c]
        BY DEF LockInv, OneProgram
      <4>2. mutex[ProcessOf[c]] = None
        BY <2>2 DEF Enter, LockFree
      <4> QED
        BY <4>1, <4>2, ConstantTypes
    <3>2. mutex' = [mutex EXCEPT ![ProcessOf[c]] = c]
      BY <2>2 DEF Enter
    <3>3. \A d \in Callers : d # c => pc'[d] = pc[d]
      BY <2>2 DEF Enter, TypeOK
    <3> QED
      BY <3>1, <3>2, <3>3, ConstantTypes DEF LockInv, InCall, TypeOK
  <2> QED
    BY <2>1, <2>2
<1>5. ASSUME NEW d \in Callers PROVE CallInv(d)'
  <2>1. (pc'[d] # "unzip" /\ pc'[d] # "write") \/ pc'[d] = pc[d]
    BY DEF Call, Enter, TypeOK
  <2>2. d = c => pc[d] \in {"idle", "waiting"}
    BY DEF Call, Enter
  <2>3. d # c => pc'[d] = pc[d]
    BY DEF Call, Enter, TypeOK
  <2> QED
    BY <1>2, <2>1, <2>2, <2>3 DEF CallInv, Intact, Byte, disk, files
<1> QED
  BY <1>1, <1>3, <1>4, <1>5

LEMMA OpenArchiveInv ==
    ASSUME OneProgram, InstallInv, NEW c \in Callers, OpenArchive(c)
    PROVE  InstallInv'
<1> USE DEF InstallInv, OpenArchive, Goto
<1>1. TypeOK'
  BY EnsureType DEF Ensure
<1>2. PathInv' /\ Offered'
  BY DEF PathInv, Offered, ExecutableIsIntact, ExecutableHasData, Executable, Intact, disk
<1>3. LockInv'
  BY DEF LockInv, InCall, TypeOK, Steps
<1>4. ASSUME NEW d \in Callers PROVE CallInv(d)'
  <2>1. CASE d = c
    <3>1. CallInv(c) /\ Intact("archive")
      BY DEF CallInv
    <3> QED
      BY <2>1, <3>1, ConstantTypes, EntryFacts DEF CallInv, Intact, disk, TypeOK
  <2>2. CASE d # c
    <3>1. ~InCall(d) /\ pc'[d] = pc[d] /\ src'[d] = src[d]
          /\ target'[d] = target[d] /\ fd'[d] = fd[d]
      BY <2>2, AloneInCall DEF InCall, TypeOK, Steps
    <3> QED
      BY <3>1, Quiet
  <2> QED
    BY <2>1, <2>2
<1> QED
  BY <1>1, <1>2, <1>3, <1>4

-----------------------------------------------------------------------------
(* Steps that write files.                                                 *)

LEMMA OpenTempInv ==
    ASSUME OneProgram, InstallInv, NEW c \in Callers, OpenTemp(c)
    PROVE  InstallInv'
<1> USE DEF InstallInv
<1>1. TypeOK'
  BY OpenTempType
<1> DEFINE f == target[c]
<1>2. PICK i \in Inodes :
        /\ i # file[f]
        /\ temp' = [temp EXCEPT ![f] = i]
        /\ content' = [content EXCEPT ![f][i] = Filled("hole")]
        /\ fd' = [fd EXCEPT ![c] = i]
  BY DEF OpenTemp, Fresh, Free, TypeOK, PathInv
<1>3. /\ f \in Files /\ f = "archive" => src[c] = None
      /\ pc[c] = "open" /\ off' = [off EXCEPT ![c] = 0]
      /\ pc' = [pc EXCEPT ![c] = "write"]
      /\ UNCHANGED <<file, target, src, mutex, res>>
  BY DEF OpenTemp, Goto, TypeOK, CallInv, Entries
<1>4. \A g \in Files : file[g] # None =>
        content'[g][file[g]] = content[g][file[g]]
  BY <1>2, <1>3 DEF TypeOK
<1>5. PathInv' /\ Offered' /\ (\A g \in Files : Intact(g) => Intact(g)')
  <2>1. PathInv'
    BY <1>2, <1>3 DEF PathInv, TypeOK
  <2>3. \A g \in Files : Intact(g) => Intact(g)'
    BY <1>3, <1>4 DEF Intact
  <2>2. Offered'
    BY <1>3, <2>3, Kept
  <2> QED
    BY <2>1, <2>2, <2>3
<1>6. LockInv'
  BY <1>3 DEF LockInv, InCall, TypeOK, Steps
<1>7. ASSUME NEW d \in Callers PROVE CallInv(d)'
  <2>1. CASE d = c
    <3>1. CallInv(c)
      OBVIOUS
    <3>2. fd'[c] = temp'[f] /\ fd'[c] # None /\ off'[c] = 0 /\ pc'[c] = "write"
      BY <1>2, <1>3, ConstantTypes DEF TypeOK
    <3>3. \A k \in 1..off'[c] : FALSE
      BY <3>2
    <3>4. f \in Entries => content'["archive"][src[c]] = Filled("good")
      BY <3>1, <1>2 DEF CallInv, Entries, TypeOK
    <3>5. f = LastEntry => Intact(FirstEntry)'
      BY <3>1, <1>5, EntryFacts DEF CallInv
    <3> QED
      BY <2>1, <3>1, <3>2, <3>3, <3>4, <3>5, <1>3 DEF CallInv
  <2>2. CASE d # c
    <3>1. ~InCall(d) /\ pc'[d] = pc[d] /\ fd'[d] = fd[d]
      BY <1>2, <1>3, <2>2, AloneInCall DEF InCall, TypeOK, Steps
    <3> QED
      BY <3>1, <1>3, Quiet
  <2> QED
    BY <2>1, <2>2
<1> QED
  BY <1>1, <1>5, <1>6, <1>7

LEMMA CopyChunkInv ==
    ASSUME OneProgram, InstallInv, NEW c \in Callers, CopyChunk(c)
    PROVE  InstallInv'
<1> USE DEF InstallInv
<1>1. TypeOK'
  BY CopyChunkType
<1> DEFINE f == target[c]
           i == fd[c]
           k == off[c] + 1
<1>2. CallInv(c) /\ pc[c] = "write" /\ f \in Files
  BY DEF CopyChunk, TypeOK
<1>3. i \in Inodes /\ i # file[f] /\ i = temp[f] /\ k \in Chunks
  BY <1>2, ConstantTypes
     DEF CallInv, CopyChunk, Remaining, TypeOK, PathInv, Chunks
<1>4. content' = [content EXCEPT ![f][i][k] = Byte(c)]
  <2>1. PICK b \in Source(c) : content' = [content EXCEPT ![f][i][k] = b]
    BY DEF CopyChunk
  <2>2. CASE f \in Downloads
    BY <2>1, <2>2 DEF Source, Byte
  <2>3. CASE f \notin Downloads
    <3>1. f \in Entries
      BY <1>2, <2>3 DEF Files, Downloads, Entries
    <3>2. content["archive"][src[c]] = Filled("good")
      BY <1>2, <3>1 DEF CallInv
    <3>3. content["archive"][src[c]] = Filled(b)
      BY <2>1, <2>3 DEF Source
    <3>4. b = "good"
      BY <3>2, <3>3, <1>3 DEF Filled
    <3> QED
      BY <2>1, <2>3, <3>4 DEF Byte
  <2> QED
    BY <2>2, <2>3
<1>5. /\ off' = [off EXCEPT ![c] = k]
      /\ UNCHANGED <<file, temp, mutex, pc, target, fd, body, src, res>>
  BY DEF CopyChunk
<1>6. \A g \in Files, j \in Inodes : g # f \/ j # i =>
        content'[g][j] = content[g][j]
  BY <1>2, <1>3, <1>4 DEF TypeOK
<1>7. \A g \in Files : file[g] # None =>
        content'[g][file[g]] = content[g][file[g]]
  BY <1>3, <1>6 DEF TypeOK
<1>8. \A g \in Files : Intact(g) => Intact(g)'
  BY <1>5, <1>7 DEF Intact
<1>10. LockInv' /\ PathInv' /\ Offered'
  <2>1. Offered'
    BY <1>5, <1>8, Kept
  <2> QED
    BY <1>5, <2>1 DEF LockInv, InCall, PathInv
<1>9. ASSUME NEW d \in Callers PROVE CallInv(d)'
  <2>1. CASE d = c
    <3>1. Byte(c)' = Byte(c)
      BY <1>5 DEF Byte
    <3>2. \A j \in 1..k : content'[f][i][j] = Byte(c)
      <4>1. content'[f][i] = [content[f][i] EXCEPT ![k] = Byte(c)]
        BY <1>2, <1>3, <1>4 DEF TypeOK
      <4>2. content[f][i] \in [Chunks -> Bytes]
        BY <1>2, <1>3 DEF TypeOK
      <4>3. \A j \in 1..k : j = k \/ j \in 1..off[c]
        BY ConstantTypes DEF TypeOK
      <4>4. \A j \in 1..off[c] : content[f][i][j] = Byte(c) /\ j \in Chunks
        BY <1>2, ConstantTypes DEF CallInv, TypeOK, Chunks
      <4> QED
        BY <4>1, <4>2, <4>3, <4>4, <1>3
    <3>3. f \in Entries => content'["archive"][src[c]] = Filled("good")
      BY <1>2, <1>6 DEF CallInv, Entries, Files, TypeOK
    <3>4. off'[c] = k
      BY <1>5 DEF TypeOK
    <3> QED
      BY <2>1, <1>2, <1>5, <1>8, <3>1, <3>2, <3>3, <3>4, EntryFacts DEF CallInv
  <2>2. CASE d # c
    <3>1. ~InCall(d)
      BY <1>2, <2>2, AloneInCall DEF InCall, Steps
    <3> QED
      BY <3>1, <1>5, Quiet
  <2> QED
    BY <2>1, <2>2
<1> QED
  BY <1>1, <1>9, <1>10

LEMMA RenameTempInv ==
    ASSUME OneProgram, InstallInv, NEW c \in Callers, RenameTemp(c)
    PROVE  InstallInv'
<1> USE DEF InstallInv
<1>1. TypeOK'
  BY RenameTempType
<1>a. PICK f \in Files : f = target[c]
  BY DEF TypeOK
<1>b. PICK i : i = temp[f]
  OBVIOUS
<1>2. CallInv(c) /\ pc[c] = "write" /\ off[c] = NumChunks
  BY DEF RenameTemp, Written
<1>3. i \in Inodes /\ i # file[f] /\ i = fd[c]
  BY <1>a, <1>b, <1>2 DEF RenameTemp, TypeOK, PathInv, CallInv
<1>4. file' = [file EXCEPT ![f] = i] /\ temp' = [temp EXCEPT ![f] = None]
  BY <1>a, <1>b DEF RenameTemp
<1>5. \A g \in Files, j \in Inodes : g # f \/ j # file[f] =>
        content'[g][j] = content[g][j]
  BY <1>a, <1>2, <1>3 DEF RenameTemp, TypeOK
<1>6. f \in Entries => Intact(f)'
  <2> SUFFICES ASSUME f \in Entries PROVE content'[f][i] = Filled("good")
    <3>1. file'[f] = i
      BY <1>2, <1>4 DEF TypeOK
    <3>2. i # None
      BY <1>3, ConstantTypes
    <3> QED
      BY <3>1, <3>2 DEF Intact
  <2>1. content'[f][i] = content[f][i]
    BY <1>2, <1>3, <1>5
  <2>2. \A k \in Chunks : content[f][i][k] = "good"
    BY <1>a, <1>2, <1>3 DEF CallInv, Byte, Chunks, Downloads, Entries
  <2>3. content[f][i] \in [Chunks -> Bytes]
    BY <1>2, <1>3 DEF TypeOK
  <2> QED
    BY <2>1, <2>2, <2>3 DEF Filled
<1>7. \A g \in Files : g # f => file'[g] = file[g]
                             /\ (Intact(g) => Intact(g)')
  BY <1>2, <1>4, <1>5 DEF Intact, TypeOK
<1>8. f = LastEntry => Intact(FirstEntry) /\ Intact(FirstEntry)'
  <2>1. FirstEntry # LastEntry /\ FirstEntry \in Files
    BY DEF FirstEntry, LastEntry, Files
  <2> QED
    BY <1>a, <1>2, <1>7, <2>1 DEF CallInv
<1>9. PathInv' /\ ExecutableIsIntact' /\ (~XrayFirst => ExecutableHasData')
  <2>1. PathInv'
    BY <1>4 DEF PathInv, TypeOK
  <2>2. ExecutableIsIntact'
    <3>1. CASE f = "xray"
      <4>1. Intact("xray")'
        BY <1>6, <3>1 DEF Entries
      <4> QED
        BY <4>1 DEF ExecutableIsIntact
    <3>2. CASE f # "xray"
      <4>1. file'["xray"] = file["xray"] /\ (Intact("xray") => Intact("xray")')
        BY <1>7, <3>2 DEF Files
      <4> QED
        BY <4>1 DEF ExecutableIsIntact, Executable, Offered
    <3> QED
      BY <3>1, <3>2
  <2>3. ASSUME ~XrayFirst PROVE ExecutableHasData'
    <3>1. CASE f = "dat"
      <4>1. Intact("dat")'
        BY <1>6, <3>1 DEF Entries
      <4> QED
        BY <4>1 DEF ExecutableHasData
    <3>2. CASE f = "xray"
      <4>1. Intact("dat")'
        BY <1>8, <2>3, <3>2, EntryFacts
      <4> QED
        BY <4>1 DEF ExecutableHasData
    <3>3. CASE f \notin {"dat", "xray"}
      <4>1. /\ file'["xray"] = file["xray"]
            /\ Intact("dat") => Intact("dat")'
        BY <1>7, <3>3 DEF Files
      <4> QED
        BY <4>1, <2>3 DEF ExecutableHasData, Executable, Offered
    <3> QED
      BY <3>1, <3>2, <3>3
  <2> QED
    BY <2>1, <2>2, <2>3
<1>10. \A d \in Callers : d # c => ~InCall(d)
  BY <1>2, AloneInCall DEF InCall, Steps
<1>11. Executable => Executable'
  BY <1>2, <1>3, <1>4, ConstantTypes DEF Executable, TypeOK, Files
<1>12. CASE Return(c, "ok")
  <2>1. LockInv'
    BY <1>12, <1>10 DEF Return, Leave, LockInv, InCall, Steps
  <2>2. \A d \in Callers : res'[d] = "ok" => Executable'
    <3>2. f = LastEntry => Executable'
      BY <1>6, <1>8, EntryFacts DEF Executable, Intact, Entries
    <3>3. f = LastEntry
      BY <1>12, <1>a, <1>2 DEF RenameTemp, Following, Files, FirstEntry,
                         LastEntry, Return, Leave, Goto, TypeOK, Steps
    <3> QED
      BY <3>2, <3>3
  <2>3. ASSUME NEW d \in Callers PROVE CallInv(d)'
    <3>1. CASE d = c
      BY <1>12, <3>1, ConstantTypes DEF Return, Leave, CallInv, Entries
    <3>2. CASE d # c
      BY <1>12, <1>10, <3>2, Quiet DEF Return, Leave
    <3> QED
      BY <3>1, <3>2
  <2> QED
    BY <1>1, <1>9, <2>1, <2>2, <2>3 DEF Offered
<1>13. CASE /\ Following(f)[1] # "done"
            /\ Goto(c, Following(f)[1])
            /\ target' = [target EXCEPT ![c] = Following(f)[2]]
            /\ fd' = [fd EXCEPT ![c] = None]
            /\ UNCHANGED src
  <2>1. LockInv'
    BY <1>13, <1>2 DEF Goto, LockInv, InCall, TypeOK, Steps
  <2>2. \A d \in Callers : res'[d] = "ok" => Executable'
    BY <1>13, <1>11 DEF Goto, Offered
  <2>3. CallInv(c)'
    <3>1. CASE f \in Downloads
      <4>1. Following(f)[1] \in {"verify", "open", "digest"}
            /\ Following(f)[2] \in Downloads
        BY <3>1, EntryFacts, InstallAssumption DEF Following, Downloads
      <4>2. Following(f)[2] \notin Entries /\ f \notin Entries
        BY <4>1, <3>1 DEF Downloads, Entries
      <4> QED
        BY <1>a, <1>2, <1>13, <4>1, <4>2, ConstantTypes DEF CallInv, Goto, TypeOK
    <3>2. CASE f = FirstEntry
      <4>1. f \in Entries /\ f # "archive"
        BY <3>2, ConstantTypes DEF Entries
      <4>2. /\ pc'[c] = "open" /\ target'[c] = LastEntry /\ fd'[c] = None
            /\ src'[c] = src[c]
        <5>1. Following(f) = <<"open", LastEntry>>
          BY <3>2, EntryFacts DEF Following, Downloads
        <5> QED
          BY <1>a, <1>13, <5>1 DEF Goto, TypeOK
      <4>3. src[c] = file["archive"] /\ src[c] # None
            /\ content["archive"][src[c]] = Filled("good")
        BY <1>a, <1>2, <4>1 DEF CallInv
      <4>4. file'["archive"] = file["archive"]
            /\ content'["archive"][src[c]] = Filled("good")
        BY <1>5, <1>7, <4>1, <4>3 DEF TypeOK, Files, Entries
      <4> QED
        BY <1>6, <3>2, <4>1, <4>2, <4>3, <4>4, EntryFacts DEF CallInv
    <3> QED
      BY <1>a, <1>2, <1>13, <3>1, <3>2
         DEF Following, Files, Downloads, FirstEntry, LastEntry
  <2>4. ASSUME NEW d \in Callers, d # c PROVE CallInv(d)'
    BY <1>13, <1>10, <2>4, Quiet DEF Goto, TypeOK
  <2> QED
    BY <1>1, <1>9, <2>1, <2>2, <2>3, <2>4 DEF Offered
<1> QED
  BY <1>a, <1>12, <1>13 DEF RenameTemp

-----------------------------------------------------------------------------
(* The results.                                                            *)

LEMMA EnsureInv ==
    ASSUME OneProgram, InstallInv, NEW c \in Callers, Ensure(c)
    PROVE  InstallInv'
<1>1. CASE \/ CheckPinned(c) \/ Resolve(c) \/ ResolveFails(c)
           \/ CheckCached(c) \/ WriteFails(c)
           \/ ReadDigest(c) \/ VerifyFile(c) \/ OpenArchiveFails(c)
  <2>1. \/ \E o \in {"ok", "failed"} : /\ Return(c, o) /\ UNCHANGED disk
                                       /\ o = "ok" => Executable
        \/ \E x \in Steps : /\ Goto(c, x) /\ UNCHANGED <<disk, files>>
                            /\ x # "write"
                            /\ pc[c] \in Steps \ {"open", "write"}
                            /\ x = "unzip" => Intact("archive")
    BY <1>1 DEF CheckPinned, Resolve, ResolveFails, CheckCached, WriteFails,
                ReadDigest, VerifyFile, DigestMatches,
                OpenArchiveFails, Steps
  <2>2. CASE \E o \in {"ok", "failed"} : /\ Return(c, o) /\ UNCHANGED disk
                                         /\ o = "ok" => Executable
    <3>1. PICK o \in {"ok", "failed"} : /\ Return(c, o) /\ UNCHANGED disk
                                        /\ o = "ok" => Executable
      BY <2>2
    <3> QED
      BY <3>1, ReturnInv
  <2>3. CASE \E x \in Steps : /\ Goto(c, x) /\ UNCHANGED <<disk, files>>
                              /\ x # "write"
                              /\ pc[c] \in Steps \ {"open", "write"}
                              /\ x = "unzip" => Intact("archive")
    <3>1. PICK x \in Steps : /\ Goto(c, x) /\ UNCHANGED <<disk, files>>
                             /\ x # "write"
                             /\ pc[c] \in Steps \ {"open", "write"}
                             /\ x = "unzip" => Intact("archive")
      BY <2>3
    <3> QED
      BY <3>1, GotoInv
  <2> QED
    BY <2>1, <2>2, <2>3
<1> QED
  BY <1>1, CallEnterInv, OpenTempInv, CopyChunkInv, RenameTempInv,
     OpenArchiveInv DEF Ensure

LEMMA InvStep == ASSUME OneProgram, InstallInv, [Next]_vars PROVE InstallInv'
<1>1. ASSUME NEW p \in Processes, Crash(p) PROVE InstallInv'
  <2>1. TypeOK'
    BY TypeStep DEF InstallInv
  <2> DEFINE C == {c \in Callers : ProcessOf[c] = p}
  <2>2. Leave(C) /\ C \in SUBSET Callers /\ UNCHANGED disk
    BY <1>1 DEF Crash
  <2>3. \A c \in Callers : res'[c] = "ok" => Executable'
    BY <1>1 DEF Crash, InstallInv, Offered, Executable, disk
  <2> HIDE DEF C
  <2> QED
    BY <2>1, <2>2, <2>3, LeaveInv DEF InstallInv, Offered
<1>2. CASE UNCHANGED vars
  <2>1. TypeOK'
    BY TypeStep DEF InstallInv
  <2> QED
    BY <1>2, <2>1 DEF vars, disk, call, files, InstallInv, LockInv, InCall,
        PathInv, Offered, ExecutableIsIntact, ExecutableHasData, Executable,
        Intact, CallInv, Byte
<1> QED
  BY <1>1, <1>2, EnsureInv DEF Next, Served

\* A core that one program's cache offers has every byte of the release, for
\* any number of concurrent callers, failed downloads and crashes.
THEOREM IntactCore == OneProgram => (Spec => []ExecutableIsIntact)
<1> SUFFICES ASSUME OneProgram PROVE Spec => []ExecutableIsIntact
  OBVIOUS
<1>1. InstallInv /\ [Next]_vars => InstallInv'
  BY InvStep
<1>2. InstallInv => ExecutableIsIntact
  BY DEF InstallInv, Offered
<1> QED
  BY <1>1, <1>2, InvInit, PTL DEF Spec

\* It came with its data files, provided the archive lists those first.
THEOREM CompleteCore ==
    OneProgram /\ ~XrayFirst => (Spec => []ExecutableHasData)
<1> SUFFICES ASSUME OneProgram, ~XrayFirst PROVE Spec => []ExecutableHasData
  OBVIOUS
<1>1. InstallInv /\ [Next]_vars => InstallInv'
  BY InvStep
<1>2. InstallInv => ExecutableHasData
  BY DEF InstallInv, Offered
<1> QED
  BY <1>1, <1>2, InvInit, PTL DEF Spec

\* A caller that is told "ok" can run the core.
THEOREM ReadyCore == OneProgram => (Spec => []ReadyIsIntact)
<1> SUFFICES ASSUME OneProgram PROVE Spec => []ReadyIsIntact
  OBVIOUS
<1>1. InstallInv /\ [Next]_vars => InstallInv'
  BY InvStep
<1>2. InstallInv => ReadyIsIntact
  BY DEF InstallInv, Offered, ReadyIsIntact, ExecutableIsIntact
<1> QED
  BY <1>1, <1>2, InvInit, PTL DEF Spec

\* A core that was offered stays and stays whole, through every later call.
THEOREM LastingCore == OneProgram => (Spec => OfferedStays)
<1> SUFFICES ASSUME OneProgram PROVE Spec => OfferedStays
  OBVIOUS
<1>1. InstallInv /\ [Next]_vars => InstallInv'
  BY InvStep
<1>2. InstallInv /\ InstallInv' /\ [Next]_vars =>
        [Executable => Executable' /\ Intact("xray")']_vars
  <2> SUFFICES ASSUME InstallInv, InstallInv', [Next]_vars, Executable
               PROVE  Executable' /\ Intact("xray")'
    OBVIOUS
  <2>1. file' = file \/ \E c \in Callers : RenameTemp(c)
    BY DEF Next, Served, Crash, Ensure, Call, Enter, CheckPinned, Resolve,
           ResolveFails, CheckCached, OpenTemp, CopyChunk, WriteFails,
           ReadDigest, VerifyFile, OpenArchive, OpenArchiveFails,
           vars, disk
  <2>2. ASSUME NEW c \in Callers, RenameTemp(c) PROVE Executable'
    BY <2>2, ConstantTypes DEF RenameTemp, Executable, InstallInv, TypeOK, Files
  <2>3. Executable'
    BY <2>1, <2>2 DEF Executable
  <2> QED
    BY <2>3 DEF InstallInv, Offered, ExecutableIsIntact
<1> QED
  BY <1>1, <1>2, InvInit, PTL DEF Spec, OfferedStays

-----------------------------------------------------------------------------
(* The contract of the cache.                                              *)

\* A call that is under way has no answer yet.
Unanswered == \A c \in Callers : pc[c] # "idle" => res[c] = "none"

LEMMA UnansweredStep ==
    ASSUME TypeOK, Unanswered, [Next]_vars
    PROVE  Unanswered'
<1>1. ASSUME NEW c \in Callers, Return(c, "ok") \/ Return(c, "failed")
      PROVE  Unanswered'
  BY <1>1 DEF Unanswered, Return, Leave, TypeOK
<1>2. ASSUME NEW c \in Callers, pc[c] # "idle", NEW x, Goto(c, x)
      PROVE  Unanswered'
  BY <1>2 DEF Unanswered, Goto, TypeOK
<1>3. ASSUME NEW c \in Callers, Ensure(c) PROVE Unanswered'
  <2>1. CASE Call(c)
    BY <2>1 DEF Unanswered, Call, TypeOK
  <2>2. CASE Enter(c)
    BY <2>2 DEF Unanswered, Enter, TypeOK
  <2>3. CASE CopyChunk(c)
    BY <2>3 DEF Unanswered, CopyChunk
  <2>4. CASE \/ CheckPinned(c) \/ Resolve(c) \/ ResolveFails(c) \/ CheckCached(c)
             \/ OpenTemp(c) \/ WriteFails(c) \/ RenameTemp(c) \/ ReadDigest(c)
             \/ VerifyFile(c) \/ OpenArchive(c) \/ OpenArchiveFails(c)
    <3>1. \/ Return(c, "ok") \/ Return(c, "failed")
          \/ pc[c] # "idle" /\ \E x : Goto(c, x)
      BY <2>4 DEF CheckPinned, Resolve, ResolveFails, CheckCached, OpenTemp, WriteFails,
                  RenameTemp, Written, ReadDigest, VerifyFile, OpenArchive,
                  OpenArchiveFails
    <3> QED
      BY <1>1, <1>2, <3>1
  <2> QED
    BY <1>3, <2>1, <2>2, <2>3, <2>4 DEF Ensure
<1>4. ASSUME NEW p \in Processes, Crash(p) PROVE Unanswered'
  BY <1>4 DEF Unanswered, Crash, Leave
<1>5. CASE UNCHANGED vars
  BY <1>5 DEF Unanswered, vars
<1> QED
  BY <1>3, <1>4, <1>5 DEF Next, Served

\* By the invariant the cache offers nothing or the core, never a damaged one.
LEMMA CachedIs ==
    ASSUME ~XrayFirst
    PROVE  /\ Offered => Cached = IF Executable THEN "core" ELSE "nothing"
           /\ Offered' => Cached' = IF Executable' THEN "core" ELSE "nothing"
BY DEF Offered, ExecutableIsIntact, ExecutableHasData, Cached

LEMMA SameCached ==
    ASSUME ~XrayFirst, Offered, Offered', file'["xray"] = file["xray"]
    PROVE  Cached' = Cached
BY CachedIs DEF Executable

LEMMA SameAnswers ==
    ASSUME TypeOK, Unanswered, NEW c \in Callers, pc[c] # "idle",
           NEW x, x # "idle", pc' = [pc EXCEPT ![c] = x], res' = res
    PROVE  Answers' = Answers
<1>1. ASSUME NEW d \in Callers
      PROVE  (res'[d] = "none" /\ pc'[d] # "idle") <=> (res[d] = "none" /\ pc[d] # "idle")
  BY DEF TypeOK
<1> QED
  BY <1>1 DEF Answers

LEMMA ReturnAnswers ==
    ASSUME TypeOK, Unanswered, NEW c \in Callers, pc[c] # "idle",
           NEW o \in {"ok", "failed"}, Return(c, o)
    PROVE  Cache!Answer(c, "pending", o)
<1>1. res[c] = "none"
  BY DEF Unanswered
<1>2. \A d \in Callers : /\ res'[d] = IF d = c THEN o ELSE res[d]
                         /\ d # c => pc'[d] = pc[d]
  BY DEF Return, Leave, TypeOK
<1>3. Answers[c] = "pending"
  BY <1>1 DEF Answers
<1>4. Answers' = [Answers EXCEPT ![c] = o]
  <2>1. ASSUME NEW d \in Callers
        PROVE  (IF res'[d] = "none" /\ pc'[d] # "idle" THEN "pending" ELSE res'[d])
                 = IF d = c THEN o ELSE Answers[d]
    BY <1>2 DEF Answers
  <2>2. Answers' = [d \in Callers |-> IF d = c THEN o ELSE Answers[d]]
    BY <2>1 DEF Answers
  <2> QED
    BY <2>2 DEF Answers
<1> QED
  BY <1>3, <1>4 DEF Cache!Answer

\* What an answer looks like to the callers.
LEMMA ReturnServes ==
    ASSUME ~XrayFirst, InstallInv, InstallInv', Unanswered,
           NEW c \in Callers, pc[c] # "idle"
    PROVE  /\ Return(c, "ok") => Cache!Serve(c)
           /\ Return(c, "failed") /\ UNCHANGED disk => Cache!Refuse(c)
<1>1. ASSUME Return(c, "ok") PROVE Cache!Serve(c)
  <2>1. res'[c] = "ok"
    BY <1>1 DEF Return, InstallInv, TypeOK
  <2>2. Cached' = "core"
    BY <2>1, CachedIs DEF InstallInv, Offered
  <2> QED
    BY <1>1, <2>2, ReturnAnswers DEF Cache!Serve, InstallInv
<1>2. ASSUME Return(c, "failed"), UNCHANGED disk PROVE Cache!Refuse(c)
  <2>1. Cached' = Cached
    BY <1>2, SameCached DEF InstallInv, disk
  <2> QED
    BY <1>2, <2>1, ReturnAnswers DEF Cache!Refuse, InstallInv
<1> QED
  BY <1>1, <1>2

\* A step inside a call is none of the callers' business.
LEMMA InnerStep ==
    ASSUME ~XrayFirst, InstallInv, InstallInv', Unanswered,
           NEW c \in Callers, pc[c] # "idle", NEW x \in Steps, Goto(c, x),
           file'["xray"] = file["xray"]
    PROVE  UNCHANGED <<Cached, Answers>>
<1>1. x # "idle" /\ pc' = [pc EXCEPT ![c] = x] /\ res' = res
  BY DEF Goto, Steps
<1> QED
  BY <1>1, SameCached, SameAnswers DEF InstallInv

LEMMA RenameServes ==
    ASSUME ~XrayFirst, InstallInv, InstallInv', Unanswered,
           NEW c \in Callers, RenameTemp(c)
    PROVE  Cache!Serve(c) \/ UNCHANGED <<Cached, Answers>>
<1> DEFINE f == target[c]
<1>1. pc[c] # "idle" /\ f \in Files
  BY DEF RenameTemp, Written, InstallInv, TypeOK
<1>2. CASE Return(c, "ok")
  BY <1>1, <1>2, ReturnServes
<1>3. CASE Following(f)[1] # "done" /\ Goto(c, Following(f)[1])
  <2>1. f # "xray"
    BY <1>3, EntryFacts DEF Following, Downloads
  <2>2. file'["xray"] = file["xray"]
    BY <2>1 DEF RenameTemp, InstallInv, TypeOK
  <2>3. Following(f)[1] \in Steps
    BY <1>1, <1>3, ConstantTypes DEF Following, Steps, Files, Entries
  <2> QED
    BY <1>1, <1>3, <2>2, <2>3, InnerStep
<1> QED
  BY <1>2, <1>3 DEF RenameTemp

LEMMA EnsureServes ==
    ASSUME ~XrayFirst, InstallInv, InstallInv', Unanswered, NEW c \in Callers, Ensure(c)
    PROVE  \/ Cache!Ask(c) \/ Cache!Refuse(c) \/ Cache!Serve(c)
           \/ UNCHANGED <<Cached, Answers>>
<1>1. CASE Call(c)
  <2>1. Cached' = Cached
    BY <1>1, SameCached DEF Call, InstallInv, disk
  <2>2. /\ pc[c] = "idle" /\ res[c] = "none" /\ res' = res
        /\ \A d \in Callers : pc'[d] = IF d = c THEN "waiting" ELSE pc[d]
    BY <1>1 DEF Call, InstallInv, TypeOK
  <2>3. Answers[c] = "none"
    BY <2>2 DEF Answers
  <2>4. Answers' = [d \in Callers |-> IF d = c THEN "pending" ELSE Answers[d]]
    BY <2>2 DEF Answers
  <2>5. Answers' = [Answers EXCEPT ![c] = "pending"]
    BY <2>4 DEF Answers
  <2> QED
    BY <2>1, <2>3, <2>5 DEF Cache!Ask, Cache!Answer
<1>2. CASE Enter(c)
  <2>1. PICK x \in {"pinned", "resolve"} : pc' = [pc EXCEPT ![c] = x]
    BY <1>2 DEF Enter
  <2>2. pc[c] # "idle" /\ x # "idle" /\ res' = res /\ file' = file
    BY <1>2, <2>1 DEF Enter, disk
  <2> QED
    BY <2>1, <2>2, SameCached, SameAnswers DEF InstallInv
<1>3. CASE CopyChunk(c)
  <2>1. Cached' = Cached
    BY <1>3, SameCached DEF CopyChunk, InstallInv
  <2> QED
    BY <1>3, <2>1 DEF CopyChunk, Answers
<1>4. CASE OpenTemp(c) \/ OpenArchive(c)
  <2>1. pc[c] # "idle" /\ file' = file /\ (Goto(c, "write") \/ Goto(c, "open"))
    BY <1>4 DEF OpenTemp, OpenArchive, disk
  <2>2. "write" \in Steps /\ "open" \in Steps
    BY DEF Steps
  <2> QED
    BY <2>1, <2>2, InnerStep
<1>5. CASE \/ CheckPinned(c) \/ Resolve(c) \/ ResolveFails(c)
           \/ CheckCached(c) \/ WriteFails(c)
           \/ ReadDigest(c) \/ VerifyFile(c) \/ OpenArchiveFails(c)
  <2>1. /\ pc[c] # "idle" /\ UNCHANGED disk
        /\ Return(c, "ok") \/ Return(c, "failed") \/ \E x \in Steps : Goto(c, x)
    BY <1>5 DEF CheckPinned, Resolve, ResolveFails, CheckCached, WriteFails,
                ReadDigest, VerifyFile, OpenArchiveFails, Steps
  <2>2. file' = file
    BY <2>1 DEF disk
  <2> QED
    BY <2>1, <2>2, ReturnServes, InnerStep
<1> QED
  BY <1>1, <1>2, <1>3, <1>4, <1>5, RenameServes DEF Ensure

LEMMA CrashInterrupts ==
    ASSUME ~XrayFirst, InstallInv, InstallInv', NEW p \in Processes, Crash(p)
    PROVE  \E C \in SUBSET Callers : Cache!Interrupt(C)
<1> DEFINE C == {c \in Callers : ProcessOf[c] = p}
<1>1. Cached' = Cached
  BY SameCached DEF Crash, InstallInv, disk
<1>2. \A c \in Callers : IF c \in C THEN res'[c] = "none" /\ pc'[c] = "idle"
                        ELSE res'[c] = res[c] /\ pc'[c] = pc[c]
  BY DEF Crash, Leave
<1> HIDE DEF C
<1>3. Answers' = [c \in Callers |-> IF c \in C THEN "none" ELSE Answers[c]]
  BY <1>2 DEF Answers
<1>4. Cache!Interrupt(C)
  BY <1>1, <1>3 DEF Cache!Interrupt
<1> QED
  BY <1>4 DEF C

\* Installing is atomic to the callers: in one program, and if the data files are
\* the first in the archive, every step is one of the contract's or changes
\* nothing they can see, however the callers interleave, fail and are killed.
THEOREM Implements == OneProgram /\ ~XrayFirst => (Spec => ImplementsCache)
<1> SUFFICES ASSUME OneProgram, ~XrayFirst PROVE Spec => ImplementsCache
  OBVIOUS
<1>1. Init => Cache!Init /\ Unanswered
  BY DEF Init, Cache!Init, Cached, Answers, Executable, Files, Unanswered
<1>2. InstallInv /\ Unanswered /\ [Next]_vars => InstallInv' /\ Unanswered'
  BY InvStep, UnansweredStep DEF InstallInv
<1>3. InstallInv /\ InstallInv' /\ Unanswered /\ [Next]_vars
        => [Cache!Next]_<<Cached, Answers>>
  <2> SUFFICES ASSUME InstallInv, InstallInv', Unanswered, [Next]_vars
               PROVE  Cache!Next \/ UNCHANGED <<Cached, Answers>>
    OBVIOUS
  <2>1. CASE UNCHANGED vars
    BY <2>1 DEF vars, disk, Cached, Answers, Executable, Intact
  <2> QED
    BY <2>1, EnsureServes, CrashInterrupts DEF Next, Served, Cache!Next
<1> QED
  BY <1>1, <1>2, <1>3, InvInit, PTL DEF Spec, ImplementsCache, Cache!Spec
=============================================================================
