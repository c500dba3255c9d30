---------------------------- MODULE CoreInstall ----------------------------
(***************************************************************************)
(* core.Manager.Ensure on the directory of one release: callers in one or  *)
(* several processes that share the cache look for an executable core,     *)
(* and otherwise download the archive, check its digest and extract it.    *)
(*                                                                         *)
(* A file is an inode with NumChunks chunks; a path refers to an inode.    *)
(* Every file f of the directory has one temporary path (f + ".download"   *)
(* or f + ".tmp"), the same for all callers, and inodes pass only from the *)
(* one to the other, so each file's inodes are numbered apart.  ensureMu   *)
(* is held by one caller of a process; processes share only the files.     *)
(***************************************************************************)
EXTENDS Naturals, FiniteSets

CONSTANTS
    Callers,        \* concurrent calls of Ensure
    Processes,      \* programs that use the cache
    ProcessOf,      \* ProcessOf[c]: the program caller c belongs to
    NumChunks,      \* chunks a file is written in
    Inodes,         \* numbers of inodes, enough for every path and descriptor
    Bodies,         \* what a download may bring: "good" (the release's bytes)
                    \* or "bad" (the bytes of something else)
    HasDigest,      \* the release API gives the archive's digest; otherwise
                    \* the ".dgst" asset is downloaded
    XrayFirst,      \* the archive lists the binary before its data files
    MaxCrashes      \* bound on the crashes of programs

None == 0           \* no inode

ASSUME InstallAssumption ==
    /\ ProcessOf \in [Callers -> Processes]
    /\ NumChunks \in Nat \ {0}
    /\ Inodes \subseteq Nat \ {None} /\ None \notin Callers
    /\ Bodies \subseteq {"good", "bad"}
    /\ HasDigest \in BOOLEAN /\ XrayFirst \in BOOLEAN
    /\ MaxCrashes \in Nat

Chunks == 1..NumChunks
Files == {"archive", "digest", "xray", "dat"}
FirstEntry == IF XrayFirst THEN "xray" ELSE "dat"
LastEntry == IF XrayFirst THEN "dat" ELSE "xray"
Downloads == {"archive", "digest"}

VARIABLES
    file,           \* file[f]: the inode at path f, or None
    temp,           \* temp[f]: the inode at f's temporary path, or None
    content,        \* content[f][i][k]: "hole", "good" or "bad"
    mutex,          \* mutex[p]: the caller that holds ensureMu in p
    pc,             \* pc[c]: where Ensure is for caller c
    pinned,         \* pinned[c]: a version was requested, not "latest"
    target,         \* target[c]: the file being written
    fd,             \* fd[c]: the inode being written
    off,            \* off[c]: chunks written so far
    body,           \* body[c]: the bytes the server sends, for a download
    src,            \* src[c]: the open archive, for an extraction
    res,            \* res[c]: what its Ensure returned
    crashes

disk == <<file, temp, content>>
files == <<target, fd, off, body, src>>
call == <<pinned, files>>
vars == <<disk, mutex, pc, call, res, crashes>>

Bytes == {"hole", "good", "bad"}
Steps == {"pinned", "resolve", "cached", "open", "write", "digest", "verify",
          "unzip"}

\* The type invariant.
TypeOK ==
    /\ file \in [Files -> Inodes \cup {None}]
    /\ temp \in [Files -> Inodes \cup {None}]
    /\ content \in [Files -> [Inodes -> [Chunks -> Bytes]]]
    /\ mutex \in [Processes -> Callers \cup {None}]
    /\ pc \in [Callers -> Steps \cup {"idle", "waiting"}]
    /\ pinned \in [Callers -> BOOLEAN]
    /\ target \in [Callers -> Files]
    /\ fd \in [Callers -> Inodes \cup {None}]
    /\ off \in [Callers -> 0..NumChunks]
    /\ body \in [Callers -> {"good", "bad"}]
    /\ src \in [Callers -> Inodes \cup {None}]
    /\ res \in [Callers -> {"none", "ok", "failed"}]
    /\ crashes \in 0..MaxCrashes

Filled(b) == [k \in Chunks |-> b]
Intact(f) == file[f] # None /\ content[f][file[f]] = Filled("good")

Init ==
    /\ file = [f \in Files |-> None] /\ temp = [f \in Files |-> None]
    /\ content = [f \in Files |-> [i \in Inodes |-> Filled("hole")]]
    /\ mutex = [p \in Processes |-> None]
    /\ pc = [c \in Callers |-> "idle"]
    /\ pinned = [c \in Callers |-> FALSE]
    /\ target = [c \in Callers |-> "archive"]
    /\ fd = [c \in Callers |-> None] /\ off = [c \in Callers |-> 0]
    /\ body = [c \in Callers |-> "good"]
    /\ src = [c \in Callers |-> None]
    /\ res = [c \in Callers |-> "none"]
    /\ crashes = 0

-----------------------------------------------------------------------------
(* Entering and leaving Ensure.                                            *)

\* os.Stat: the name is there; its mode is set before the name is.
Executable == file["xray"] # None

NoLock(c) == TRUE                           \* bug: no ensureMu
LockFree(c) == mutex[ProcessOf[c]] = None

\* Ensure is called, once in the life of a caller (a command or a request);
\* the wait for ensureMu ignores the context.
Call(c) ==
    /\ pc[c] = "idle" /\ res[c] = "none"
    /\ pc' = [pc EXCEPT ![c] = "waiting"]
    /\ UNCHANGED <<disk, mutex, call, res, crashes>>

Enter(c) ==
    /\ pc[c] = "waiting" /\ LockFree(c)
    /\ mutex' = [mutex EXCEPT ![ProcessOf[c]] = c]
    /\ \E v \in BOOLEAN :
        /\ pinned' = [pinned EXCEPT ![c] = v]
        /\ pc' = [pc EXCEPT ![c] = IF v THEN "pinned" ELSE "resolve"]
    /\ UNCHANGED <<disk, files, res, crashes>>

Unlocked(p, C) == IF mutex[p] \in C THEN None ELSE mutex[p]

\* Ensure returns: open files are closed, ensureMu is unlocked.
Leave(C) ==
    /\ mutex' = [p \in Processes |-> Unlocked(p, C)]
    /\ pc' = [c \in Callers |-> IF c \in C THEN "idle" ELSE pc[c]]
    /\ target' = [c \in Callers |-> IF c \in C THEN "archive" ELSE target[c]]
    /\ fd' = [c \in Callers |-> IF c \in C THEN None ELSE fd[c]]
    /\ off' = [c \in Callers |-> IF c \in C THEN 0 ELSE off[c]]
    /\ body' = [c \in Callers |-> IF c \in C THEN "good" ELSE body[c]]
    /\ src' = [c \in Callers |-> IF c \in C THEN None ELSE src[c]]
    /\ UNCHANGED pinned

Return(c, outcome) ==
    /\ Leave({c})
    /\ res' = [res EXCEPT ![c] = outcome]
    /\ UNCHANGED crashes

Goto(c, label) ==
    /\ pc' = [pc EXCEPT ![c] = label]
    /\ UNCHANGED <<mutex, pinned, res, crashes>>

\* A pinned version that is cached needs no network.
CheckPinned(c) ==
    /\ pc[c] = "pinned"
    /\ \/ Executable /\ Return(c, "ok")
       \/ ~Executable /\ Goto(c, "resolve") /\ UNCHANGED files
    /\ UNCHANGED disk

Resolve(c) ==
    /\ pc[c] = "resolve"
    /\ Goto(c, "cached")
    /\ UNCHANGED <<disk, files>>

\* GitHub refuses or has no such release: "latest" falls back to a core that
\* is installed.  A release without a fitting asset fails whatever is there.
ResolveFails(c) ==
    /\ pc[c] = "resolve"
    /\ \/ Return(c, "failed")
       \/ ~pinned[c] /\ Executable /\ Return(c, "ok")
    /\ UNCHANGED disk

CheckCached(c) ==
    /\ pc[c] = "cached"
    /\ \/ Executable /\ Return(c, "ok")
       \/ ~Executable /\ Goto(c, "open") /\ UNCHANGED files
    /\ UNCHANGED disk

-----------------------------------------------------------------------------
(* Writing a file through its temporary path: download and extractBinary.  *)

Opened(f) == {fd[c] : c \in {d \in Callers : target[d] = f}}
             \cup IF f = "archive" THEN {src[c] : c \in Callers} ELSE {}
Free(f) == Inodes \ (Opened(f) \cup {file[f], temp[f]})

\* Which free inode a new file gets makes no difference: the lowest.
Fresh(f) == {i \in Free(f) : \A j \in Free(f) : i <= j}

\* O_CREATE|O_TRUNC: an existing temporary file is emptied, whoever writes it.
OpenTemp(c) ==
    /\ pc[c] = "open"
    /\ LET f == target[c]
       IN  \E i \in IF temp[f] # None THEN {temp[f]} ELSE Fresh(f) :
            /\ temp' = [temp EXCEPT ![f] = i]
            /\ content' = [content EXCEPT ![f][i] = Filled("hole")]
            /\ fd' = [fd EXCEPT ![c] = i]
    /\ off' = [off EXCEPT ![c] = 0]
    /\ \E b \in IF target[c] \in Downloads THEN Bodies ELSE {"good"} :
        body' = [body EXCEPT ![c] = b]
    /\ Goto(c, "write")
    /\ UNCHANGED <<file, target, src>>

RemainingOffByOne(c) == off[c] <= NumChunks \* bug: one chunk too many
Remaining(c) == off[c] < NumChunks

\* The bytes copied; the zip reader's CRC-32 stops an extraction from an
\* archive that is not of one piece.
Source(c) == IF target[c] \in Downloads THEN {body[c]}
             ELSE {b \in {"good", "bad"} :
                    content["archive"][src[c]] = Filled(b)}

\* io.Copy writes the next chunk at the writer's own offset.
CopyChunk(c) ==
    /\ pc[c] = "write" /\ Remaining(c)
    /\ \E b \in Source(c) :
        content' = [content EXCEPT ![target[c]][fd[c]][off[c] + 1] = b]
    /\ off' = [off EXCEPT ![c] = @ + 1]
    /\ UNCHANGED <<file, temp, mutex, pc, pinned, target, fd, body, src, res,
                   crashes>>

\* Bug: a download that fails is tried again and again.
RetryForever(c) ==
    /\ pc[c] \in {"open", "write"}
    /\ Goto(c, "open") /\ UNCHANGED <<disk, target, fd, off, body, src>>

\* Bug: a data file that cannot be extracted is skipped.
DataOptional(c) ==
    /\ pc[c] = "open" /\ target[c] = "dat"
    /\ Goto(c, "open")
    /\ target' = [target EXCEPT ![c] = "xray"]
    /\ UNCHANGED <<disk, fd, off, body, src>>

\* The request, the copy, the close or the rename fails, which is all that is
\* left when another program has renamed the file already.  What is at the
\* temporary path stays.
WriteFails(c) ==
    /\ pc[c] \in {"open", "write"}
    /\ Return(c, "failed") /\ UNCHANGED disk

\* What follows a file that is in place: the label and the next target.
Following(f) ==
    CASE f = "archive" /\ HasDigest -> <<"verify", f>>
      [] f = "archive" /\ ~HasDigest -> <<"open", "digest">>
      [] f = "digest" -> <<"digest", f>>
      [] f = FirstEntry -> <<"open", LastEntry>>
      [] OTHER -> <<"done", f>>

EarlyRename(c) == pc[c] = "write"           \* bug: renamed before it is closed
Written(c) == pc[c] = "write" /\ off[c] = NumChunks

\* os.Rename moves whatever is at the temporary path now; the replaced inode
\* is gone unless somebody has it open.
RenameTemp(c) ==
    /\ Written(c)
    /\ temp[target[c]] # None
    /\ file' = [file EXCEPT ![target[c]] = temp[target[c]]]
    /\ temp' = [temp EXCEPT ![target[c]] = None]
    /\ content' = IF file[target[c]] \in Opened(target[c]) \cup {None} THEN content
                  ELSE [content EXCEPT ![target[c]][file[target[c]]]
                            = Filled("hole")]
    /\ LET next == Following(target[c])
       IN  \/ /\ next[1] = "done"
              /\ Return(c, "ok")
           \/ /\ next[1] # "done"
              /\ Goto(c, next[1])
              /\ target' = [target EXCEPT ![c] = next[2]]
              /\ fd' = [fd EXCEPT ![c] = None]
              /\ off' = [off EXCEPT ![c] = 0]
              /\ body' = [body EXCEPT ![c] = "good"]
              /\ UNCHANGED src

-----------------------------------------------------------------------------
(* Checking the archive and opening it.                                    *)

\* A digest file with anything but the release's digest in it fails, here or
\* in the comparison; so does one that cannot be read.  A wrong one that agrees
\* with a wrong archive, which would pass, is left out.
ReadDigest(c) ==
    /\ pc[c] = "digest"
    /\ \/ Intact("digest") /\ Goto(c, "verify") /\ UNCHANGED files
       \/ Return(c, "failed")
    /\ UNCHANGED disk

AnyBytes == TRUE                            \* bug: the digest is not compared
DigestMatches == Intact("archive")

VerifyFile(c) ==
    /\ pc[c] = "verify"
    /\ \/ DigestMatches /\ Goto(c, "unzip") /\ UNCHANGED files
       \/ Return(c, "failed")
    /\ UNCHANGED disk

\* zip.OpenReader opens the path again.
OpenArchive(c) ==
    /\ pc[c] = "unzip"
    /\ src' = [src EXCEPT ![c] = file["archive"]]
    /\ target' = [target EXCEPT ![c] = FirstEntry]
    /\ Goto(c, "open")
    /\ UNCHANGED <<disk, fd, off, body>>

\* The archive cannot be read.
OpenArchiveFails(c) ==
    /\ pc[c] = "unzip"
    /\ Return(c, "failed") /\ UNCHANGED disk

Ensure(c) ==
    \/ Call(c) \/ Enter(c)
    \/ CheckPinned(c) \/ Resolve(c) \/ ResolveFails(c) \/ CheckCached(c)
    \/ OpenTemp(c) \/ CopyChunk(c) \/ WriteFails(c)
    \/ RenameTemp(c)
    \/ ReadDigest(c) \/ VerifyFile(c) \/ OpenArchive(c) \/ OpenArchiveFails(c)

\* A program is killed in the middle of anything and may be started again; the
\* disk, and what the kernel holds of it, stays.
Crash(p) ==
    /\ crashes < MaxCrashes
    /\ crashes' = crashes + 1
    /\ Leave({c \in Callers : ProcessOf[c] = p})
    /\ res' = [c \in Callers |-> IF ProcessOf[c] = p THEN "none" ELSE res[c]]
    /\ UNCHANGED disk

\* Everybody was served.
Served == (\A c \in Callers : res[c] # "none") /\ UNCHANGED vars

Next ==
    \/ \E c \in Callers : Ensure(c)
    \/ \E p \in Processes : Crash(p)
    \/ Served

Spec == Init /\ [][Next]_vars

-----------------------------------------------------------------------------
(* Properties.                                                             *)

\* A core that the cache offers has every byte of the release: Ensure never
\* trusts more than the file's name, so a damaged one would be used for ever.
ExecutableIsIntact == Executable => Intact("xray")

\* A core that the cache offers came with its data files: nothing downloads
\* them later.
ExecutableHasData == Executable => Intact("dat")

\* Ensure says "ok" only of a core that can be run.
ReadyIsIntact == \A c \in Callers : res[c] = "ok" => Intact("xray")

\* A core that was offered once stays: no later call, failed or interrupted,
\* takes it away or damages it.
OfferedStays == [][Executable => Executable' /\ Intact("xray")']_vars

\* The directory and the calls as their users see them: a core that is offered
\* and lacks anything is neither nothing nor the core.
Cached ==
    IF ~Executable THEN "nothing"
    ELSE IF Intact("xray") /\ Intact("dat") THEN "core" ELSE "damaged"
Answers ==
    [c \in Callers |-> IF res[c] = "none" /\ pc[c] # "idle" THEN "pending" ELSE res[c]]

Cache == INSTANCE CacheContract WITH cache <- Cached, answer <- Answers

\* All the writing, checking and renaming is one step to the users: the whole
\* core appears at once, with the call that succeeds, or not at all.
ImplementsCache == Cache!Spec

\* Scheduling: a call in progress goes on (the HTTP client has a timeout, a
\* copy ends), and sync.Mutex does not starve a caller that waits.
FairSpec ==
    /\ Spec
    /\ \A c \in Callers : WF_vars(Ensure(c) /\ pc[c] \notin {"idle", "waiting"})
    /\ \A c \in Callers : SF_vars(Enter(c))

\* Every call of Ensure returns: ensureMu is given back on every path.
CallReturns == \A c \in Callers : pc[c] = "waiting" ~> pc[c] = "idle"
=============================================================================
