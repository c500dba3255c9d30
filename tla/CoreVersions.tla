---------------------------- MODULE CoreVersions ----------------------------
(***************************************************************************)
(* Which Xray-core a command runs: the pinned, the default or the latest   *)
(* release.  Commands (xrayprobe test, core install, core use) are programs*)
(* of their own that share the cache: the installed cores and the file     *)
(* default-core, which SetCurrent replaces through default-core.tmp.       *)
(*                                                                         *)
(* A release is its place in the order of publication.  The installation   *)
(* of one release is a step here; CoreInstall is about its inside.         *)
(***************************************************************************)
EXTENDS Naturals, FiniteSets

CONSTANTS
    NumReleases,    \* releases GitHub will have published in the end
    Prereleases,    \* those marked as prerelease or draft
    NameRank,       \* NameRank[v]: place of v's tag among the sorted names
    TagLength,      \* TagLength[v]: bytes of v's tag
    Commands,       \* commands, each run once
    Inodes,         \* enough for both paths and every open file
    OneWriter,      \* "core install" and "core use" are not run side by side
    MaxCrashes      \* bound on the commands that are killed

Versions == 1..NumReleases
Latest == 0                 \* "latest"; a default-core that names nothing
Mixed == NumReleases + 1    \* a tag with the end of a longer one behind it
None == 0

ASSUME VersionAssumption ==
    /\ NumReleases \in Nat \ {0}
    /\ Prereleases \subseteq Versions
    /\ NameRank \in [Versions -> Nat]
    /\ \A v, w \in Versions : NameRank[v] = NameRank[w] => v = w
    /\ TagLength \in [Versions -> Nat]
    /\ Inodes \subseteq Nat \ {None} /\ None \notin Commands
    /\ OneWriter \in BOOLEAN
    /\ MaxCrashes \in Nat

VARIABLES
    published,      \* releases published so far: 1..published
    installed,      \* releases with an executable in the cache
    default,        \* the inode at default-core, or None
    temp,           \* the inode at default-core.tmp, or None
    text,           \* text[i]: a release, Latest (nothing) or Mixed
    pc,             \* pc[c]: where command c is
    kind,           \* kind[c]: "test", "bare" (a test without --core-version)
                    \* or "set" (core install, core use)
    want,           \* want[c]: the version requested of Ensure
    got,            \* got[c]: the version Ensure returned
    seen,           \* seen[c]: `published` when c read the release list
    fd,             \* fd[c]: the inode SetCurrent writes
    res,            \* res[c]: how the command ended
    owner,          \* history: the command whose rename made default-core
    last,           \* history: the command that reported success as a setter
                    \* last
    crashes

cache == <<installed, default, temp, text>>
command == <<kind, want, got, seen, fd>>
history == <<owner, last>>
vars == <<published, cache, pc, command, res, history, crashes>>

Steps == {"start", "current", "pinned", "list", "install", "open", "write",
          "rename", "report", "end"}
Requests == Versions \cup {Latest, Mixed}

\* The type invariant.
TypeOK ==
    /\ published \in 0..NumReleases
    /\ installed \subseteq Versions
    /\ default \in Inodes \cup {None} /\ temp \in Inodes \cup {None}
    /\ text \in [Inodes -> Requests]
    /\ pc \in [Commands -> Steps]
    /\ kind \in [Commands -> {"test", "bare", "set"}]
    /\ want \in [Commands -> Requests]
    /\ got \in [Commands -> Versions \cup {None}]
    /\ seen \in [Commands -> 0..NumReleases]
    /\ fd \in [Commands -> Inodes \cup {None}]
    /\ res \in [Commands -> {"none", "ok", "failed", "killed"}]
    /\ owner \in Commands \cup {None} /\ last \in Commands \cup {None}
    /\ crashes \in 0..MaxCrashes

Init ==
    /\ published \in 0..NumReleases
    /\ installed = {} /\ default = None /\ temp = None
    /\ text = [i \in Inodes |-> Latest]
    /\ pc = [c \in Commands |-> "start"]
    /\ kind = [c \in Commands |-> "test"]
    /\ want = [c \in Commands |-> Latest]
    /\ got = [c \in Commands |-> None]
    /\ seen = [c \in Commands |-> 0]
    /\ fd = [c \in Commands |-> None]
    /\ res = [c \in Commands |-> "none"]
    /\ owner = None /\ last = None /\ crashes = 0

-----------------------------------------------------------------------------
(* The end of a command.                                                   *)

End(c, outcome) ==
    /\ pc' = [pc EXCEPT ![c] = "end"]
    /\ res' = [res EXCEPT ![c] = outcome]
    /\ fd' = [fd EXCEPT ![c] = None]
    /\ UNCHANGED crashes

Fail(c) == End(c, "failed") /\ UNCHANGED <<kind, want, got, history>>

Goto(c, label) ==
    pc' = [pc EXCEPT ![c] = label] /\ UNCHANGED <<res, history, crashes>>

\* Ensure returns v: "core install" and "core use" make it the default.
Ready(c, v) ==
    /\ got' = [got EXCEPT ![c] = v]
    /\ UNCHANGED <<kind, want>>
    /\ \/ kind[c] # "set" /\ End(c, "ok") /\ UNCHANGED history
       \/ kind[c] = "set" /\ Goto(c, "open") /\ UNCHANGED fd

-----------------------------------------------------------------------------
(* Ensure.                                                                 *)

\* "core install" and "core use" give a version or "latest"; only a test may
\* leave it to the default.
Start(c) ==
    /\ pc[c] = "start"
    /\ \/ /\ kind' = [kind EXCEPT ![c] = "bare"]
          /\ Goto(c, "current") /\ UNCHANGED want
       \/ \E k \in {"test", "set"}, w \in Versions \cup {Latest} :
            /\ kind' = [kind EXCEPT ![c] = k]
            /\ want' = [want EXCEPT ![c] = w]
            /\ Goto(c, "pinned")
    /\ UNCHANGED <<published, cache, got, seen, fd>>

Current == IF default = None THEN Latest ELSE text[default]

\* An error of the read is ignored: the request stays empty, like "latest".
ReadCurrent(c) ==
    /\ pc[c] = "current"
    /\ \E w \in {Current, Latest} : want' = [want EXCEPT ![c] = w]
    /\ Goto(c, "pinned")
    /\ UNCHANGED <<published, cache, kind, got, seen, fd>>

\* A pinned version that is installed needs no network.
CheckPinned(c) ==
    /\ pc[c] = "pinned"
    /\ \/ /\ want[c] \in installed
          /\ Ready(c, want[c])
       \/ /\ want[c] \notin installed
          /\ Goto(c, "list") /\ UNCHANGED <<kind, want, got, fd>>
    /\ UNCHANGED <<published, cache, seen>>

AnyRelease == 1..published                  \* bug: prereleases count
Candidates == (1..published) \ Prereleases

\* Bug: "latest" is looked for among the tags.
LatestIsTag(c) == IF published = 0 THEN {} ELSE {want[c]}

\* The first release of the list that fits the request, newest first.
Matching(c) ==
    IF want[c] = Latest
    THEN {v \in Candidates : \A u \in Candidates : u <= v}
    ELSE {want[c]} \cap (1..published)

\* GitHub answers.  The release is there: it is used if it is installed, and
\* installed otherwise.
ListReleases(c) ==
    /\ pc[c] = "list"
    /\ seen' = [seen EXCEPT ![c] = published]
    /\ \E v \in Matching(c) :
        \/ /\ v \in installed
           /\ Ready(c, v)
        \/ /\ v \notin installed
           /\ got' = [got EXCEPT ![c] = v]
           /\ Goto(c, "install") /\ UNCHANGED <<kind, want, fd>>
    /\ UNCHANGED <<published, cache>>

\* sort.Strings puts the names in order; the search starts at the last.
ByDate(S) == {v \in S : \A u \in S : u <= v}
LastByName(S) == {v \in S : \A u \in S : NameRank[u] <= NameRank[v]}

MayFallBack(c) == want[c] = Latest /\ installed # {}

\* GitHub refuses, or has nothing that fits.
ResolveFails(c) ==
    /\ pc[c] = "list"
    /\ \/ MayFallBack(c) /\ \E v \in LastByName(installed) : Ready(c, v)
       \/ ~MayFallBack(c) /\ Fail(c)
    /\ UNCHANGED <<published, cache, seen>>

\* No asset fits the platform, or the list names none.
NoAsset(c) ==
    /\ pc[c] = "list" /\ Matching(c) # {}
    /\ seen' = [seen EXCEPT ![c] = published]
    /\ Fail(c)
    /\ UNCHANGED <<published, cache>>

Install(c) ==
    /\ pc[c] = "install"
    /\ installed' = installed \cup {got[c]}
    /\ Ready(c, got[c])
    /\ UNCHANGED <<published, default, temp, text, seen>>

\* Bug: an error of the installation is ignored.
ErrorIgnored(c) ==
    /\ pc[c] = "install"
    /\ Ready(c, got[c])
    /\ UNCHANGED <<published, cache, seen>>

InstallFails(c) ==
    /\ pc[c] = "install"
    /\ Fail(c)
    /\ UNCHANGED <<published, cache, seen>>

-----------------------------------------------------------------------------
(* SetCurrent: stateMu is local to a program, the temporary file is not.   *)

Opened == {fd[c] : c \in Commands}
Free == Inodes \ (Opened \cup {default, temp})

\* The temporary file, which inode a new one gets makes no difference.
Target == IF temp # None THEN {temp}
          ELSE {i \in Free : \A j \in Free : i <= j}

\* Between the open of the temporary file and the report.
MidSet(c) == pc[c] \in {"write", "rename", "report"}

\* Bug: the file is not truncated.
NoTruncation(c) ==
    /\ pc[c] = "open"
    /\ OneWriter => \A d \in Commands : ~MidSet(d)
    /\ \E i \in Target : temp' = i /\ fd' = [fd EXCEPT ![c] = i]
    /\ Goto(c, "write")
    /\ UNCHANGED <<published, installed, default, text, kind, want, got, seen>>

\* os.WriteFile opens the file with O_TRUNC.
OpenTemp(c) ==
    /\ pc[c] = "open"
    /\ OneWriter => \A d \in Commands : ~MidSet(d)
    /\ \E i \in Target :
        /\ temp' = i
        /\ text' = [text EXCEPT ![i] = Latest]
        /\ fd' = [fd EXCEPT ![c] = i]
    /\ Goto(c, "write")
    /\ UNCHANGED <<published, installed, default, kind, want, got, seen>>

\* What a tag leaves of the longer text it is written over (the last byte of
\* that is a line feed, which the reader trims).
Over(old, v) == IF old \in Versions /\ TagLength[old] > TagLength[v] + 1
                THEN Mixed ELSE v

WriteTemp(c) ==
    /\ pc[c] = "write"
    /\ text' = [text EXCEPT ![fd[c]] =
                    IF @ = Mixed THEN Mixed ELSE Over(@, got[c])]
    /\ fd' = [fd EXCEPT ![c] = None]
    /\ Goto(c, "rename")
    /\ UNCHANGED <<published, installed, default, temp, kind, want, got, seen>>

RenameTemp(c) ==
    /\ pc[c] = "rename" /\ temp # None
    /\ default' = temp /\ temp' = None
    /\ text' = IF default \in Opened \cup {None} THEN text
               ELSE [text EXCEPT ![default] = Latest]
    /\ pc' = [pc EXCEPT ![c] = "report"]
    /\ owner' = c
    /\ UNCHANGED <<published, installed, command, res, last, crashes>>

\* "installed Xray-core v" or "using v" is printed, some time after the rename.
Report(c) ==
    /\ pc[c] = "report"
    /\ End(c, "ok") /\ last' = c
    /\ UNCHANGED <<published, cache, kind, want, got, seen, owner>>

\* The file cannot be written or renamed, or another program renamed it.
SetFails(c) ==
    /\ pc[c] \in {"open", "write", "rename"}
    /\ Fail(c)
    /\ UNCHANGED <<published, cache, seen>>

Do(c) ==
    \/ Start(c) \/ ReadCurrent(c) \/ CheckPinned(c)
    \/ ListReleases(c) \/ ResolveFails(c) \/ NoAsset(c)
    \/ Install(c) \/ InstallFails(c)
    \/ OpenTemp(c) \/ WriteTemp(c) \/ RenameTemp(c) \/ Report(c) \/ SetFails(c)

-----------------------------------------------------------------------------
(* The environment.                                                        *)

Publish ==
    /\ published < NumReleases
    /\ published' = published + 1
    /\ UNCHANGED <<cache, pc, command, res, history, crashes>>

\* A command is killed in the middle of anything.
Crash(c) ==
    /\ crashes < MaxCrashes /\ pc[c] \notin {"start", "end"}
    /\ crashes' = crashes + 1
    /\ pc' = [pc EXCEPT ![c] = "end"]
    /\ res' = [res EXCEPT ![c] = "killed"]
    /\ fd' = [fd EXCEPT ![c] = None]
    /\ UNCHANGED <<published, cache, kind, want, got, seen, history>>

Done == (\A c \in Commands : pc[c] = "end") /\ UNCHANGED vars

Next ==
    \/ \E c \in Commands : Do(c) \/ Crash(c)
    \/ Publish
    \/ Done

Spec == Init /\ [][Next]_vars

-----------------------------------------------------------------------------
(* Properties.                                                             *)

\* default-core names an installed core, whatever was killed or failed: the
\* tests that rely on it start without the network.
DefaultIsInstalled == Current \in installed \cup {Latest}

\* The success of a command is about the version that was asked for: the
\* pinned one, or the newest stable release of the list it read.
RightVersion ==
    \A c \in Commands : res[c] = "ok" =>
        /\ got[c] \in installed
        /\ want[c] \in Versions => got[c] = want[c]
        /\ want[c] = Latest /\ seen[c] # 0 =>
            got[c] \notin Prereleases
            /\ \A v \in (1..seen[c]) \ Prereleases : v <= got[c]

\* "using v": whatever is killed between the open of default-core.tmp and the
\* report, the default is a version as a whole, and it is the one reported
\* last unless a later command has renamed its own and is about to report it,
\* or was killed before it could.
UsingIsCurrent ==
    /\ owner # None => Current = got[owner]
    /\ owner # last => pc[owner] = "report" \/ res[owner] = "killed"

-----------------------------------------------------------------------------
(* Expectations the code does not meet (README).                           *)

\* README: '"latest" falls back to the newest core already installed'.
FallbackIsNewest ==
    [][\A c \in Commands :
        pc[c] = "list" /\ got'[c] # None /\ seen'[c] = 0
        => got'[c] \in ByDate(installed)]_vars

\* README: without --core-version "XrayProbe asks the GitHub API for the
\* release list each run"; a test is not served before.
AsksEachRun ==
    [][\A c \in Commands :
        kind[c] = "bare" /\ pc[c] = "pinned" => res'[c] # "ok"]_vars
=============================================================================
