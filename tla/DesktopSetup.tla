---------------------------- MODULE DesktopSetup ----------------------------
(***************************************************************************)
(* `xrayprobe mcp setup claude-desktop`: the configuration of Claude       *)
(* Desktop is read, merged in memory and written over.  os.WriteFile       *)
(* truncates the file before it writes; Claude Desktop, or its user,       *)
(* writes the same file.                                                   *)
(***************************************************************************)
EXTENDS Naturals

CONSTANTS
    Setups, Others, Settings, None,     \* as in SetupContract
    MaxSaves,       \* bound on what others write
    MaxCrashes      \* bound on the setups that are killed

ASSUME SetupAssumption ==
    /\ None \notin Setups
    /\ MaxSaves \in Nat /\ MaxCrashes \in Nat

VARIABLES
    alone,      \* does nobody else write the file while a setup runs?
    file,       \* what is in claude_desktop_config.json
    stage,      \* stage[s]: where setup s is
    root,       \* root[s]: the document in its memory
    result,     \* result[s]: how it ended
    saves,
    crashes,
    \* What happened, for the properties:
    kept,       \* what others put into the file last: servers and settings
    base,       \* base[s]: what of others' was in it when s read it
    late,       \* the setups during which others saved, between read and write
    writes,     \* the number of writes that came to their end
    order,      \* order[s]: which of them was that of s, or 0
    last        \* the setup that said "updated" last

\* What the contract's file is: a truncated one is what is about to be in it.
\* With others that write in between there is no promise.
Nothing ==
    [form |-> "missing", list |-> "absent", servers |-> {}, own |-> None, settings |-> {}]
Promised ==
    IF ~alone THEN Nothing
    ELSE IF \E s \in Setups : stage[s] = "write"
         THEN root[CHOOSE s \in Setups : stage[s] = "write"]
         ELSE file

Config == INSTANCE SetupContract WITH config <- Promised

memory == <<stage, root, result>>
others == <<kept, late>>
entries == <<writes, order, last>>
bounds == <<alone, saves, crashes>>
vars == <<file, memory, base, others, entries, bounds>>

Steps == {"idle", "read", "merge", "open", "write", "report", "end"}
Rests == [servers : SUBSET Others, settings : SUBSET Settings]
Running(s) == stage[s] \notin {"idle", "end"}
\* It has read the file and will write it.
Holding(s) == stage[s] \in {"merge", "open", "write"}

\* The type invariant.
TypeOK ==
    /\ alone \in BOOLEAN /\ file \in Config!Contents
    /\ stage \in [Setups -> Steps]
    /\ root \in [Setups -> Config!Contents]
    /\ result \in [Setups -> {"none", "updated", "refused", "failed", "panicked", "killed"}]
    /\ kept \in Rests /\ base \in [Setups -> Rests] /\ late \in SUBSET Setups
    /\ writes \in Nat /\ order \in [Setups -> Nat] /\ last \in Setups \cup {None}
    /\ saves \in 0..MaxSaves /\ crashes \in 0..MaxCrashes

Rest(content) == [servers |-> content.servers, settings |-> content.settings]
Empty == Config!Blank("empty")
Torn == Config!Blank("torn")

Init ==
    /\ alone \in BOOLEAN
    /\ file \in {c \in Config!Contents : c.own = None}
    /\ kept = Rest(file) /\ late = {}
    /\ stage = [s \in Setups |-> "idle"]
    /\ root = [s \in Setups |-> Config!Blank("object")]
    /\ result = [s \in Setups |-> "none"]
    /\ base = [s \in Setups |-> Rest(file)]
    /\ writes = 0 /\ order = [s \in Setups |-> 0] /\ last = None
    /\ saves = 0 /\ crashes = 0

-----------------------------------------------------------------------------
(* mcpSetupCommand.                                                        *)

Goto(s, step) ==
    stage' = [stage EXCEPT ![s] = step] /\ UNCHANGED result

End(s, outcome) ==
    /\ stage' = [stage EXCEPT ![s] = "end"]
    /\ result' = [result EXCEPT ![s] = outcome]

Ends(s, outcome) == End(s, outcome) /\ UNCHANGED <<file, root, base>>

\* The paths and the interface; on Linux there is no Claude Desktop.
Start(s) ==
    /\ stage[s] = "idle"
    /\ alone => \A t \in Setups : ~Running(t)
    /\ \/ Goto(s, "read") /\ UNCHANGED <<file, root, base>>
       \/ Ends(s, "failed")
    /\ UNCHANGED <<others, entries, bounds>>

-----------------------------------------------------------------------------
(* mcpSetupClaudeDesktop.                                                  *)

\* Bug: a file that cannot be parsed is taken for none.
AnyFile(content) == ~Config!Parses(content)
Missing(content) == content.form = "missing"

\* ReadFile and the first Unmarshal: a file that is no JSON object is refused.
ReadConfig(s) ==
    /\ stage[s] = "read"
    /\ \/ /\ \/ Missing(file) /\ root' = [root EXCEPT ![s] = Config!Blank("object")]
             \/ Config!Parses(file) /\ root' = [root EXCEPT ![s] = file]
          /\ base' = [base EXCEPT ![s] = Rest(file)]
          /\ Goto(s, "merge") /\ UNCHANGED file
       \/ file \in {Empty, Torn} /\ Ends(s, "refused")
       \/ Ends(s, "failed")
    /\ UNCHANGED <<others, entries, bounds>>

\* Bug: null is taken for an object, and stays null.
OnlyNilList(d) == d.list = "null"
\* null makes a nil map of the one it is unmarshalled into.
NilMap(d) == d.form = "null" \/ d.list = "null"

\* Bug: a list of its own replaces the one that is there.
OnlyOwn(d, s) == [d EXCEPT !.list = "object", !.own = s, !.servers = {}]
Entered(d, s) ==
    [form |-> d.form, list |-> "object", servers |-> d.servers, own |-> s,
     settings |-> d.settings]

\* The entry is put into mcpServers and that into the document; an assignment
\* to a nil map panics.  Then MkdirAll.
Merge(s) ==
    /\ stage[s] = "merge"
    /\ \/ /\ ~NilMap(root[s]) /\ root[s].list # "other"
          /\ \/ /\ root' = [root EXCEPT ![s] = Entered(@, s)]
                /\ Goto(s, "open") /\ UNCHANGED <<file, base>>
             \/ Ends(s, "failed")
       \/ NilMap(root[s]) /\ Ends(s, "panicked")
       \/ root[s].list = "other" /\ Ends(s, "refused")
    /\ UNCHANGED <<others, entries, bounds>>

\* WriteFile: the file is truncated, ...
Open(s) ==
    /\ stage[s] = "open"
    /\ \/ file' = Empty /\ Goto(s, "write") /\ UNCHANGED <<root, base>>
       \/ Ends(s, "failed")
    /\ UNCHANGED <<others, entries, bounds>>

\* ... and written, to the end: if somebody else has written since, what was
\* longer may stick out.
InFull(s) ==
    /\ file' = root[s] \/ (file # Empty /\ file' = Torn)
    /\ writes' = writes + 1 /\ order' = [order EXCEPT ![s] = writes + 1]

\* Or not to the end.
InPart == file' \in {file, Torn} /\ UNCHANGED <<writes, order>>

\* An error may come after the last byte too (close).
Write(s) ==
    /\ stage[s] = "write"
    /\ \/ InFull(s) /\ Goto(s, "report")
       \/ (InFull(s) \/ InPart) /\ End(s, "failed")
    /\ UNCHANGED <<root, base, others, last, bounds>>

\* "updated" is printed.
Report(s) ==
    /\ stage[s] = "report"
    /\ End(s, "updated") /\ last' = s
    /\ UNCHANGED <<file, root, base, others, writes, order, bounds>>

-----------------------------------------------------------------------------
(* The environment.                                                        *)

\* A kill in the write leaves the file empty, cut or written.
Crash(s) ==
    /\ Running(s) /\ crashes < MaxCrashes
    /\ crashes' = crashes + 1
    /\ End(s, "killed")
    /\ \/ stage[s] = "write" /\ (InFull(s) \/ InPart)
       \/ stage[s] # "write" /\ UNCHANGED <<file, writes, order>>
    /\ UNCHANGED <<root, base, others, last, alone, saves>>

\* Claude Desktop, or its user, reads the file, changes it and writes it.
Save ==
    /\ saves < MaxSaves /\ saves' = saves + 1
    /\ alone => \A s \in Setups : ~Running(s)
    /\ Config!Parses(Config!Read(file))
    /\ file' \in {c \in Config!Contents : Config!Parses(c) /\ c.own = file.own}
    /\ kept' = Rest(file')
    /\ late' = late \cup {s \in Setups : Holding(s)}
    /\ UNCHANGED <<memory, base, entries, alone, crashes>>

Ended == (\A s \in Setups : stage[s] = "end") /\ UNCHANGED vars

Setup(s) == Start(s) \/ ReadConfig(s) \/ Merge(s) \/ Open(s) \/ Write(s) \/ Report(s)
Next == (\E s \in Setups : Setup(s) \/ Crash(s)) \/ Save \/ Ended

Spec == Init /\ [][Next]_vars

-----------------------------------------------------------------------------
(* Properties.                                                             *)

\* Nothing of others' is lost in silence but what they save between a setup's
\* read and its write.  Whoever else saves when, and wherever setups are killed:
\* as long as the file can be read, what it has of others' is what they put there
\* last, or what a setup had read before they did.  And it has the entry of the
\* setup that said "updated" last, or of one that has written after that.
NoSilentLoss ==
    Config!Parses(file) =>
        /\ Rest(file) = kept \/ \E s \in late : Rest(file) = base[s]
        /\ last # None => file.own # None /\ order[file.own] >= order[last]

\* If nobody else writes while a setup runs, the entry comes in one step for
\* everybody who looks, or the file is visibly lost.
ImplementsMerge == Config!Spec

-----------------------------------------------------------------------------
(* Expectations the code does not meet (README).                           *)

\* main.go:193: "merges an xrayprobe entry into Claude Desktop's mcpServers
\* config".
MergesOrRefuses ==
    \A s \in Setups : stage[s] = "end" => result[s] \in {"updated", "refused", "failed", "killed"}

\* main.go:194: "preserving any other servers or settings already there", those
\* too that come between the read and the write.
NothingOverwritten == Config!Parses(file) => Rest(file) = kept
=============================================================================
