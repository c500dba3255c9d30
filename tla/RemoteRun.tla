----------------------------- MODULE RemoteRun -----------------------------
(***************************************************************************)
(* Requests for one remote target.  Each has an ssh session of its own:    *)
(* the bootstrap script asks the xrayprobe that is there for its version,  *)
(* installs the client's release over it if it is another, and executes    *)
(* what is there then as the worker.  All sessions share that one file.    *)
(*                                                                         *)
(* An end of the local ssh (deadline, lost connection) does not end the    *)
(* session, and Run returns only when all that holds the outputs of ssh    *)
(* has closed them.  The inside of a worker's test is TestBatch's.  The    *)
(* target runs Linux: install(1) is GNU's.                                 *)
(***************************************************************************)
EXTENDS Naturals, FiniteSets

CONSTANTS
    Requests,
    Slots,          \* --max-concurrent-tests of the client
    Versions,       \* releases of xrayprobe
    Client,         \* Client[r]: the release of the client of r
    Old,            \* the file that is there at first
    Chunks,         \* a binary is copied in that many steps
    MaxReboots,     \* bound on the reboots of the target
    None

ASSUME RemoteAssumption ==
    /\ Old \notin Requests /\ None \notin Requests \cup {Old} /\ None \notin Versions
    /\ Slots \in Nat \ {0} /\ Chunks \in Nat \ {0} /\ MaxReboots \in Nat
    /\ Client \in [Requests -> Versions]

Files == Requests \cup {Old}    \* the inode each installation creates

VARIABLES
    bin,        \* the inode at ~/.local/bin/xrayprobe, or None
    files,      \* the inodes: release, chunks written, executable, authentic
    stage,      \* stage[r]: where the session of r is
    script,     \* script[r]: install.sh as curl printed it
    archive,    \* archive[r]: the downloaded archive
    worker,     \* worker[r]: the inode the session executed as the worker
    response,   \* response[r]: what the worker has to say
    answer,     \* answer[r]: what Run returned
    reboots

host == <<bin, files>>
session == <<stage, script, archive, worker, response>>
vars == <<host, session, answer, reboots>>

Installer == {"download", "verify", "install", "create", "copy", "chmod", "core"}
Stages == Installer \cup {"idle", "connect", "check", "fetch", "exec", "testing",
                          "writing", "done", "failed"}

\* The type invariant.
TypeOK ==
    /\ bin \in Files \cup {None}
    /\ files \in [Files -> [version : Versions, size : 0..Chunks, exec : BOOLEAN,
                            authentic : BOOLEAN]]
    /\ stage \in [Requests -> Stages]
    /\ script \in [Requests -> {"none", "cut", "whole"}]
    /\ archive \in [Requests -> {"none", "altered", "authentic"}]
    /\ worker \in [Requests -> Files \cup {None}]
    /\ response \in [Requests -> {"none", "results", "error"}]
    /\ answer \in [Requests -> {"none", "waiting", "lost", "ok", "error", "deadline"}]
    /\ reboots \in 0..MaxReboots

Binary(v, n) == [version |-> v, size |-> n, exec |-> n = Chunks, authentic |-> TRUE]

Init ==
    /\ \E v \in Versions, old \in {Old, None} :
        /\ bin = old
        /\ files = [f \in Files |-> Binary(v, IF f = old THEN Chunks ELSE 0)]
    /\ stage = [r \in Requests |-> "idle"]
    /\ script = [r \in Requests |-> "none"]
    /\ archive = [r \in Requests |-> "none"]
    /\ worker = [r \in Requests |-> None]
    /\ response = [r \in Requests |-> "none"]
    /\ answer = [r \in Requests |-> "none"]
    /\ reboots = 0

-----------------------------------------------------------------------------
(* The target's kernel.                                                    *)

\* A file that is open for writing is not executed (ETXTBSY).
OpenForWriting(f) == f \in Requests /\ stage[f] = "copy"
Runs(f) == f # None /\ files[f].exec /\ ~OpenForWriting(f)
Intact(f) == files[f].size = Chunks /\ files[f].authentic

At(r, s) == stage[r] = s
Goto(r, s) == stage' = [stage EXCEPT ![r] = s]
Fails(r) == Goto(r, "failed")   \* the session ends with a status other than 0

-----------------------------------------------------------------------------
(* The client: Runner.Run.                                                 *)

Waiting(r) == answer[r] = "waiting"
Answer(r, a) == answer' = [answer EXCEPT ![r] = a]

\* withSlot: a request keeps its slot until Run returns.
Holds(r) == answer[r] \in {"waiting", "lost"}

\* withSlot and cmd.Start.
Call(r) ==
    /\ At(r, "idle")
    /\ Cardinality({q \in Requests : Holds(q)}) < Slots
    /\ Answer(r, "waiting") /\ Goto(r, "connect")
    /\ UNCHANGED <<host, script, archive, worker, response, reboots>>

Connect(r) ==
    /\ At(r, "connect") /\ Waiting(r)
    /\ Goto(r, "check")
    /\ UNCHANGED <<host, script, archive, worker, response, answer, reboots>>

\* Without a connection there is no session.
Leave(r) == IF At(r, "connect") THEN Fails(r) ELSE UNCHANGED stage

\* ssh cannot connect, loses the connection, or is killed by CommandContext
\* because requestCtx is over.  Run goes on waiting for the outputs (there is no
\* WaitDelay), which a process that ssh has started may hold open.
SshEnds(r) ==
    /\ Waiting(r) /\ Answer(r, "lost") /\ Leave(r)
    /\ UNCHANGED <<host, script, archive, worker, response, reboots>>

\* The outputs are closed; the error is the context's if it is over by now.
GiveUp(r) ==
    /\ answer[r] = "lost"
    /\ Answer(r, "error") \/ Answer(r, "deadline")
    /\ UNCHANGED <<host, session, reboots>>

\* Bug: the Error field of the response is not looked at.
ErrorOverlooked(r) == At(r, "done")
Succeeded(r) == At(r, "done") /\ response[r] = "results"

\* ssh has exited with the session's status; an output beyond the limit is an
\* error of the copy.
Return(r) ==
    /\ Waiting(r) /\ stage[r] \in {"done", "failed"}
    /\ \/ Succeeded(r) /\ Answer(r, "ok")
       \/ Answer(r, "error")
    /\ UNCHANGED <<host, session, reboots>>

-----------------------------------------------------------------------------
(* The session: bootstrapScript.                                           *)

\* What `$bin version` prints; errors are ignored.
Reported == IF Runs(bin) /\ Intact(bin) THEN files[bin].version ELSE None

\* Bug: any xrayprobe that runs will do.
AnyRelease(r) == Reported # None
UpToDate(r) == Reported = Client[r]

CheckCurrent(r) ==
    /\ At(r, "check")
    /\ Goto(r, IF UpToDate(r) THEN "exec" ELSE "fetch")
    /\ UNCHANGED <<host, script, archive, worker, response, answer, reboots>>

\* `sh -c "$(curl ...)"`: a curl that fails is no error of sh; the script is
\* what was printed until then, or nothing.
FetchScript(r) ==
    /\ At(r, "fetch")
    /\ \/ /\ \E s \in {"cut", "whole"} : script' = [script EXCEPT ![r] = s]
          /\ Goto(r, "download")
       \/ Fails(r) /\ UNCHANGED script      \* the target has no curl
    /\ UNCHANGED <<host, archive, worker, response, answer, reboots>>

\* A cut script ends where it was cut, between two commands or inside one.
CutShort(r) ==
    /\ script[r] = "cut" /\ stage[r] \in {"download", "verify", "install", "core"}
    /\ Goto(r, "exec") \/ Fails(r)
    /\ UNCHANGED <<host, script, archive, worker, response, answer, reboots>>

\* Bug: the old binary is removed, with a line about it, before the new one is
\* installed.
PrintsMore == {"fetch", "download", "verify", "install", "create", "core"}
Prints == {"fetch", "download", "verify", "install", "core"}

\* Without its client a session ends at the next line it prints.
BrokenPipe(r) ==
    /\ answer[r] \in {"lost", "error", "deadline"} /\ stage[r] \in Prints
    /\ Fails(r)
    /\ UNCHANGED <<host, script, archive, worker, response, answer, reboots>>

\* exec: the worker reads the request and is a program of its own from then on.
Exec(r) ==
    /\ At(r, "exec")
    /\ IF Runs(bin)
       THEN worker' = [worker EXCEPT ![r] = bin] /\ Goto(r, "testing")
       ELSE Fails(r) /\ UNCHANGED worker
    /\ UNCHANGED <<host, script, archive, response, answer, reboots>>

-----------------------------------------------------------------------------
(* The session: install.sh.                                                *)

\* The release may not exist (a client built locally is "dev").
Download(r) ==
    /\ At(r, "download")
    /\ \/ /\ \E a \in {"altered", "authentic"} : archive' = [archive EXCEPT ![r] = a]
          /\ Goto(r, "verify")
       \/ Fails(r) /\ UNCHANGED archive
    /\ UNCHANGED <<host, script, worker, response, answer, reboots>>

\* Bug: the digest is not compared.
AnyDigest(r) == TRUE
DigestMatches(r) == archive[r] = "authentic"

\* The digest is wrong, or the archive cannot be unpacked, or neither.
Verify(r) ==
    /\ At(r, "verify")
    /\ (DigestMatches(r) /\ Goto(r, "install")) \/ Fails(r)
    /\ UNCHANGED <<host, script, archive, worker, response, answer, reboots>>

\* install(1) removes the file that is there, ...
Unlink(r) ==
    /\ At(r, "install")
    /\ bin' = None /\ Goto(r, "create")
    /\ UNCHANGED <<files, script, archive, worker, response, answer, reboots>>

\* ... creates a new one that is not executable (O_EXCL), ...
Create(r) ==
    /\ At(r, "create")
    /\ IF bin = None
       THEN /\ bin' = r
            /\ files' = [files EXCEPT ![r] =
                    [version |-> Client[r], size |-> 0, exec |-> FALSE,
                     authentic |-> archive[r] = "authentic"]]
            /\ Goto(r, "copy")
       ELSE Fails(r) /\ UNCHANGED host
    /\ UNCHANGED <<script, archive, worker, response, answer, reboots>>

\* Bug: a read too many.
AtEndLate(r) == files[r].size = Chunks
AtEnd(r) == files[r].size + 1 = Chunks

\* ... copies, ...
Copy(r) ==
    /\ At(r, "copy")
    /\ files' = [files EXCEPT ![r].size = @ + 1]
    /\ Goto(r, IF AtEnd(r) THEN "chmod" ELSE "copy")
    /\ UNCHANGED <<bin, script, archive, worker, response, answer, reboots>>

\* ... and makes executable what has the name by then.
Chmod(r) ==
    /\ At(r, "chmod")
    /\ IF bin # None
       THEN files' = [files EXCEPT ![bin].exec = TRUE] /\ Goto(r, "core")
       ELSE Fails(r) /\ UNCHANGED files
    /\ UNCHANGED <<bin, script, archive, worker, response, answer, reboots>>

\* `core install latest`, whose failure is a warning, and `core current`, whose
\* failure ends the script; else this is its end.
InstallCore(r) ==
    /\ At(r, "core")
    /\ Goto(r, "exec") \/ Fails(r)
    /\ UNCHANGED <<host, script, archive, worker, response, answer, reboots>>

-----------------------------------------------------------------------------
(* The worker: remoteWorkerCommand.                                        *)

Test(r) ==
    /\ At(r, "testing")
    /\ \E s \in {"results", "error"} : response' = [response EXCEPT ![r] = s]
    /\ Goto(r, "writing")
    /\ UNCHANGED <<host, script, archive, worker, answer, reboots>>

\* It is another release without this command, or it is killed.
WorkerDies(r) ==
    /\ At(r, "testing") /\ Fails(r)
    /\ UNCHANGED <<host, script, archive, worker, response, answer, reboots>>

\* Without a client the write fails, and the status is 3.
Write(r) ==
    /\ At(r, "writing")
    /\ Goto(r, IF Waiting(r) THEN "done" ELSE "failed")
    /\ UNCHANGED <<host, script, archive, worker, response, answer, reboots>>

\* All sessions end; the disk stays.
Reboot ==
    /\ reboots < MaxReboots
    /\ reboots' = reboots + 1
    /\ stage' = [r \in Requests |->
                    IF stage[r] \in {"idle", "connect", "done"} THEN stage[r] ELSE "failed"]
    /\ UNCHANGED <<host, script, archive, worker, response, answer>>

\* Everything has ended.
Ended ==
    /\ \A r \in Requests : stage[r] \in {"done", "failed"} /\ ~Holds(r)
    /\ UNCHANGED vars

ClientStep(r) == Call(r) \/ Connect(r) \/ SshEnds(r) \/ GiveUp(r) \/ Return(r)
Bootstrap(r) == CheckCurrent(r) \/ FetchScript(r) \/ CutShort(r) \/ BrokenPipe(r) \/ Exec(r)
Install(r) ==
    Download(r) \/ Verify(r) \/ Unlink(r) \/ Create(r) \/ Copy(r) \/ Chmod(r) \/ InstallCore(r)
Worker(r) == Test(r) \/ WorkerDies(r) \/ Write(r)

Next ==
    \/ \E r \in Requests : ClientStep(r) \/ Bootstrap(r) \/ Install(r) \/ Worker(r)
    \/ Reboot \/ Ended

Spec == Init /\ [][Next]_vars

-----------------------------------------------------------------------------
(* Properties.                                                             *)

OneRelease == \A q, r \in Requests : Client[q] = Client[r]

\* Whatever the sessions do to the file at the same time, with a script that
\* arrived whole (or was not needed) the worker is the verified binary of a
\* release, from its first byte to its last, also when the target was
\* rebooted in an installation.  If all clients are of one release, it is theirs.
WorkerIsRelease ==
    \A r \in Requests : worker[r] # None /\ script[r] # "cut" =>
        Intact(worker[r]) /\ (OneRelease => files[worker[r]].version = Client[r])

\* The installations leave the target with an xrayprobe that runs, although
\* each removes the file first and gives up when another has created it.
NobodyInstalls == \A r \in Requests : stage[r] \notin {"create", "copy", "chmod"}
HostUsable ==
    reboots = 0 /\ NobodyInstalls /\ (\E f \in Files : files[f].exec)
        => Runs(bin) /\ Intact(bin)

\* An answer without an error is that of a worker that tested to its end and
\* had none: a failed bootstrap never looks like a result.
OkIsTested ==
    \A r \in Requests : answer[r] = "ok" => worker[r] # None /\ response[r] = "results"

-----------------------------------------------------------------------------
(* Expectations the code does not meet (README).                           *)

\* README.md:136: "Remote bootstrap installs the exact tagged XrayProbe
\* release on the target before running `remote-worker`."
ExactRelease ==
    \A r \in Requests : worker[r] # None => files[worker[r]].version = Client[r]

\* --max-concurrent-tests: a target has no more workers than the client slots.
TargetBounded == Cardinality({r \in Requests : At(r, "testing")}) <= Slots
=============================================================================
