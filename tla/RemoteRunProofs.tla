--------------------------- MODULE RemoteRunProofs ---------------------------
(***************************************************************************)
(* Proofs about RemoteRun, for any number of requests, slots, releases and *)
(* reboots: an answer is that of a worker, a worker is a release, and the  *)
(* target keeps an xrayprobe that runs.                                    *)
(***************************************************************************)
EXTENDS RemoteRun, TLAPS

LEMMA ConstantTypes ==
    /\ Old \notin Requests /\ None \notin Requests /\ None # Old
    /\ None \notin Versions
    /\ Chunks \in Nat /\ Chunks > 0 /\ MaxReboots \in Nat
    /\ Client \in [Requests -> Versions]
BY RemoteAssumption

\* Every step of a request.
Step(r) ==
    ClientStep(r) \/ Bootstrap(r) \/ Install(r) \/ Worker(r)

\* Every step, for case analysis.
LEMMA StepCases ==
    ASSUME [Next]_vars
    PROVE  (\E r \in Requests : Step(r)) \/ Reboot \/ UNCHANGED vars
BY DEF Next, Step, Ended

-----------------------------------------------------------------------------
(* The type invariant.                                                     *)

LEMMA TypeInit == Init => TypeOK
<1> SUFFICES ASSUME Init PROVE TypeOK
  OBVIOUS
<1>1. \A v \in Versions, n \in {0, Chunks} :
        Binary(v, n) \in [version : Versions, size : 0..Chunks, exec : BOOLEAN,
                          authentic : BOOLEAN]
  BY ConstantTypes DEF Binary
<1>2. files \in [Files -> [version : Versions, size : 0..Chunks, exec : BOOLEAN,
                           authentic : BOOLEAN]]
  BY <1>1 DEF Init
<1> QED
  BY <1>2, ConstantTypes DEF Init, TypeOK, Files, Stages

\* Who copies has not come to the end.
Copying == \A r \in Requests : At(r, "copy") => files[r].size < Chunks

LEMMA MadeExecutable ==
    ASSUME NEW R, NEW B, NEW record \in [version : Versions, size : R, exec : BOOLEAN,
                                        authentic : B]
    PROVE  [record EXCEPT !.exec = TRUE] \in
               [version : Versions, size : R, exec : BOOLEAN, authentic : B]
OBVIOUS

LEMMA TypeStep == TypeOK /\ Copying /\ [Next]_vars => TypeOK'
<1> SUFFICES ASSUME TypeOK, Copying, [Next]_vars PROVE TypeOK'
  OBVIOUS
<1> USE ConstantTypes DEF TypeOK, Files, Stages, Installer, Goto, Fails, At
<1>1. ASSUME NEW r \in Requests, ClientStep(r) PROVE TypeOK'
  <2>1. CASE Call(r) \/ Connect(r)
    BY <2>1 DEF Call, Connect, Answer, host, session
  <2>2. CASE SshEnds(r)
    BY <2>2 DEF SshEnds, Answer, Leave, host, session
  <2>3. CASE GiveUp(r) \/ Return(r)
    BY <2>3 DEF GiveUp, Return, Answer, host, session
  <2> QED
    BY <1>1, <2>1, <2>2, <2>3 DEF ClientStep
<1>2. ASSUME NEW r \in Requests, Bootstrap(r) PROVE TypeOK'
  <2>1. CASE CheckCurrent(r)
    BY <2>1 DEF CheckCurrent, host
  <2>2. CASE FetchScript(r)
    <3>1. script' \in [Requests -> {"none", "cut", "whole"}]
      BY <2>2 DEF FetchScript
    <3>2. stage' \in [Requests -> Stages]
      BY <2>2 DEF FetchScript
    <3> QED
      BY <2>2, <3>1, <3>2 DEF FetchScript, host
  <2>3. CASE CutShort(r) \/ BrokenPipe(r)
    BY <2>3 DEF CutShort, BrokenPipe, host
  <2>4. CASE Exec(r)
    BY <2>4 DEF Exec, Runs, host
  <2> QED
    BY <1>2, <2>1, <2>2, <2>3, <2>4 DEF Bootstrap
<1>3. ASSUME NEW r \in Requests, Install(r) PROVE TypeOK'
  <2>1. CASE Download(r)
    <3>1. archive' \in [Requests -> {"none", "altered", "authentic"}]
      BY <2>1 DEF Download
    <3>2. stage' \in [Requests -> Stages]
      BY <2>1 DEF Download
    <3> QED
      BY <2>1, <3>1, <3>2 DEF Download, host
  <2>2. CASE Verify(r)
    BY <2>2 DEF Verify, host
  <2>3. CASE Unlink(r) \/ InstallCore(r)
    BY <2>3 DEF Unlink, InstallCore, host
  <2>4. CASE Create(r) /\ bin = None
    <3> DEFINE new == [version |-> Client[r], size |-> 0, exec |-> FALSE,
                       authentic |-> archive[r] = "authentic"]
    <3>1. new \in [version : Versions, size : 0..Chunks, exec : BOOLEAN,
                   authentic : BOOLEAN]
      OBVIOUS
    <3>2. files' = [files EXCEPT ![r] = new] /\ bin' = r /\ Goto(r, "copy")
      BY <2>4 DEF Create
    <3> HIDE DEF new
    <3> QED
      BY <2>4, <3>1, <3>2 DEF Create
  <2>5. CASE Create(r) /\ bin # None
    BY <2>5 DEF Create, host
  <2>6. CASE Copy(r)
    <3>1. files[r].size + 1 \in 0..Chunks
      BY <2>6 DEF Copy, Copying
    <3>2. files' \in [Requests \cup {Old} -> [version : Versions, size : 0..Chunks,
                                              exec : BOOLEAN, authentic : BOOLEAN]]
      BY <2>6, <3>1 DEF Copy
    <3>3. stage' \in [Requests -> Stages]
      BY <2>6 DEF Copy
    <3> QED
      BY <2>6, <3>2, <3>3 DEF Copy
  <2>7. CASE Chmod(r)
    <3>1. CASE bin # None
      <4> DEFINE new == [files[bin] EXCEPT !.exec = TRUE]
      <4>1. new \in [version : Versions, size : 0..Chunks, exec : BOOLEAN,
                     authentic : BOOLEAN]
        <5>1. files[bin] \in [version : Versions, size : 0..Chunks, exec : BOOLEAN,
                              authentic : BOOLEAN]
          BY <3>1
        <5> QED
          BY <5>1, MadeExecutable
      <4>2. files' = [files EXCEPT ![bin] = new] /\ Goto(r, "core")
        BY <2>7, <3>1 DEF Chmod
      <4> HIDE DEF new
      <4> QED
        BY <2>7, <4>1, <4>2 DEF Chmod
    <3>2. CASE bin = None
      BY <2>7, <3>2 DEF Chmod
    <3> QED
      BY <3>1, <3>2
  <2> QED
    BY <1>3, <2>1, <2>2, <2>3, <2>4, <2>5, <2>6, <2>7 DEF Install
<1>4. ASSUME NEW r \in Requests, Worker(r) PROVE TypeOK'
  <2>1. CASE Test(r)
    BY <2>1 DEF Test, host
  <2>2. CASE WorkerDies(r)
    BY <2>2 DEF WorkerDies, host
  <2>3. CASE Write(r)
    BY <2>3 DEF Write, host
  <2> QED
    BY <1>4, <2>1, <2>2, <2>3 DEF Worker
<1>5. CASE Reboot
  BY <1>5 DEF Reboot, host
<1>6. CASE UNCHANGED vars
  BY <1>6 DEF vars, host, session
<1> QED
  BY <1>1, <1>2, <1>3, <1>4, <1>5, <1>6, StepCases DEF Step

LEMMA CopyingStep == TypeOK /\ Copying /\ [Next]_vars => Copying'
<1> SUFFICES ASSUME TypeOK, Copying, [Next]_vars PROVE Copying'
  OBVIOUS
<1> USE ConstantTypes DEF TypeOK, Files, Copying, Goto, Fails, At
<1>1. ASSUME NEW r \in Requests, Create(r) PROVE Copying'
  BY <1>1 DEF Create, host
<1>2. ASSUME NEW r \in Requests, Copy(r) PROVE Copying'
  <2>1. files[r].size + 1 \in 0..Chunks
    BY <1>2 DEF Copy
  <2>2. files'[r].size = files[r].size + 1
        /\ \A q \in Requests : q # r => files'[q] = files[q]
    BY <1>2 DEF Copy
  <2>3. stage'[r] = "copy" => files[r].size + 1 # Chunks
    BY <1>2 DEF Copy, AtEnd
  <2>4. \A q \in Requests : q # r => stage'[q] = stage[q]
    BY <1>2 DEF Copy
  <2>5. ASSUME NEW q \in Requests, stage'[q] = "copy" PROVE files'[q].size < Chunks
    <3>1. CASE q = r
      BY <2>1, <2>2, <2>3, <2>5, <3>1
    <3>2. CASE q # r
      BY <2>2, <2>4, <2>5, <3>2
    <3> QED
      BY <3>1, <3>2
  <2> QED
    BY <2>5
<1>3. ASSUME NEW r \in Requests, Chmod(r) PROVE Copying'
  <2>1. \A q \in Requests : files'[q].size = files[q].size
    BY <1>3 DEF Chmod, host
  <2> QED
    BY <1>3, <2>1 DEF Chmod
<1>4. ASSUME files' = files, \A q \in Requests : stage'[q] = "copy" => stage[q] = "copy"
      PROVE  Copying'
  BY <1>4
<1> HIDE DEF Copying
<1>5. ASSUME NEW r \in Requests, ClientStep(r) \/ Bootstrap(r) \/ Worker(r)
      PROVE  Copying'
  BY <1>4, <1>5 DEF ClientStep, Call, Connect, SshEnds, GiveUp, Return, Leave,
       Bootstrap, CheckCurrent, FetchScript, CutShort, BrokenPipe, Exec,
       Worker, Test, WorkerDies, Write, host, session
<1>6. ASSUME NEW r \in Requests, Download(r) \/ Verify(r) \/ Unlink(r) \/ InstallCore(r)
      PROVE  Copying'
  BY <1>4, <1>6 DEF Download, Verify, Unlink, InstallCore, host
<1>7. CASE Reboot \/ UNCHANGED vars
  BY <1>4, <1>7 DEF Reboot, vars, host, session
<1> QED
  BY <1>1, <1>2, <1>3, <1>5, <1>6, <1>7, StepCases DEF Step, Install

LEMMA TypeInvariant == Spec => [](TypeOK /\ Copying)
<1>1. Init => TypeOK /\ Copying
  BY TypeInit DEF Init, Copying, At
<1>2. TypeOK /\ Copying /\ [Next]_vars => (TypeOK /\ Copying)'
  BY TypeStep, CopyingStep
<1> QED
  BY <1>1, <1>2, PTL DEF Spec

\* The state of a target and its requests is what the module says, whatever
\* the sessions do.
THEOREM TypeCorrect == Spec => []TypeOK
BY TypeInvariant, PTL

-----------------------------------------------------------------------------
(* Answers.                                                                *)

SessionInv ==
    \A r \in Requests :
        /\ worker[r] # None => stage[r] \in {"testing", "writing", "done", "failed"}
        /\ stage[r] \in {"testing", "writing", "done"} => worker[r] # None
        /\ answer[r] = "ok" => At(r, "done") /\ response[r] = "results"

LEMMA SessionStep == TypeOK /\ SessionInv /\ [Next]_vars => SessionInv'
<1> SUFFICES ASSUME TypeOK, SessionInv, [Next]_vars PROVE SessionInv'
  OBVIOUS
<1> USE ConstantTypes DEF TypeOK, Files, SessionInv, Goto, Fails, At
<1>1. ASSUME NEW r \in Requests, ClientStep(r) PROVE SessionInv'
  BY <1>1 DEF ClientStep, Call, Connect, SshEnds, GiveUp, Waiting, Return,
              Succeeded, Answer, Leave, session
<1>2. ASSUME NEW r \in Requests, Bootstrap(r) PROVE SessionInv'
  BY <1>2 DEF Bootstrap, CheckCurrent, FetchScript, CutShort, BrokenPipe, Prints, Exec, Runs
<1>3. ASSUME NEW r \in Requests, Install(r) PROVE SessionInv'
  BY <1>3 DEF Install, Download, Verify, Unlink, Create, Copy, Chmod, InstallCore
<1>4. ASSUME NEW r \in Requests, Worker(r) PROVE SessionInv'
  BY <1>4 DEF Worker, Test, WorkerDies, Write
<1>5. CASE Reboot
  BY <1>5 DEF Reboot
<1>6. CASE UNCHANGED vars
  BY <1>6 DEF vars, session
<1> QED
  BY <1>1, <1>2, <1>3, <1>4, <1>5, <1>6, StepCases DEF Step

LEMMA SessionInvariant == Spec => []SessionInv
<1>1. Init => SessionInv
  BY DEF Init, SessionInv, At
<1> QED
  BY <1>1, SessionStep, TypeInvariant, PTL DEF Spec

\* OkIsTested: an answer without an error is that of a worker that tested.
THEOREM Tested == Spec => []OkIsTested
<1>1. SessionInv => OkIsTested
  BY DEF SessionInv, OkIsTested, At
<1> QED
  BY <1>1, SessionInvariant, PTL

-----------------------------------------------------------------------------
(* The file.                                                               *)

Before == {"idle", "connect", "check", "fetch", "download", "verify", "install", "create"}

\* What is copied was verified, and a request's file is there, or executed, only
\* when the request has created it.
FileInv ==
    /\ \A f \in Files : files[f].authentic
    /\ \A r \in Requests : stage[r] \in {"install", "create"} => archive[r] = "authentic"
    /\ \A r \in Requests : bin = r => stage[r] \notin Before
    /\ \A q, r \in Requests : worker[q] = r => stage[r] \notin Before

LEMMA FileStep == TypeOK /\ FileInv /\ [Next]_vars => FileInv'
<1> SUFFICES ASSUME TypeOK, FileInv, [Next]_vars PROVE FileInv'
  OBVIOUS
<1> USE ConstantTypes DEF TypeOK, Files, FileInv, Goto, Fails, At, Before
<1>1. ASSUME NEW r \in Requests, ClientStep(r) PROVE FileInv'
  BY <1>1 DEF ClientStep, Call, Connect, SshEnds, GiveUp, Return, Leave, session, host
<1>2. ASSUME NEW r \in Requests, Bootstrap(r) PROVE FileInv'
  <2>1. CASE CheckCurrent(r) \/ FetchScript(r) \/ CutShort(r) \/ BrokenPipe(r)
    BY <2>1 DEF CheckCurrent, FetchScript, CutShort, BrokenPipe, host
  <2>2. CASE Exec(r)
    <3>1. \A q \in Requests : worker'[q] = worker[q] \/ worker'[q] = bin
      BY <2>2 DEF Exec
    <3>2. \A q \in Requests : stage'[q] \in Before => stage[q] \in Before
      BY <2>2 DEF Exec
    <3>3. UNCHANGED <<bin, files, archive>>
      BY <2>2 DEF Exec, host
    <3>4. \A q \in Requests : stage'[q] \in {"install", "create"} => stage'[q] = stage[q]
      BY <2>2 DEF Exec
    <3> QED
      BY <3>1, <3>2, <3>3, <3>4
  <2> QED
    BY <1>2, <2>1, <2>2 DEF Bootstrap
<1>3. ASSUME NEW r \in Requests, Install(r) PROVE FileInv'
  <2>1. CASE Download(r) \/ Verify(r) \/ Unlink(r) \/ InstallCore(r)
    BY <2>1 DEF Download, Verify, DigestMatches, Unlink, InstallCore, host
  <2>2. CASE Create(r)
    BY <2>2 DEF Create, host
  <2>3. CASE Copy(r)
    BY <2>3 DEF Copy
  <2>4. CASE Chmod(r)
    <3>1. \A f \in Files : files'[f].authentic = files[f].authentic
      BY <2>4 DEF Chmod
    <3>2. \A q \in Requests : stage'[q] \in Before => stage'[q] = stage[q]
      BY <2>4 DEF Chmod
    <3>3. UNCHANGED <<bin, archive, worker>>
      BY <2>4 DEF Chmod, host
    <3> QED
      BY <3>1, <3>2, <3>3
  <2> QED
    BY <1>3, <2>1, <2>2, <2>3, <2>4 DEF Install
<1>4. ASSUME NEW r \in Requests, Worker(r) PROVE FileInv'
  BY <1>4 DEF Worker, Test, WorkerDies, Write, host
<1>5. CASE Reboot
  BY <1>5 DEF Reboot, host
<1>6. CASE UNCHANGED vars
  BY <1>6 DEF vars, session, host
<1> QED
  BY <1>1, <1>2, <1>3, <1>4, <1>5, <1>6, StepCases DEF Step

LEMMA FileInvariant == Spec => []FileInv
<1>1. Init => FileInv
  BY ConstantTypes DEF Init, FileInv, Files, Binary, Before
<1> QED
  BY <1>1, FileStep, TypeInvariant, PTL DEF Spec

-----------------------------------------------------------------------------
(* The release.                                                            *)

Complete(r, f) ==
    files[f].size = Chunks /\ (OneRelease => files[f].version = Client[r])

\* A session whose script is whole, or was not needed, and that is about to
\* execute what has the name.
Pending(r) == stage[r] \in {"create", "copy", "chmod", "core", "exec"} /\ script[r] # "cut"

\* What such a session finds is complete, or another session still writes it:
\* a part of a binary that nobody writes is of before a reboot, which ended all
\* sessions, and who starts after it sees that it does not run.
PendingInv ==
    \A r \in Requests : Pending(r) /\ bin # None =>
        /\ files[bin].size = Chunks \/ OpenForWriting(bin)
        /\ OneRelease => files[bin].version = Client[r]

WorkerInv ==
    \A r \in Requests : worker[r] # None /\ script[r] # "cut" => Complete(r, worker[r])

ReleaseInv == TypeOK /\ Copying /\ SessionInv /\ FileInv /\ PendingInv /\ WorkerInv

LEMMA PendingStep == ReleaseInv /\ [Next]_vars => PendingInv'
<1> SUFFICES ASSUME ReleaseInv, [Next]_vars PROVE PendingInv'
  OBVIOUS
<1> USE ConstantTypes DEF ReleaseInv, TypeOK, Files, PendingInv, Pending, Goto, Fails, At, OpenForWriting
<1>1. ASSUME NEW r \in Requests, ClientStep(r) PROVE PendingInv'
  BY <1>1 DEF ClientStep, Call, Connect, SshEnds, GiveUp, Return, Leave, session, host
<1>2. ASSUME NEW r \in Requests, Bootstrap(r) PROVE PendingInv'
  <2>1. CASE CheckCurrent(r)
    <3>1. stage'[r] = "exec" => Runs(bin) /\ Intact(bin) /\ files[bin].version = Client[r]
      BY <2>1 DEF CheckCurrent, UpToDate, Reported
    <3>2. stage'[r] = "exec" /\ OneRelease =>
            \A q \in Requests : files[bin].version = Client[q]
      BY <3>1 DEF OneRelease
    <3> QED
      BY <2>1, <3>1, <3>2 DEF CheckCurrent, Intact, host
  <2>2. CASE FetchScript(r) \/ CutShort(r) \/ BrokenPipe(r)
    BY <2>2 DEF FetchScript, CutShort, BrokenPipe, Prints, host
  <2>3. CASE Exec(r)
    BY <2>3 DEF Exec, host
  <2> QED
    BY <1>2, <2>1, <2>2, <2>3 DEF Bootstrap
<1>3. ASSUME NEW r \in Requests, Install(r) PROVE PendingInv'
  <2>1. CASE Download(r) \/ Verify(r) \/ Unlink(r) \/ InstallCore(r)
    BY <2>1 DEF Download, Verify, Unlink, InstallCore, host
  <2>2. CASE Create(r) /\ bin = None
    <3>1. bin' = r /\ stage'[r] = "copy" /\ files'[r].version = Client[r]
      BY <2>2 DEF Create
    <3>2. OneRelease => \A q \in Requests : files'[r].version = Client[q]
      BY <3>1 DEF OneRelease
    <3> QED
      BY <2>2, <3>1, <3>2 DEF OneRelease
  <2>3. CASE Create(r) /\ bin # None
    BY <2>3 DEF Create, host
  <2>4. CASE Copy(r)
    <3>1. \A f \in Files : f # r => files'[f] = files[f]
      BY <2>4 DEF Copy
    <3>2. files'[r].version = files[r].version /\ files'[r].size = files[r].size + 1
      BY <2>4 DEF Copy
    <3>3. stage'[r] = "copy" \/ files'[r].size = Chunks
      BY <2>4, <3>2 DEF Copy, AtEnd
    <3>4. \A q \in Requests : q # r => stage'[q] = stage[q]
      BY <2>4 DEF Copy
    <3> QED
      BY <2>4, <3>1, <3>2, <3>3, <3>4 DEF Copy
  <2>5. CASE Chmod(r)
    <3>1. \A f \in Files : files'[f].size = files[f].size /\ files'[f].version = files[f].version
      BY <2>5 DEF Chmod, host
    <3>2. bin \in Requests /\ At(bin, "copy") => At(bin, "copy")'
      BY <2>5 DEF Chmod
    <3> QED
      BY <2>5, <3>1, <3>2 DEF Chmod
  <2> QED
    BY <1>3, <2>1, <2>2, <2>3, <2>4, <2>5 DEF Install
<1>4. ASSUME NEW r \in Requests, Worker(r) PROVE PendingInv'
  BY <1>4 DEF Worker, Test, WorkerDies, Write, host
<1>5. CASE Reboot
  BY <1>5 DEF Reboot, host
<1>6. CASE UNCHANGED vars
  BY <1>6 DEF vars, session, host
<1> QED
  BY <1>1, <1>2, <1>3, <1>4, <1>5, <1>6, StepCases DEF Step

LEMMA WorkerStep == ReleaseInv /\ [Next]_vars => WorkerInv'
<1> SUFFICES ASSUME ReleaseInv, [Next]_vars PROVE WorkerInv'
  OBVIOUS
<1> USE ConstantTypes DEF ReleaseInv, TypeOK, Files, Goto, Fails, At
<1>1. ASSUME UNCHANGED <<files, worker>>,
             \A r \in Requests : worker[r] # None => script'[r] = script[r]
      PROVE  WorkerInv'
  BY <1>1 DEF WorkerInv, Complete
<1>2. ASSUME NEW r \in Requests, ClientStep(r) PROVE WorkerInv'
  BY <1>1, <1>2 DEF ClientStep, Call, Connect, SshEnds, GiveUp, Return, Leave,
                    session, host
<1>3. ASSUME NEW r \in Requests, Bootstrap(r) PROVE WorkerInv'
  <2>1. CASE CheckCurrent(r) \/ CutShort(r) \/ BrokenPipe(r)
    BY <1>1, <2>1 DEF CheckCurrent, CutShort, BrokenPipe, host
  <2>2. CASE FetchScript(r)
    <3>1. worker[r] = None
      BY <2>2 DEF FetchScript, SessionInv
    <3>2. \A q \in Requests : q # r => script'[q] = script[q]
      BY <2>2 DEF FetchScript
    <3> QED
      BY <1>1, <2>2, <3>1, <3>2 DEF FetchScript, host
  <2>3. CASE Exec(r) /\ Runs(bin)
    <3>1. script[r] # "cut" => Complete(r, bin)
      BY <2>3 DEF Exec, Runs, Pending, PendingInv, Complete
    <3>2. worker' = [worker EXCEPT ![r] = bin] /\ UNCHANGED <<files, script>>
      BY <2>3 DEF Exec, host
    <3> QED
      BY <3>1, <3>2 DEF WorkerInv, Complete
  <2>4. CASE Exec(r) /\ ~Runs(bin)
    BY <1>1, <2>4 DEF Exec, host
  <2> QED
    BY <1>3, <2>1, <2>2, <2>3, <2>4 DEF Bootstrap
<1>4. ASSUME NEW r \in Requests, Install(r) PROVE WorkerInv'
  <2>1. CASE Download(r) \/ Verify(r) \/ Unlink(r) \/ InstallCore(r)
    BY <1>1, <2>1 DEF Download, Verify, Unlink, InstallCore, host
  <2>2. CASE Create(r) /\ bin = None
    <3>1. \A q \in Requests : worker[q] # r
      BY <2>2 DEF Create, FileInv, Before
    <3>2. \A f \in Files : f # r => files'[f] = files[f]
      BY <2>2 DEF Create
    <3> QED
      BY <2>2, <3>1, <3>2 DEF Create, WorkerInv, Complete
  <2>3. CASE Create(r) /\ bin # None
    BY <1>1, <2>3 DEF Create, host
  <2>4. CASE Copy(r)
    <3>1. \A f \in Files : f # r => files'[f] = files[f]
      BY <2>4 DEF Copy
    <3>2. files[r].size # Chunks
      BY <2>4 DEF Copy, Copying
    <3> QED
      BY <2>4, <3>1, <3>2 DEF Copy, WorkerInv, Complete
  <2>5. CASE Chmod(r)
    <3>1. \A f \in Files : files'[f].size = files[f].size /\ files'[f].version = files[f].version
      BY <2>5 DEF Chmod, host
    <3> QED
      BY <2>5, <3>1 DEF Chmod, WorkerInv, Complete
  <2> QED
    BY <1>4, <2>1, <2>2, <2>3, <2>4, <2>5 DEF Install
<1>5. ASSUME NEW r \in Requests, Worker(r) PROVE WorkerInv'
  BY <1>1, <1>5 DEF Worker, Test, WorkerDies, Write, host
<1>6. CASE Reboot \/ UNCHANGED vars
  BY <1>1, <1>6 DEF Reboot, vars, session, host
<1> QED
  BY <1>2, <1>3, <1>4, <1>5, <1>6, StepCases DEF Step

LEMMA ReleaseInvariant == Spec => []ReleaseInv
<1>1. Init => PendingInv /\ WorkerInv
  BY DEF Init, PendingInv, Pending, WorkerInv
<1>2. ReleaseInv /\ [Next]_vars => PendingInv' /\ WorkerInv'
  BY PendingStep, WorkerStep
<1>3. ReleaseInv <=> /\ (TypeOK /\ Copying) /\ SessionInv /\ FileInv
                     /\ PendingInv /\ WorkerInv
  BY DEF ReleaseInv
<1> QED
  BY <1>1, <1>2, <1>3, TypeInvariant, SessionInvariant, FileInvariant, PTL DEF Spec

\* WorkerIsRelease: what is executed is a verified binary, whole, and the
\* client's own if all clients have one release.
THEOREM Released == Spec => []WorkerIsRelease
<1>1. ReleaseInv => WorkerIsRelease
  BY ConstantTypes DEF ReleaseInv, TypeOK, FileInv, WorkerInv, WorkerIsRelease, Complete, Intact
<1> QED
  BY <1>1, ReleaseInvariant, PTL

-----------------------------------------------------------------------------
(* The target stays usable.                                                *)

\* Until a reboot, what has the name is whole and executable, or the session
\* that created it is at it; and if nothing has the name and something once
\* ran, a session is about to create it.
HostInv ==
    reboots = 0 =>
        /\ \A r \in Requests : bin = r =>
              /\ At(r, "copy") \/ files[r].size = Chunks
              /\ stage[r] \in {"copy", "chmod"} \/ files[r].exec
        /\ bin = Old => files[Old].size = Chunks /\ files[Old].exec
        /\ bin = None => \/ \E r \in Requests : At(r, "create")
                         \/ \A f \in Files : ~files[f].exec

LEMMA HostStep == TypeOK /\ HostInv /\ [Next]_vars => HostInv'
<1> SUFFICES ASSUME TypeOK, HostInv, [Next]_vars PROVE HostInv'
  OBVIOUS
<1> USE ConstantTypes DEF TypeOK, Files, Goto, Fails, At
<1>1. ASSUME UNCHANGED <<host, reboots>>,
             \A r \in Requests : stage[r] \in {"create", "copy", "chmod"} => stage'[r] = stage[r]
      PROVE  HostInv'
  BY <1>1 DEF HostInv, host
<1>2. ASSUME NEW r \in Requests, ClientStep(r) PROVE HostInv'
  BY <1>1, <1>2 DEF ClientStep, Call, Connect, SshEnds, GiveUp, Return, Leave, session
<1>3. ASSUME NEW r \in Requests, Bootstrap(r) PROVE HostInv'
  BY <1>1, <1>3 DEF Bootstrap, CheckCurrent, FetchScript, CutShort, BrokenPipe, Prints, Exec
<1>4. ASSUME NEW r \in Requests, Install(r) PROVE HostInv'
  <2>1. CASE Download(r) \/ Verify(r) \/ InstallCore(r)
    BY <1>1, <2>1 DEF Download, Verify, InstallCore
  <2>2. CASE Unlink(r)
    BY <2>2 DEF Unlink, HostInv
  <2>3. CASE Create(r) /\ bin = None
    BY <2>3 DEF Create, HostInv
  <2>4. CASE Create(r) /\ bin # None
    BY <2>4 DEF Create, HostInv, host
  <2>5. CASE Copy(r)
    <3>1. \A f \in Files : files'[f].exec = files[f].exec
      BY <2>5 DEF Copy
    <3>2. \A f \in Files : f # r => files'[f] = files[f]
      BY <2>5 DEF Copy
    <3>3. IF files'[r].size = Chunks THEN stage'[r] = "chmod" ELSE stage'[r] = "copy"
      BY <2>5 DEF Copy, AtEnd
    <3>4. \A q \in Requests : q # r => stage'[q] = stage[q]
      BY <2>5 DEF Copy
    <3> QED
      BY <2>5, <3>1, <3>2, <3>3, <3>4 DEF Copy, HostInv
  <2>6. CASE Chmod(r) /\ bin # None
    <3>1. \A f \in Files : files'[f].size = files[f].size
      BY <2>6 DEF Chmod
    <3>2. files'[bin].exec
      BY <2>6 DEF Chmod
    <3>3. \A q \in Requests : q # r => stage'[q] = stage[q]
      BY <2>6 DEF Chmod
    <3> QED
      BY <2>6, <3>1, <3>2, <3>3 DEF Chmod, HostInv
  <2>7. CASE Chmod(r) /\ bin = None
    BY <2>7 DEF Chmod, HostInv, host
  <2> QED
    BY <1>4, <2>1, <2>2, <2>3, <2>4, <2>5, <2>6, <2>7 DEF Install
<1>5. ASSUME NEW r \in Requests, Worker(r) PROVE HostInv'
  BY <1>1, <1>5 DEF Worker, Test, WorkerDies, Write
<1>6. CASE Reboot
  BY <1>6 DEF Reboot, HostInv
<1>7. CASE UNCHANGED vars
  BY <1>1, <1>7 DEF vars, session
<1> QED
  BY <1>2, <1>3, <1>4, <1>5, <1>6, <1>7, StepCases DEF Step

\* HostUsable: install(1) removes the file first and gives up when another
\* session has created it; however many sessions do that at once, the target
\* has an xrayprobe that runs when they have ended.
THEOREM Usable == Spec => []HostUsable
<1>1. Init => HostInv
  <2> SUFFICES ASSUME Init PROVE HostInv
    OBVIOUS
  <2>1. bin \in {Old, None}
    BY DEF Init
  <2>2. \A f \in Files : IF f = bin THEN files[f].size = Chunks /\ files[f].exec
                         ELSE ~files[f].exec
    <3>1. PICK v \in Versions :
            files = [f \in Files |-> Binary(v, IF f = bin THEN Chunks ELSE 0)]
      BY DEF Init
    <3>2. \A n \in {0, Chunks} : Binary(v, n).size = n /\ (Binary(v, n).exec <=> n = Chunks)
      BY DEF Binary
    <3> QED
      BY <3>1, <3>2, ConstantTypes
  <2> QED
    BY <2>1, <2>2, ConstantTypes DEF HostInv, Files
<1>2. HostInv /\ TypeOK /\ FileInv => HostUsable
  <2> SUFFICES ASSUME HostInv, TypeOK, FileInv, reboots = 0, NobodyInstalls,
                      NEW f \in Files, files[f].exec
               PROVE  Runs(bin) /\ Intact(bin)
    BY DEF HostUsable
  <2>1. bin # None
    BY DEF HostInv, NobodyInstalls, At
  <2>2. bin \in Files
    BY <2>1 DEF TypeOK
  <2>3. files[bin].exec /\ files[bin].size = Chunks
    BY <2>2 DEF Files, HostInv, NobodyInstalls, At
  <2> QED
    BY <2>1, <2>2, <2>3 DEF FileInv, NobodyInstalls, Runs, Intact, OpenForWriting
<1> QED
  BY <1>1, <1>2, HostStep, TypeInvariant, FileInvariant, PTL DEF Spec
=============================================================================
