# XrayProbe in TLA+

XrayProbe tests Xray proxy configurations: it downloads Xray-core, starts one
Xray process per configuration on a loopback port, sends HTTPS requests through
it, and turns latency, jitter and success rate into a score. It is a command
line and an MCP server over stdio. This directory holds a model of it: modules
that TLC checks on small instances, and theorems that TLAPS proves for every
value of the constants. Paths below are relative to the repository.

- [The system](#the-system)
- [The modules](#the-modules)
- [The runs](#the-runs)
- [Fairness](#fairness)
- [The proofs](#the-proofs)
- [Expectations the code does not meet](#expectations-the-code-does-not-meet)
- [Not modelled](#not-modelled)
- [Plan](#plan)

## The system

| part | source | state | operations |
|---|---|---|---|
| command line | `cmd/xrayprobe/main.go` | none | `test`, `core list/install/use/current`, `mcp`, `mcp setup`, `remote-worker` |
| MCP server | `internal/mcpserver/server.go` | a semaphore of `--max-concurrent-tests` slots; one context with a deadline per request | `test_xray_config`, `test_xray_subscription`, `get_xrayprobe_status` |
| remote runner | `internal/remote/runner.go` | the targets; one ssh per request | `Run`: bootstrap and start of a worker at the target |
| source loading | `internal/input/input.go` | none; the result is a list of specs | `LoadSource`, `ReadFile` |
| core manager | `internal/core/manager.go` | the cache directory: one directory per release, `default-core`, temporary files; `ensureMu` and `stateMu` in each process | `Ensure`, `Resolve`, `Installed`, `Current`, `SetCurrent` |
| batch runner | `internal/tester/tester.go` | the slice of results, the job channel, the wait group | `Service.Run`, `runOne`, `freePort` |
| config building | `internal/xray/config.go` | none; rewrites the document it is given | `Build` |
| Xray process | `internal/xray/process.go` | a process, its temporary directory, the channel with its exit | `Run`, `waitForPort` |
| probe | `internal/probe/probe.go` | the latencies so far | `Run`, `Score`, `Grade` |
| Gemini check | `internal/probe/gemini.go` | the current page | `Gemini` |
| setup | `cmd/xrayprobe/main.go`, from `mcpSetupCommand` on | Claude Desktop's configuration, which Claude Desktop writes too | read, merge, rewrite |
| installers | `scripts/install.sh`, `install.ps1` | the binary at its place | download, verification, installation |
| ranking and output | `server.go`, `main.go`, `internal/output` | none | the sorted table, the report, the exit code; rendering |

A test takes this way: a request (from a client of the MCP server or from the
command line) → *slot* (server only) → *source* → *core* (`Manager.Ensure`, under
`ensureMu`) → *batch*: a pool of goroutines fed by an unbuffered channel, each
with *build* → *validate* → *start* → *wait for the port* → *probe* → *kill and
reap* → one slot of the results. A request with a target goes over ssh to a
`remote-worker`, which does the same at the other host, and which the session has
installed before if it was not there.

What is shared, and with whom:

- **the slice of results**: between the workers of a batch (one element each) and
  the caller, who reads it after `wg.Wait`;
- **loopback ports**: between all tests of all programs of the host; `freePort`
  releases a port before Xray binds it;
- **the cache directory**: between all programs of the user; `ensureMu` and
  `stateMu` order the goroutines of one program only;
- **`ensureMu`**: between the requests of one server, whatever their deadlines;
- **the binary at a target**: between all ssh sessions of all clients; each may
  replace it while another executes it;
- **Claude Desktop's configuration**: between the setups, Claude Desktop and the
  user;
- **the channel `waitErr`**: one message, for two readers (`waitForPort` and the
  reap after the kill).

What makes it hard to test, and what each part has to get right:

| part | hard behaviour | what makes it correct |
|---|---|---|
| batch runner | workers, dispatcher, cancellation and 9 ways out of `runOne` | each result written once, none after the return; an error means a prefix; a cancelled batch comes back |
| Xray process | a process that hangs, exits early, binds late, survives its kill | nothing left behind, no more processes than workers, an "ok" measured through the own process |
| core installation | a download that is cut or altered, a crash between two renames, two callers, two programs | whatever the cache offers is whole and came with its data files, and stays |
| core versions | a default, a pin and "latest"; GitHub that refuses; setters that are killed | each command runs the version asked for; the default is installed |
| MCP server | slots, deadlines, a mutex without a deadline | no more tests than slots, no slot lost, every call answered |
| probe | a deadline in the middle of the attempts; edges of percentile and score | the status says whether the probes got through; the metrics are in order, the score in range |
| remote runner | several bootstraps of one host, a download that fails inside a command substitution, a session that outlives its ssh, a reboot in the copy | what is executed is a whole release; the host stays usable; only a test that ended is a result |
| setup | a kill in the write, a file that is cut, `null` in places, another writer | nobody else's servers and settings are lost without a trace |
| ranking | failures with scores, equal scores, a limit | nobody lost, nobody twice, the best first |
| source loading | five kinds of source, guesses of "auto", duplicates, a limit | the first occurrences of the links, numbered like the results |
| config building | rules, tags and outbounds the user's document already has; four kinds of links, old and new | the outbound that was selected is the one that is measured, a link is tested with the security it asks for |

`PROJECT.json` lists the hazards line by line.

## The modules

An operator whose comment begins with *Bug:* is no part of a specification. It
stands before the definition it corrupts, as a mistake somebody could make
there; put in its place, it makes TLC refute the property that guards the place.

### TestBatch, BatchContract — `tester.go`, `process.go`

`TestBatch` has a configuration's `runOne` and `xray.Run` as the value of
`stage[s]` and one action per way a step can end: `AllocatePort`, `AllocateFails`
(freePort), `Prepare`, `PrepareFails` (Build, MkdirTemp, WriteFile),
`ValidationPasses/Fails` (`xray run -test`), `StartFails`, `DialSucceeds/Fails` and
`SelectTick/Exited/Cancelled/Deadline` (the loop of waitForPort), `ProbeAttempt` and
`ProbeEnds` (the callback), `ReapExited/Timeout` (the select after `Kill`).
`Finish` is the return with its deferred `RemoveAll` and the write of
`results[spec.Index]`. `Dispatch`, `DispatchCancelled`, `CloseJobs`, `WorkerExits`
and `Return` are Service.Run. The environment binds ports (`XrayBinds`), ends
processes (`XrayExits`), cancels the context and interrupts the program. A timer
is a step that may be taken at any moment.

A port belongs to nobody between `freePort`'s close and the bind of Xray:
`AllocatePort` gives any port on which nobody listens *at that moment*, one that
another test has been given too included, and other programs of the host open and
close listeners as they like (`OtherBinds`, `OtherCloses`). `waitForPort` and the
attempts see whoever listens (`Serving`). The history `taken` has the tests during
which somebody else opened their port.

`BatchContract` is what a caller may rely on: each slot is written at most once,
none after the return; a return without an error has all of them, a return with
the context's error a proper prefix. `TestBatch` implements it under the mapping
`slots <- status`, `phase <- Phase`; TLC checks that and TLAPS proves it.

### CoreInstall, CacheContract — `Ensure` on one release directory

A path refers to an inode, an inode has chunks, and a download or an extraction
opens the temporary path (`O_TRUNC`: the same inode, emptied, if it is there),
copies chunk by chunk, and renames. So the model has the two things a file name
hides: a writer goes on with an inode that was renamed under it, and a second
writer of the same path empties the first one's file. Callers belong to
processes, each with its own `ensureMu`; a crash takes a process's callers and
mutex and leaves the disk. The digest may come from the release or from a
downloaded file, the bytes may be good or bad, and `XrayFirst` is the order of
the archive.

`CacheContract` is what callers see of it: a cache that holds nothing or the core,
and calls that are pending, served or refused. Everything `CoreInstall` does between
two lookups is invisible there, except the last rename, which is `Serve`. Its
mapping gives a core that is offered without one of its bytes or files a value of
its own ("damaged"), which no step of the contract reaches. That is what lets
`CoreVersions` and `McpServer` take the installation of a release for one step.

### CoreVersions — which release, and `default-core`

Commands are programs: a test with or without `--core-version`, and the two
setters `core install` and `core use`. Releases are numbered by publication, have
a rank by *name* (`sort.Strings`) and a length of their tag, which is what a
shorter write over a longer one leaves behind (`Mixed`). `SetCurrent` is
`OpenTemp`, `WriteTemp`, `RenameTemp` on inodes like above, and `Report` is the
line "using ..." after it; a kill may come between the two. `Publish`, a GitHub
that refuses, and `Crash` are the environment. `OneWriter` says that the user does
not run two setters at once.

### McpServer — slots, deadlines and the lock

A request is at `pc[r]`: waiting for a slot, routed, loading, waiting for
`ensureMu`, installing, in the batch, in ssh, reporting, answered. `elapsed[r]`
counts ticks since the call. `Tick` is possible only if nothing is due: a step
that heeds the context (`Heeds`) is due once the context is over, a free slot and a
free lock are due at once, and `Ensure` is due after `MaxHold` ticks (its HTTP
client has a timeout). A tick is longer than the two seconds a killed process is
waited for, and a killed ssh is taken to close its outputs at once (`RemoteRun`
does without that). The inside of the steps is TestBatch's and CoreInstall's.

### ProbeRun — one probe and what is computed of it

The attempts with their callback, the metadata before and the speed sample and
Gemini after them, each if it is asked for, with a deadline that may pass
anywhere. Go's floats are exact fractions: a time is in 1/20 ms (so that the 95th
percentile is an integer), a score is `Points` over `Unit`. `AtRank` is the k-th
smallest by its definition, where the code sorts.

### Ranking, BatchReport — what becomes of the results

`Ranking` has the comparison both callers give to `sort.SliceStable`, the report of
`test_xray_subscription` with its best, results, failures and `truncated`, and the
exit code of the command line. `Sorted` is a definition (an element's place is the
number of those that precede it), not an algorithm, and so are the loops that append
some of the results (`Kept`). `BatchReport` evaluates it on
every outcome of a batch that `TestBatch` reaches, with every score a result may
have, failures included: a dead config has 50 points (below).

### SourceLoading, ConfigBuild, ShareLink — from a source to the outbound

`SourceLoading` has what "auto" guesses (`IsURI`, `LooksLikeJSON`, a URL, a path),
`prepareRemoteSource` in front of it for a remote target, and the loop of
`fromContent`, one turn per action. `ConfigBuild` extends it with `buildJSON` and
with the part of Xray-core that decides what is measured: no tag twice, the
first matching rule, else the first outbound; `Bound` is `applyInterface`. Lines
are model values; a JSON document is its outbounds (tag, eligible or not) and its
rules (do they match the probes, and to which tag).

`ShareLink` is the translation of VLESS, VMess, Trojan and Shadowsocks links, as
operators on a link's parts: what is refused, the outbound (`Outbound`), the
metadata of the result (`Metadata`). `Connection` is what Xray-core makes of the
outbound. `LinkKept` compares it with the link's own words: `SaysTLS`, `SaysReality`
and `SaysPlain` are what a link *says*, not what `parseShareLink` defaults to, and
the four parts are the server (`ServerKept`), the security (`SecurityKept`), the
name and the pin (`IdentityKept`), and what the result tells of it
(`ReportedRight`). About a link that says nothing of its security `LinkKept`
says only that the result reports what was done; what such a link implies, and
what is lost if the security is spelled "TLS", are in the table below. Strings are
values, so that what tells links apart is which parts are there: the form of the
credentials, IPv6 or not, a port that is absent, 0 or too big, the old and the new
parameter for TLS, the two names of the pin. Which addresses, ports and names there
are is a constant.
ConfigBuild evaluates `LinkKept` for all of them (`EveryLinkKept`).

### RemoteRun — `Runner.Run`, the bootstrap script, `install.sh`

A request has a client's side (`Call`, `Connect`, `SshEnds`, `GiveUp`, `Return`:
`cmd.Start`, `cmd.Wait` and the context) and a session at the target
(`stage[r]`), which have only ssh in common: a client that is gone leaves the
session running until it prints (`BrokenPipe`) or writes its answer (`Write`).
`SshEnds` is an ssh that fails or that `CommandContext` kills; `Run` has no
`WaitDelay`, so it goes on waiting until the outputs are closed, which is a step of
its own (`GiveUp`) that nothing makes happen.
`CheckCurrent`, `FetchScript`, `CutShort` and `Exec` are `bootstrapScript`; a `curl`
that fails inside `sh -c "$(...)"` is a script that is cut or empty, not an error.
`Download`, `Verify`, `InstallCore` are `install.sh`, with `Unlink`, `Create`, `Copy`
and `Chmod` for install(1), which is not the repository's: it removes, creates with
`O_EXCL`, copies and changes the mode *by name*. `Runs` is the kernel's: what is
open for writing is not executed. `Test`, `WorkerDies` and `Write` are
`remoteWorkerCommand`. All sessions share `bin`, the inode at the name. `Reboot` ends
them and leaves the disk. A full disk is left out: `cp` fails there and leaves what
a reboot in the copy leaves. The target runs Linux: Darwin's install(1), which
`install.sh` (line 38) may meet too, replaces a file in another way.

### DesktopSetup, SetupContract — Claude Desktop's configuration

`Start`, `ReadConfig`, `Merge`, `Open`, `Write` and `Report` are
`mcpSetupClaudeDesktop`, where `os.WriteFile` is the truncation (`Open`) and the
write (in full or in part), and `Report` the line "updated" after it. A configuration is what
`json.Unmarshal` tells apart: missing, empty, torn, `null`, or an object whose
`mcpServers` is absent, `null`, an object or something else; with the other servers
and the settings that are in it. `Crash` kills a setup anywhere, with the file
unchanged, cut or written in full if it was in the write. `Save` is everybody else
who writes the file, which they read, change and write in one step, keeping the
entry. The behaviours of both kinds are in one specification: `alone`, chosen in the
beginning, says that nobody else writes while a setup runs and that setups take
turns; otherwise they write at any time. The histories `kept`, `base` and `late` say
what others put there last, what each setup read, and who was overtaken in between;
`order` numbers the writes that came to their end.

`SetupContract` is the promise: the entry comes in one step with everything else
kept, or the file is lost in a way that shows. `DesktopSetup` implements it under a
mapping that looks ahead: while a setup is between truncation and write, `config` is
the document it is about to write. There is no promise if `alone` is false, and the
mapping is constant then.

## The runs

`MC*.tla` give the constants' helpers, `MC*.cfg` the values. All bounds are
constants of the modules (`MaxCrashes`, `MaxReboots`, `MaxSaves`, `TakenBound`,
`MaxLines`, `MaxOutbounds`, `MaxRules`, `Inodes`) except `Cap` in McpServer, where the clock stops
one round of the lock after the latest answer `LatenessBounded` allows.

| run | instance | what it shows |
|---|---|---|
| `batch` | 3 configurations (one refused by Xray), 2 workers, 2 ports, other programs that take the port of 1 test, 2 scores | `NothingLeftBehind`, `MeasuredThroughOwnCore`, `ProcessesBounded`, `ImplementsContract`; of every outcome `ReportAccounts` and `RankedByQuality` |
| `batch_live` | the same with 1 port, which all tests are given | `CancelledBatchReturns`; `BatchReturns` if the validation ends |
| `core_install` | 2 callers in one program, 1 crash, good and bad bytes | `ExecutableIsIntact`, `ExecutableHasData`, `OfferedStays`, `ImplementsCache`, `CallReturns` |
| `core_install_shared` | 2 callers in 2 programs; TLC refutes | `ReadyIsIntact` needs one program |
| `core_versions` | 3 commands, 3 releases (one a prerelease), 1 kill, one setter at a time | `DefaultIsInstalled`, `RightVersion`, `UsingIsCurrent` |
| `core_versions_fallback` | no kill; TLC refutes | the fallback is not the newest installed (`FallbackIsNewest`) |
| `mcp_server` | 3 calls, 2 slots, a deadline of 2 ticks, 1 tick for the lock | `TestsBounded`, `SlotsReturned`, `LatenessBounded`, `AllAnswered` |
| `probe_run` | 4 attempts, latencies 40, 300 and 1200 ms, 5 redirects | `StatusIsOfProbes`, `MetricsInRange`, `GeminiVerdict` |
| `config_build` | texts of ≤ 4 lines, limit 3, ≤ 3 outbounds, ≤ 1 rule, every share link | `FirstOccurrences`, `MeasuredIsSelected`, `LinkIsTested` |
| `desktop_setup` | 2 setups, in turn or at once, 1 other server, 1 setting, 2 saves, 1 kill | `NoSilentLoss`, `ImplementsMerge` |
| `remote_run` | 2 requests of one release, a target with that one, another or none, 1 reboot | `WorkerIsRelease`, `HostUsable`, `OkIsTested` |
| `remote_run_release` | the same; TLC refutes | after a cut download of `install.sh` another release is executed (`ExactRelease`) |

Each passing run also checks its module's type invariant (`batch_live` leaves it to
`batch`).

Why the bounds are enough:

- *Batch.* Three configurations on two workers is the smallest instance in which a
  worker takes a second job while the other is inside its first, and in which a
  cancellation can cut the source after one, two or no jobs. With two ports and two
  workers two tests may have different ports or the same one. Tests of the batch take
  ports from one another without a bound; other programs' listeners come and go
  as often as they like, but take ports of one test, which is the one the property
  is then silent about, while the others' ports are what it is about.
- *Installation.* A file of two chunks can be empty, half and whole. One crash
  leaves the remains of a download or of an extraction, which the second caller
  finds; the proofs are about any number of crashes and callers.
- *Versions.* With three releases the newest by name, the newest stable and the
  one that is installed can all differ (the tags are v1.8.24, v24.9.30 and
  v24.10.31), and three commands allow a setter, another setter and a test. Four
  inodes are both paths and what two open descriptors may keep.
- *Server.* Two slots for three calls: one call waits for a slot while another
  waits for the lock that the third holds. The deadline of two ticks can pass
  while waiting for either.
- *Probe.* Four attempts have percentiles on a rank and between ranks; 40, 300 and
  1200 ms are on both sides of 250 ms of jitter and 1000 ms of latency. Five
  redirects are the code's number, because its last turn is a property's edge.
- *Targets.* Two sessions and an old binary are all that `bin` can be confused
  with; install(1) has four steps of two sessions in any order. Two chunks make a
  binary that is cut. One reboot puts a cut one at the name, and the other request
  finds it.
- *Setup.* The second setup finds what the first, killed, has left; two saves put
  one before and one between or within them. Shapes of the file are enumerated from the
  start, not reached.
- *Links.* All combinations of the parts that matter, with one value each for
  "given"; two ports in range, 0, one beyond, none.
- *Ranking.* Three results, each "ok" or "failed" with one of two scores, have ties
  and come in all six orders.
- *Configs.* Four lines have a duplicate next to the first and apart from it, and
  one link more than the limit; three outbounds have a selected one that is
  neither first nor last.

## Fairness

- *Go's scheduler*: a goroutine that can run runs. Weak fairness of each worker,
  of the dispatcher, of each request's next step. `waitForPort`'s select chooses
  among its ready cases at random, so strong fairness of the case of the passed
  deadline (`SelectFairness`): the ticker, which is ready again and again, does not
  win for ever.
- *sync.Mutex* hands the lock to a waiter that has starved for 1 ms: strong
  fairness of `Enter` and `Lock`.
- *Time passes*: weak fairness of `Tick`; a timer fires.
- *Nothing of the environment*: Xray may hang for ever, the client may never
  cancel, GitHub may never answer well. `CancelledBatchReturns` has no assumption
  about Xray at all. `BatchReturns` has one, stated in its formula: `xray run
  -test` ends (`ValidationEnds`). It is the only thing in a batch without a
  deadline of its own, which is why a batch from the command line may hang.
- RemoteRun has none: nothing at the target is sure to go on, and the end of the
  client's ssh is not the end of `Run`.
- CoreInstall's weak fairness of a call in progress rests on the timeout of the
  HTTP client (45 s in `NewManager`) and on copies that end.

## The proofs

TLAPS checks eight modules of proofs: `TestBatchProofs`, `CoreInstallProofs`,
`CoreVersionsProofs`, `McpServerProofs`, `ProbeRunProofs`, `ConfigBuildProofs`,
`RemoteRunProofs` and `DesktopSetupProofs`. They start from the assumptions the
modules state about their constants and, where it is named, an assumption about
the use. Each proves the type invariant of its module as `TypeCorrect`.

**TestBatch**, for any number of configurations and workers and any ports.
`CleanUp` (NothingLeftBehind): by `BatchInv` = type, `PoolInv` (a
worker's job is a configuration that is active, no configuration is two workers'
job; sent is what was dispatched; a gone worker has no job) and `SlotInv` (what a
configuration's directory, process, error and status may be at each stage). The
property alone is not inductive: that `Finish` removes the directory of *its*
configuration needs to know who is at which stage. `OwnCore`
(MeasuredThroughOwnCore), whoever else binds and frees ports: by `PortInv`, which
says that as long as nobody else has opened a test's port, its listener is the test's own
Xray or nobody, and that nothing else has served it; an old listener cannot be
there, because `freePort` has bound the port itself. `PoolBounds` (ProcessesBounded): every process
that runs belongs to a configuration in some worker's hands, and to no other
worker's, so that choosing the worker is an injection. `Implements`: the initial state is the contract's,
and `ContractStep` maps every step to `Record`, `Complete`, `Cancelled` or a stutter.

What becomes of the results (`BatchReport`, `Ranking`) is proved in `TestBatchProofs`
too, for any number of results and any scores. An order that is total on a finite set
(`Lines`) gives its elements different numbers of predecessors (`AheadGrows`), which
are then all the numbers below the set's size (`AheadNumbers`); so there is a k-th
element for each k, and it is the only one (`NthLists`). `Sorted` is that for the
comparison with ties broken by place (`OrderLines`, `SortedSorts`), and a loop that
appends is that for places alone (`KeptKeeps`): it keeps the order and drops nobody.
`QualityRanked` (RankedByQuality) and `ReportCounts` (ReportAccounts) follow; the
latter also needs that the counts of the loops are the lengths of what they append.

**CoreInstall**, for any callers, chunks and crashes, if they are in one program
(`OneProgram`). `InstallInv` is `LockInv` (who is in a call holds the mutex, hence
is alone), `CallInv` (what each step knows of the file it writes), `PathInv` (a
temporary path and its final path are different inodes) and `Offered` (what
executable() accepts is intact). It gives `IntactCore`, `CompleteCore` (with the
data files first in the archive), `ReadyCore` and the action property `LastingCore`.
`core_install_shared` shows that `OneProgram` cannot be dropped. `Implements`
(ImplementsCache) needs one thing more, `Unanswered` (a call under way has no answer
yet): `EnsureServes` maps a caller's step to the contract's or to a stutter, since
only the rename of the last entry changes what `Executable` says, and what is
offered is whole on both sides of every step (`CachedIs`).

**CoreVersions**, for any releases, commands and kills, if setters take turns
(`OneWriter`). `SetInv` is the type invariant, `Got` (from the resolution on a
command has a release), `SetterReady` (a setter in SetCurrent has installed the
release it writes), `TempOwned` (the temporary inode is not the default's, and
the descriptor is at the temporary path), `DefaultIsInstalled` and `LastHolds` (the
default is what the setter that renamed last, `owner`, asked for; that setter has
reported, is about to, or was killed). It gives `DefaultInstalled` and
`LastIsCurrent`: a kill between open, write and rename leaves a torn temporary file,
and the next setter truncates it; a kill between rename and report leaves a default
that was not reported, and that is all it may leave. `Right` (RightVersion)
does not need `OneWriter`: `VersionInv` follows a command from what it asked for to
the release it installs, and another command's default can change what is read,
but nothing after that.

**McpServer**, for any number of requests and slots and any deadlines. The slots
are counted: `SlotsAreTests` says that the semaphore's length is the cardinality of
the set of tests that run, from which `TypeCorrect` (it never falls below zero),
`Bounded` and `AllReturned` follow. `Lateness` is the bound on how late an answer can
be. `LatenessBounded` is not inductive, since it does not say whose fault the
lateness is; `WaitInv` does: who waits for the lock is late by `MaxHold` for each
request that is past the lock, and by what the present holder has held it.
`TwoMore` counts that the waiting one and the holder are not among those,
`PastGrows` that a holder that leaves pays for its time, and `TickLate` is the only
step in which time passes: it needs that a late request can only be waiting for the
lock (`EarlyInv`, `Due`) and that somebody then holds it (`HolderInv`).

**ProbeRun**, for any attempts, latencies and redirects. `StatusOfProbes`
(StatusIsOfProbes): `StatusInv` counts the successes with every attempt
(`CountSuccess`), and knows that the parts the user added come after all attempts
and only if one succeeded. `RightVerdict` (GeminiVerdict): "ok" is a 200 behind no
refusal, and "blocked" needs a refusal; while the loop runs, it has seen redirects
alone and `/sorry/` at most as the last of them (`Redirected`).
`MetricsRange` (MetricsInRange): the value at a rank exists and grows with the rank
(`AtRankIs`, `AtRankGrows`); the percentile is on the segment between two ranks
(`Between`, `OnSegment`), hence grows too and ends at the extremes; and the score's
three terms are each within their share (`PointsInRange`).

**ConfigBuild** with SourceLoading, for texts, documents and limits of any size.
`Loads` (FirstOccurrences): `Collected(t, sp, n)` says that `sp` is what the first
`n` lines of `t` have to give, and `CollectLine` that one turn of the loop takes it
to `n + 1`: that a link is new if and only if no config has it yet is the reason
for its third part. `TypeCorrect` needs it too: the limit is on the links that were
counted, and `CollectedFits` compares the two. `Measures` (MeasuredIsSelected):
`Selected` keeps the outbound that was chosen, its tag and the last rule together;
`RuleDecides` is Xray's routing of such a document. `LinksTested` (LinkIsTested) is
about the operators of ShareLink: `SecuredAs` has the security of each outbound by
what its link says, `Verified` by which name its server is verified, and `LinkServer`,
`LinkSecurity` and `LinkIdentity` compare the connection with the link part by part
(`EveryLink`).

**RemoteRun**, for any requests, slots, releases and reboots. `Copying` gives every
install(1) its file, `SessionInv` relates a session to its client (`Tested`:
OkIsTested), `FileInv` says what a file has at each step: a part of a binary that
nobody writes is from before a reboot, and a reboot ends every session. With it
`WorkerInv` keeps what is executed whole (`Released`: WorkerIsRelease). `HostInv`:
what is at the name is whole, or the session that made it is still copying; nothing
is at the name only while a session is about to create it (`Usable`: HostUsable).

**DesktopSetup**, for any setups, servers, settings, saves and kills. `NothingLost`
(NoSilentLoss) holds whoever writes when: `RestInv` says that what a setup has in
memory is what it read, which is what others put there last unless they have saved
since (`late`); `EntryInv` that the entry in a file that can be read is that of
the last write that came to its end, which is no earlier than that of who reported
last. `Implements` (ImplementsMerge) splits on `alone`, which no step changes
(`AloneKept`). If it holds, `TurnInv` says what the setup whose turn it is has read,
and that the file is still that; `ContractStep` maps the truncation to the
contract's step and the write to a stutter. If not, the mapping stands still.

Some of these facts need an induction on a number (that predecessors are counted
without a gap; that `Jumps`, a recursive function, is a number). The library's
induction theorems take the induction hypothesis as an operator, which the installed
provers cannot instantiate. The proofs take the least counterexample instead, which
`NatLessThanWellFounded` and `WFMin` give for a *set* of numbers (`Least`), and refute it.

Only model-checked: every liveness property (`CancelledBatchReturns`, `BatchReturns`,
`CallReturns`, `AllAnswered`) and everything about ENABLED, which
are out of TLAPS's reach. All invariants and action properties the passing runs check,
and the three refinements, are theorems.

## Expectations the code does not meet

Three are runs, with their findings in `PROJECT.json`:

- `core_install_shared`: two programs that install a release at once share
  `xray.tmp`; one's verified download is renamed empty.
- `core_versions_fallback`: the fallback is the last *name*, so v24.9.30 before
  v24.10.31; a pinned prerelease counts too.
- `remote_run_release`: a download of `install.sh` that fails is no error of the
  bootstrap script; the release that was there is executed as the worker.

Others are definitions at the end of their modules that TLC also refutes; each
takes one line in a configuration to see:

| definition | constants | what happens |
|---|---|---|
| `TestBatch!AlwaysOwnCore` | as in `batch` | README.md:207: "HTTPS requests through the selected Xray outbound"; `freePort` closes the port before Xray binds it, another test or program may have it, waitForPort accepts any listener, and the config is measured through that |
| `TestBatch!TempConfigRemoved` | as in `batch` | README.md:239: "removes it after the process exits"; an interrupted program runs no deferred call |
| `TestBatch!RejectedByXray` | as in `batch` | a validation killed with its context reports "Xray rejected the generated configuration" |
| `CoreVersions!UsingIsCurrent` | `OneWriter = FALSE` | two setters share `default-core.tmp`; "using v" is printed of a default that is another, or torn |
| `CoreVersions!AsksEachRun` | as in `core_versions_fallback` | README.md:219: "asks the GitHub API for the release list each run"; after any `core install` or `core use` the default core is used instead |
| `ProbeRun!AnyHopBlocks` | as in `probe_run` | gemini.go:22: 'any hop through Google's /sorry/ page is "blocked"', README.md:215 likewise; the target of the last redirect allowed is never looked at, and if it is `/sorry/` the verdict is an error |
| `ProbeRun!DeadIsPoor` | as in `probe_run` | a config that let nothing through has 50 points, "Fair": without a value median and jitter are 0, the best there is (`probe.go:270`) |
| `ConfigBuild!ThroughSelected` | as in `config_build` | README.md:207: "HTTPS requests through the selected Xray outbound"; a rule of the user's config precedes the probes' own (`config.go:101`) |
| `RemoteRun!TargetBounded` | 3 requests, `Slots = 1` | a worker outlives its ssh (`main.go:276` has no context), and its slot is given to the next |
| `DesktopSetup!NothingOverwritten` | as in `desktop_setup` | main.go:194: "preserving any other servers or settings already there"; what somebody saves between the read and the write of a setup is overwritten |
| `DesktopSetup!MergesOrRefuses` | as in `desktop_setup` | `null` in the file, or as `mcpServers`, makes a nil map of the one it is unmarshalled into; the assignment panics (`main.go:223`, `main.go:229`) |
| `ShareLink!GoodLinkIsTested` | a property of operators; put `\A l \in ShareLinks : ...` in an invariant | a VMess payload with a "/" loses what is in front of it (`config.go:396`); a Shadowsocks link of the old form `ss://base64(method:password@host:port)` has no credentials for `parseSS` |
| `ShareLink!ServiceKept` | as above | a VMess link over gRPC loses its service name; README.md:249 names gRPC without this exception |
| `ShareLink!ImpliedSecurity` | as above | a Trojan link without `security` is tested over a plain connection, and `tls=0` turns TLS on (`config.go:292`) |
| `ShareLink!PinKept`, `ShareLink!NameKept` | as above | a security spelled "TLS", which Xray takes for "tls", loses the pin and the server name; a VMess server with a bare IPv6 address and no name is verified by an address whose last group was taken for a port |
| `McpServer!InTime` | `MaxConcurrent = 2` | `--request-timeout` is the "maximum duration of one MCP request"; waiting for `ensureMu` heeds no deadline. With one slot it holds |
| `SourceLoading!TextIsSubscription` | as in `config_build` | "auto" takes a text that begins with a link for one link; several lines become one URI, which Build then refuses |

Without a property of their own, but in the models: `Run` of the remote runner
waits for the outputs of a killed ssh without a bound (`runner.go:108`, no
`WaitDelay`), so that a request may outlive its deadline while a process that ssh
has started lives on; the attempts left when a deadline passes count as failures of
a result that stays "ok"; duplicates count towards `max_configs`; an `--outbound`
that names a direct outbound is accepted, although the error at `config.go:78`
speaks of eligible ones. The port in a VMess payload has no range; Xray refuses
what is too big (a negative one is not modelled).

## Not modelled

- Of share links what cannot tell a right test from a wrong one: paths, hosts,
  ALPN, fingerprints, `extra`, flow, the plugin of a Shadowsocks link (which the code
  ignores); Base64 and percent-encoding.
- SOCKS5, TLS and the texts of `ClassifyError`; the attempt's own timeout is one way
  to fail.
- Tables, CSV, JSON and widths (`internal/output`); flags and usage. `--output`
  truncates its file before the format is looked at (`main.go:348`): one straight
  path, without state of its own.
- Allowed roots and symbolic links: a file that may not be read is a source that
  fails.
- The MCP protocol (the SDK's), `get_xrayprobe_status` (it reads), the detection of
  the interface (`internal/netutil`).
- A power loss: the core and `default-core` are renamed without an fsync
  (`manager.go:346`, `manager.go:98`), so that a renamed file may be empty
  afterwards. `Crash` is a kill.
- A digest file that is wrong in the same way as the archive it was downloaded with
  (`manager.go:226`): the model's wrong digests agree with no archive.
- An archive with the binary in front of its data files: `ExecutableHasData` and
  `CompleteCore` are for `XrayFirst = FALSE`, the order of the releases.
- `install.ps1`, install(1) of Darwin, and of `install.sh` the search of a directory in `PATH` and the
  shell's profile: the bootstrap script gives it a directory.

## Plan

All modules the survey asked for exist: `TestBatch` with `BatchContract`, `Ranking`
and `BatchReport`; `CoreInstall` with `CacheContract`; `CoreVersions`; `McpServer`; `ProbeRun`;
`SourceLoading`, `ShareLink` and `ConfigBuild`; `RemoteRun`; `DesktopSetup` with
`SetupContract`.

All invariants, action properties and refinements the runs check are proved.
Abstract specifications worth stating next: a `default-core` that a setter replaces
in one step, which CoreVersions implements if setters take turns; and a server that
answers each call once and has a counter of slots, which McpServer implements.
