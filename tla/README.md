# Formal models of tx9

TLA+ modules, TLC runs and TLAPS proofs for tx9, the command line tool that
keeps "boxes" (an agent container, an Executor container, a network and two
volumes) on one Docker host. Every definition that stands for code is listed
with its source lines under `map` in `PROJECT.json`.

## 1. The system

| Component | State | Operations | Hard because |
|---|---|---|---|
| Box lifecycle (`internal/box`, `internal/cli/cmd_*.go`) | five Docker objects per box, found by labels and derived names | create, import, upgrade, delete, start, stop, mount, prune | 10 to 15 Docker calls per command, each may fail or be the last one of a killed process; operators and other programs touch the same objects |
| Per-box lock (`internal/lock`) | one flock per box | acquire without waiting, release | released by the kernel when a process dies, in whatever state the box is |
| Env file (`internal/state`) | token, executor and resource settings, mounts | atomic read-modify-write | the only place that knows the token of an existing box |
| Resources (`internal/box/resources.go`, `cmd_resources.go`) | limits in the containers and in the env file | show, set, reset | a change is live in two containers and saved in a file; rollback on failure |
| Agent mounts (`internal/box/agent_mounts.go`) | mount list in the env file, binds and groups of the container | add, list, remove | the container is recreated before the list is saved |
| Backup and import (`cmd_backup.go`, `cmd_import.go`) | archive files, staging files, the restored volume | quiesce, tar, validate, encrypt, place; extract, validate, restore | the box lives on while it is archived; a restored box must not become a second writer |
| Archive format (`internal/archive`) | a container of metadata and payload, an index of the payload's members | write, read metadata, extract; encrypt, decrypt, verify; validate | gpg and the lister share a pipe; links lead to links; the file is read twice |
| Gateway control (`guest/hb`, `guest/hb-workload`) | marker files, reload requests, two flocks, processes | up, pause, resume, gateway-enable, gateway-disable, wire-mcp, reload, the 20-second loop | several hb processes at once, lock waits that time out, a supervisor that restarts the gateway by itself |
| Custom services (`guest/tx9-services`) | drop-ins, one state file per service, a flock | reconcile, stop-all, status | processes that die, survive or share a reused number; reconcilers killed half-way; a pause meanwhile |
| Logs (`guest/tx9-logs`) | a child and its process group; rotated log files | capture, query, export | parent of the gateway and of every service; signals at any moment of a launch; process group numbers are reused |
| Docker adapter (`internal/docker`) | one throwaway container or exec, its attached connection, two copies | run with input, stream output, create, start, stop, remove, update | two goroutines and a program pass data through pipes that fill; every request may fail or lose its answer |
| Self-update (`internal/selfupdate`, `scripts/install.sh`) | the installed binary, a staged file | check, download, verify, replace | replaces itself, several at once, while releases are published; kills and power cuts |
| Release (`.depot/workflows/release.yml`, `scripts/release-plan.py`, `site`) | a bucket of published objects and the pointer to the latest | plan, upload, promote | jobs come late, fail half-way and are repeated |
| Browser helper, Hermes state tool | - | - | around external services |

The components meet in four places. The host commands and `hb` share the
agent volume's quiesce marker, with no common lock: `tx9 create`, `upgrade` and
`mount` run `hb up`, `backup` runs `hb pause` and `hb resume`, and the user of
the box runs all of them from inside. The env file's token must be the one in
both containers. The log capture wrapper is the parent of the gateway that `hb`
starts and stops, and of every custom service. Import, backup and the log export
do their work in programs that the Docker adapter runs and whose streams it copies.

What makes each component correct:

* lifecycle: while something of a box is left, its token is too; a box's data is
  wiped or removed only by `delete` or by the failed command that made it; a
  container sits on somebody else's volume, and objects of others are touched,
  only where Docker's calls by name leave a command no way to tell; `mount` leaves
  a box at rest at rest and can be repeated after any failure;
* gateway: never two gateways and nothing after a stop that reported success, as
  far as a scan of the process table can show; a running gateway on an outdated
  configuration has a reload coming; a box without a marker gets its gateway in
  the end;
* backup: an archive is one version of `/data`; it is never replaced or seen
  half-written, and it can be decrypted and listed once it is placed; a
  verification always ends, and blames decryption only when that failed; the box
  is left paused or active as it was found;
* archives: import restores only a container of its format whose payload is what
  the metadata read first calls for, with every name and link inside its own tree,
  and each refusal has its reason in the file;
* resources: a limit that was set survives everything that is not about it, and
  a failed change is undone;
* custom services: a supervisor is never lost or doubled; after a successful
  pause nothing of them runs, unless it was left by a supervisor that got SIGKILL;
  no other program is signalled;
* log capture: no signal is lost or misdirected, and no command outlives its
  supervisor;
* Docker adapter: a call returns only when nobody uses the caller's files any
  more, its success means that it brought all there was and left no container,
  and neither the call nor its program waits for ever; a restored volume holds a
  whole archive, verified and quiesced, or no home at all;
* release and update: the pointer names the newest complete release; an update
  meets no half-published release, replaces the program in one step by a
  complete one, goes back to an older version only by a race or a power cut, and
  ends.

## 2. Modules

**`BoxLifecycle`** models every command that changes a box's Docker objects or
env file. `own` says for each of the five names whether it is absent, carries
the box's labels, or belongs to somebody else; `running`, `ctok` and `cmounts`
are what the containers were given; `env` is the file; `quiesced` is the marker
on the agent volume; `lock` is the flock; `pc` and `loc` are where each CLI
process is and its local variables. Each Docker call and each env write is one
action with a successful and a failing outcome; `GiveUp` is what the code does
with an error (create and import destroy, the others return), and `Crash` kills
the process between any two calls. The steps of box.Create are shared by
create, import and upgrade, those of box.Destroy by delete and by a failed
create or import. `Find` and the creation after it are two steps, and so are
the last look at a volume's owner and its removal by name (`RecheckVolume`,
`DropVolume`): Docker creates no second network of a name, but it answers the
creation of a volume that exists as if it had made it, and it makes a volume that a
new container binds and that is gone. `DockerRm`, `DockerVolumeRm`, `TakeName`,
`HbPause` and `HbResume` happen without the lock, between any two calls. `raced`
records the volumes that came under their name while a command was between its look
at the name and its use of it (`Window`), and the history fields of `loc` (`made`,
`ran`, `held`) what a command did and found; only properties read them.

**`GatewayControl`** models the Hermes gateway inside one box: the two marker
files, the reload request files, both flocks (with timeouts), and up to `Slots`
wrapper/child pairs. One process is the hb-workload loop, the others run the
commands in `Commands`. `_start_gateway` is split as its process is
(`CheckPolicy`, `LockStart`, `RecheckPolicy`, `FindGateway`, `FindCapture`, `Spawn`,
`WaitGateway` or `Watch`): it looks at the markers, takes the lock, looks at them
again, and then scans the process table twice, for gateways and for wrappers. What
it spawns is at first a subshell that has closed the lock's descriptors and that no
scan finds (`"forked"`), and the wrapper from its exec on (`LaunchProceeds`). Its
callers, listed in `AfterStart`, treat "failed" and "lock busy" differently. A slot
is stale when its Hermes read an older `config.yaml`. `ProcessExits`, `StopFails`,
`ExecutorUp`'s failure, `Restart` and a starter that leaves its launch before the
exec are the failures; they share the budget `MaxFailures`. `astray` records what
passed unseen: the launch of such a starter, and a gateway that lost its wrapper
between a starter's two scans and was found by neither.

**`Backup`** models `cmdBackup` with the box behind it: the marker, whether a
writer runs, the version of `/data`, the staging file and the placed archives.
Every `hb` call may fail before or after it took effect. An encrypted backup goes
through `Encrypt`, after which the file may be good, break off (`"short"`) or
decrypt to something else (`"foul"`), and `VerifyEncrypted`: gpg's goroutine
(`Chunk`, `GpgEnds`, `Report`, `ClosePipe`) and the command that lists, drains and
judges (`Listed`, `Drained`, `Verified`) over a pipe that holds nothing (`ver`).
**`ArchiveShelf`** is the abstract specification of the directory: a name nothing
had gets a restorable archive in one step, and keeps it. `Backup` implements it
with `shelf <- placed`.

**`ImportArchive`** models what `cmdImport` does with the file before it changes
anything: `ReadMetadata`, then `AwaitLock`, after which any file may be at that
path, `ExtractData`, `Decrypt`, and `ValidateDataTar`: `ReadMembers`, the first pass
member by member (`IndexMember`), the second (`CheckNesting`, `CheckRequired`), and
the third, member by member, in which `resolve` walks one component of a path per
step (`ResolveStep`) with the code's registers (`walk`), cycle check and bounds. A
text is the sequence of what stands between its slashes, each an element of
`Names`. Beside the code's walk, which splices each target into the path that is
left and starts again at the root, stands an independent definition of a
well-formed tree (`WellFormed`): `Follow` walks each link's target to its own end
first, as the kernel does, and counts links only. A walk there is a place, the
path still before it and the links it may yet follow, and `FollowStep` says where
it ends in terms of the walks it goes on with.

**`ResourceTxn`** models `tx9 resources set` and `reset` and what upgrade and
mount do to the limits: the keys in the env file, the limits of both containers
(memory, swap, CPUs) and the command in progress. Docker is modelled from what
the code relies on: a live update changes what it is given and leaves zeros
alone, so it can raise or lower a limit but never take one away, and refuses a
memory limit above the swap limit; a container is created with the ceiling the
code computes (`SwapLimit`), and with Docker's own where that is zero. Every call,
a removal and a creation as well, may fail, or succeed with its answer lost, and
then `UndoAgent` and `UndoExecutor` take their turn. Operators run `docker update`
and `docker rm` between any two calls; `mine` tells whether tx9 wrote a
container's memory limit last. Integers wrap above `MaxInt`, so that twice a large
memory limit overflows as it does in the code.

**`LogCapture`** models one `tx9-logs capture` process: the main thread of
`run_once` and `capture_command` (`main`), the signal handler, which Python runs
between any two of its steps (`Signal`), the set-up shim (`Guard`, `Exec`), the
command and its process group (`child`, `kids`), and who owns the group's number
(`number`): us, until leader and members are gone and the leader is reaped; then
nobody; then perhaps somebody else. `Killed` ends the supervisor at any step.
**`ServiceCapture`** is the abstract specification of such supervisors, as seen from
outside: about a launch or at rest, its command running or not, others of the
command's process group running or not (`kin`), told to end or not.
`LogCapture` implements it for one supervisor under the mapping of `Service`
(`Phase`), and `CustomServices` is composed with it.

**`CustomServices`** models `tx9-services` under its lock. A process (the loop
or a user's hb) enters with a command, takes the lock or gives up, scans the
drop-ins, walks the state files (`StopNext` to `StopReport` are `_stop_one`),
looks at the quiesce marker (`Gate`) and walks the wanted services (`Spawn` to
`Abort` are `_start_one`). Supervisors are numbered in the order of their start:
the number stands for process number and start time together, which is the
identity the code checks, while `pidOf` is the process number alone, which is
what a signal goes to. From its exec on a supervisor does what `ServiceCapture`
allows (`Supervisor!Launch` and the others in `Capture`): one that is told to
end between its last look for a signal and its fork still makes that launch, and
no other. A service may fork (`kin`). A supervisor that gets SIGKILL, from the
kernel or from `_stop_one` (`Dies`), sweeps nothing any more, and the kernel
ends the direct child alone: `outlived` records that others of the group were
left. `Unkillable` says which processes may outlast SIGKILL themselves
(uninterruptible I/O), a case the repository's tests provide for. resume's two
removals of the marker, with nothing but `init` between them, are one step, and
so are the check of an identity and the signal right after it.

**`HelperRun`** models one run of a program by the Docker adapter, the step that
`BoxLifecycle` (`Restore`) and `Backup` (tar) take as one call. `pc` walks through
`RunEphemeral` (create, attach, reserve the wait, start, the three selects, the
deferred calls) or `ExecStream` (attach, copy, ask until it has ended); `in` and
`out` are the two copying goroutines, each in a Read, in a Write or done; `conn`
is the attached connection, with room for `Cap` pieces each way; `helper` is the
program with its container, `volume` what the restore script does to the agent
volume. Cancellation, broken connections, failing files, failing requests (with
and without effect), a dying program and a killed CLI share `MaxFaults`. Docker
is modelled from what the code relies on, with one exception: when a wait is
answered is what Docker documents, see `HelperExitCode` below.

**`SelfUpdate`** puts the two ends of the release channel together. `objects`
and `latest` are the bucket, `job` is the release job that runs (`Plan`, two
uploads in the order of their names, `Promote`). Any number of `tx9 upgrade`,
`tx9 upgrade --force` and install.sh run on the user's machine (`upd`): each
resolves the version once, then takes checksums and binary of that version, in
the order of its code; the download proceeds in pieces and may fall silent, end
early, go foul or never end (`Disturb`). `bin`, `past` and `lossy` say what a power
cut can leave at the path: nobody flushes the directory, so any of the programs
replaced since the last one may be back, and install.sh flushes no data either.
Versions are sequences of numbers and `Newer`
compares them as `CompareVersions` does; a digest stands for the program it was
made of.
**`AtomicInstall`** is the abstract specification of the path: it holds one
complete published program at any time, except after a power cut that follows a
careless installation, and `SelfUpdate` implements it under the mapping of
`Installs`.

`MCBoxLifecycle`, `MCBackup`, `MCImportArchive`, `MCResourceTxn`, `MCCustomServices`
and `MCSelfUpdate` add the symmetry sets and value sets for TLC. Where names are
interchangeable and a liveness property rules symmetry out, the module takes a
fixed choice among them (`AnyOf` in `GatewayControl`: a fresh request file, a
free slot). Each component module has a type invariant, which documents its
variables and is proved; no run spends its time on it. The theorems about a module
`M`, with the inductive invariant they rest on, are in **`M_proofs`**; those about
`LogCapture`, whose names are chosen to stand beside `HelperRun`'s, are in
`HelperRun_proofs`. Definitions marked "Mutant" are
faulty variants of the operator below them; they are in no specification and
show that the properties can fail.

## 3. Runs

| Run | Bounds | Shows |
|---|---|---|
| `BoxLifecycle` | 2 processes, all 8 commands, 2 tokens, 2 targets, 1 source, crashes and outsiders | `EnvDescribesBox`, `VolumesBacked`, `DurableDataSafe`, `MountsDivergeByOne`, `ForeignUntouched`, `MountKeepsBoxAtRest` |
| `GatewayControl` | loop and 2 users, 2 commands of 6, 2 failures, 3 slots, 2 requests, no symmetry | `SingleWriter`, `StopsAreFinal`, `NoLostReload`, `Converges` |
| `Backup` | 2 backups, 2 writes, 2 names, gpg's output in 2 pieces, no symmetry | `SnapshotConsistent`, `RestPreserved`, `BlameIsRight`, `VerifyEnds`, `BackupsKept` (implements `ArchiveShelf`) |
| `ImportArchive` | containers of up to 3 members, 3 versions, any of them replaced by any other; member lists of root, `home`, `home/agent` and up to 3 of 20 files, directories and links (2 in any order, 3 in one order and its reverse), or 2 of 18 ordinary and odd ones; 2 links and 2 + 2n steps per walk, 6 members | `AcceptsOnlyBackups`, `RefusesWithReason`, `ValidationEnds` |
| `ResourceTxn` | 3 commands, 4-bit integers, 1 CPU value, 4 memory sizes (1 below the minimum), 1 step by an operator | `ChangesSurvive`, `SwapIsTwiceMemory` |
| `LogCapture` | 3 starts | `NoStraySignal`, `NoOrphan`, `SignalReachesChild`, `NoLeftovers`, `ServesAsPromised` (implements `ServiceCapture`), `SignalEnds` |
| `CustomServices` | 1 service in 2 versions, loop and 1 user, 2 supervisors, 2 process numbers, 3 commands, 1 edit, 1 fault; supervisors may survive SIGKILL | `EveryCaptureRecorded`, `PauseIsFinal`, `OnlyOwnSignalled`, `NoDuplicate` |
| `SelfUpdate` | 2 commands, 2 processes, 2 release jobs over 2 versions, a local build, 2 pieces, 1 failure | `LatestIsNewest`, `FailsOnlyByFault`, `DowngradeOnlyByRace`, `UpdateEnds`, `InstallsAtomically` (implements `AtomicInstall`) |
| `HelperRun` | restore, export and stream, 4 pieces, room for 1, 2 failures | `CallerIOFinished`, `OnlyWholeArchives`, `SuccessIsComplete`, `AllEnds` |

Why the bounds are enough. Two processes: the lock admits one, and what another
one can do without it is a prefix of a command (and prune's snapshot). Two
tokens, one of an earlier box and a new one: a third one gives the same number
of distinct states, because admission requires that no container is left. Two
mount targets are needed to see a divergence in more than one. In the gateway,
two users and the loop are all that the two locks can tell apart (one that
holds, one that waits, one that has not looked yet), and two commands are an
enable or a wiring with a pause in the middle of it, beside a reconciliation or
a reload. Two failures fall between any two steps of any command, and can leave
a launch unseen and break what comes next; each may leave one, so three slots
are one for the gateway that is started beside them. Three resource commands let
a failed change, an upgrade over what it left and a later change follow each
other. A third start of a captured command meets the number of the first one
already reused. Three links make chains one longer than the bound, cycles of one
to three, and links whose target leads through another link and on; each of the
three reasons to stop a walk occurs. The order of the members decides only which
of an archive's faults is met first, since every walk follows a pass that has
read all of them, and two in any order tell such faults apart. A piece of gpg's
output before and one after the lister gives up is all that distinguishes
reading, draining and leaving. Services do not interact but through the lock, so
one is enough; two supervisors are one that is stuck or lost and its
replacement, and with two process numbers one can be reused while the other is
taken; three commands are a start, a stop and what comes after. In `SelfUpdate`
the two versions are 0.2.0 and 0.10.0, which compare the other way round as
text, and the local build 0.2 is equal to one of them with a component missing;
two jobs are a version and a newer, older or the same one; two commands are what
a race for the path needs. In `HelperRun` input and output both have to fill
while the program still has something to read and to say: with room for one,
that takes four pieces (one read by the program, one under way, one in the copy,
one left). Two failures are one that disturbs and one in the middle of the
cleanup.

Three runs are expected to end in a counterexample; each states what a comment, a
message or a document says and the code does not do (`findings` in
`PROJECT.json`):

* `UpgradeRetry`: an upgrade that fails between the removal and the creation of
  the containers cannot be run again;
* `BackupLive`: a half-failed pause lets a backup archive a live box;
* `HelperExitCode`: `RunEphemeral` requests its wait before the start, so that a
  short program is not missed, but with `WaitConditionNotRunning`, which Docker
  documents to hold for a created container as well: the answer is there at once,
  with the exit code 0 of a container that never ran. A restore whose
  verification fails counts as a success. (A wait for the next exit would carry
  the program's own code. It would also make the first select wait for a program
  whose output nobody reads any more when the output copy has failed, so the
  order of the selects would have to change with it.)

Behaviour that the models reach and the properties exempt, each recorded in the
notes of its hazard:

* a volume that comes under its name between a command's look at the name and its
  use of it (`raced`) is adopted, because Docker answers the creation of a volume
  that exists as if it had made it and nobody looks at its labels again, and it is
  removed if it comes after Destroy's last look, the window that Destroy's own
  comment says cannot be closed;
* a `hb pause` that falls between mount's question whether the box is quiesced and
  the end of its `hb up` is undone (`held` begins at the question);
* a launch whose starter goes away before its exec, because it was killed or
  because its five-second wait was over, is found by nobody until then, and a
  gateway that loses its wrapper between a starter's two scans is found by neither
  of them (`astray`): a second gateway is then started beside it, and the two stay
  until a stop, or a stop reports success with one coming up. `_start_gateway` calls
  it safe to release the lock while the wrapper is alive, because later callers
  detect it; they do so from its exec on;
* a start does nothing under a marker, and the loop stops nothing: a gateway that
  was left by a stop that failed or was killed, or beside which gateway-enable
  put its marker back, runs on under that marker until a stop succeeds.
  `Converges` therefore claims that nothing runs only where a stop command has
  succeeded;
* `wire-mcp` undoes a pause that falls between its check and its `up`; a gateway
  started while its wiring is switched off keeps it until the next wiring
  (`partial`); a failing gateway-enable restores the disabled marker beside a
  gateway another starter has just launched;
* a lost answer of `hb is-paused` (`lied`);
* what a service forked goes on running when its supervisor gets SIGKILL, from the
  kernel, or from `_stop_one` after the service itself has exited and is a zombie:
  the signal to the group is skipped then, the supervisor dies in its own sweep, and
  the kernel ends the direct child alone. The record is dropped, a pause succeeds and
  the next reconcile starts the service again beside it (`outlived`). A process that
  has left the group altogether (setsid) is outside the model, as it is outside
  tx9's reach from the beginning;
* a service that survives SIGKILL itself is forgotten one reconcile later and
  started again (`NoDuplicate` fails with `Unkillable = {"capture", "group"}`; the run
  has `{"capture"}`), and so is a supervisor whose starter was killed before the
  state file was written, or before the supervisor was exec'd and matched it
  (`orphans`);
* the metadata that counts for import are those of the first read: a file put
  there afterwards is restored under the earlier one's box name, also when its own
  metadata deny what its payload is;
* the run of a throwaway container whose program failed or was killed half-way may
  still be reported as a success (`HelperExitCode`, above), so `SuccessIsComplete`
  speaks of the work of programs that ended with 0 only;
* a restore whose messages the caller's own output refuses waits for ever for an
  input copy that the full pipe holds up (`Muted`);
* an upgrade that compared versions before another one was installed puts the
  older program back;
* a power cut brings back any of the programs replaced since the last one, and
  leaves a torn file if install.sh, which flushes nothing, placed one of them.

A walk that `resolve` stops by its bound on iterations is exempt from
`RefusesWithReason`: with long targets in deep directories and few members the
bound of 32 + 8n can be reached by a good archive.

Fairness. In `GatewayControl` the loop ticks (`hb-workload`'s `while true`),
every hb process runs on (its lock waits and process waits have timeouts, so
none of its steps blocks for ever), a forked launch gets to its exec, and a live
wrapper starts Hermes. Nothing is assumed of users, of failures or of the order
of lock grants; `Converges` says what holds once users and failures stop, which
the budgets bring about. In `LogCapture` the supervisor and the shim run on
(their waits are for the child or bounded), and the command ends once it has
been sent the signal, which is the condition `SignalEnds` is stated under: the
supervisor itself never escalates to SIGKILL while the direct child lives, its
callers do. Nothing is assumed of who sends signals or kills. In `Backup` only
the verification proceeds by itself (gpg and the command are running processes
that do nothing but read, write and end); in `ImportArchive` only the validation
does (a loop over data in memory). In `HelperRun` the calling goroutine, each
copy, the callback of the context and the program run on while they can: they
are goroutines and processes, blocked only by the pipes, which the model has.
Nothing is assumed of failures, and a Kill stops all of the CLI. In `SelfUpdate`
a command proceeds: its requests carry deadlines and its download a stall timer,
which `GiveUp` stands for, so no peer can hold it. Nothing is assumed of release
jobs, which may stop for ever at any step.

## 4. Proofs

What the runs check on small instances, the theorems state for every value of the
constants: any number of processes, users, services, tokens, mount targets,
versions, pieces and failures. They use nothing but the `ASSUME` of their module,
which says that the "none" values are none of the proper ones, that sets of
commands contain known commands, and that bounds are numbers, and where a line
below names something more; in `ImportArchive` it also says that paths are made of
names, among them the empty one, `.` and `..`. A bound on a counter is any number,
so a theorem holds however long the system runs.

Every proof has the same shape. `IInv` is the type invariant and the facts that
make the properties inductive; `IInvInit` and `IInvStep` (one lemma per group of
actions) show that it holds initially and is kept by every step, and each theorem
follows from `IInvCorrect`. `IInv` was checked by TLC on the instance of the run
before it was proved. Action properties and refinements follow step by step from
`IInv` and, for a refinement, from the initial states.

**`BoxLifecycle_proofs`**, with or without crashes and interference: `TypeCorrect`,
`EnvCorrect`, `VolumesCorrect`, `DurableCorrect`, `MountsCorrect` (invariants) and
`ForeignCorrect`, `RestCorrect` (what a step may never do).

* `IInv` adds, per process (`ProcInv`): that a volume which was not somebody
  else's when a command looked is not now, or was raced (`WindowKnown`); which
  commands can be at which step (`Flow`); that only the lock holder is past the
  acquisition (`Exclusive`); that a create or import finds no object of the box
  until it makes one (`StillFresh`), which needs the admission check and the
  lock together; that a command's token is the file's from the moment it is
  saved (`TokenSaved`); that a container is only created on volumes that are
  there (`VolumesReady`); that a create or import with an agent volume made it
  (`MadeIt`); and that what Destroy found and has not removed yet is all there
  is unless an error was recorded (`TargetsCover`), which is why the env file
  may go. A step of the lock holder has to be shown for the holder alone
  (`HolderStep`); steps before the lock (`UnlockedStep`) and interference
  (`OutsideInv`) come apart.
* `MountsCorrect` needs `MInv` on top: what a command wants the agent to have is
  what the file says as long as it creates from the file (`FromFile`), and is one
  target away from it during a mount change (`Wanted`). The file may lose its mounts
  in Destroy and prune because `TargetsCover` and the recheck leave no agent.
* `RestCorrect` needs `RInv`: a mount change knows of the box it found that an agent
  seen running ran, and that a box known to have been quiesced since it asked is
  quiesced, so that it never comes to `hb up`.
* `ForeignCorrect` comes from the steps alone: all but Destroy's removals by name keep
  what is somebody else's (`KeepsForeign`), and `WindowKnown` says that what those
  take came after the last look.

**`GatewayControl_proofs`**, for any set of users and commands, and whichever of
the users' processes may be killed: `TypeCorrect`, `WriterCorrect`, `StopsCorrect`,
`ReloadCorrect`. `IInv` says who holds which lock at which step (`Holds`), which steps
belong to which command (`Knows`), and what a process relies on between two steps
(`Relies`): between its scans and the spawn nothing has come up but what passed
unseen, the launches that no scan finds are the one awaited and those left
(`Launched`), and nobody but the lock's holder awaits one (`Waits`); a reload that has
stopped the gateway leaves nothing outdated; an unwire's own request is still among
the requests, or somebody else's is. An outdated gateway has a request or a wiring
about to make one (`Asked`).

**`Backup_proofs`**: `TypeCorrect`, `SnapshotCorrect`, `RestCorrect`,
`BlameCorrect`, and `BackupsCorrect`: `Backup` implements `ArchiveShelf`.
`Charge` says when a backup answers for a pause, `Quiet` that meanwhile no
writer runs and the version is still the one tar began with, `Found` what it
knows of how it found the box on each path through its errors, `Pipe` that the
lister stops reading only at the end of gpg's output, `Sound` that what is
staged is complete before the link.

**`ResourceTxn_proofs`**, for any sets of limits and integers of any width:
`TypeCorrect`, `SwapCorrect`, `SurviveCorrect`. The default limits are assumed to be at
most half of `MaxInt` (they are gigabytes). `Based` says that every command starts
from what is promised, `Updates` with `Progress` how far a live update or its
rollback has come in each container while the file keeps the old limits, `Replaces`
that an upgrade has saved the new ones before it removes anything, `Resting` that
all holds where nothing is under way. `Ceilings` and `Fit` keep every memory limit that
reaches a container, also an operator's, below the one whose double overflows.

**`CustomServices_proofs`**, for any number of services, processes and supervisors:
`TypeCorrect`, `RecordedCorrect`, `SignalsCorrect`, and, if `"group"` is not in
`Unkillable`, `PauseCorrect` and `DuplicateCorrect`. That condition is stated in the
two theorems: a service that outlasts SIGKILL is forgotten (section 3), and both
properties do fail then. `Work` and `Loops` say what the holder of the lock has at hand
and what its loops have settled for the services behind them; `Known` that a live
supervisor is named by its state file or held by who is starting it; `Paused` that
nobody is past the gate after a pause; `Kids` that a service and the rest of its
group live under their supervisor, or that this one got SIGKILL over the rest.

**`SelfUpdate_proofs`**, for any finite set of releases, any local builds and any
order of jobs, commands, failures and power cuts: `TypeCorrect`, `LatestCorrect`,
`FailsCorrect`, `DowngradeCorrect`, and `InstallsCorrect`: `SelfUpdate` implements
`AtomicInstall`. `NewerIrreflexive`, `NewerTransitive` and their like show that
`Newer` orders versions. `Channel` and `Job` say that what is promoted is complete and
that no complete release is newer than the pointer; `Wants` and `Has` what a command
has on disk at each step; `Durable` that only install.sh leaves data unflushed.

**`HelperRun_proofs`**, for inputs of any length, pipes of any room and any number of
failures: `TypeCorrect`, `CallerIOCorrect`, `ArchivesCorrect`, `SuccessCorrect`. `Pipes`
says that nothing is read that was not written, `Script` what each step of the restore
script has behind it, `Life` and `Copies` when the program and the goroutines are
there, `Complete` what an output without an error stands for.

**`LogCapture`** (in `HelperRun_proofs`), with and without a restart delay and for
any number of starts: `CaptureTypeCorrect`, `StrayCorrect`, `OrphanCorrect`,
`SignalCorrect`, `LeftoversCorrect`, from `LogInv`. The number is the child's as long
as there is a child, alive or unreaped, and `active_pgid` is set only then
(`Pinned`); the main thread is right about the child (`LifeOfChild`); a signal
received is repeated by the launch that it came too early for (`Told`).
`ServesCorrect`: `LogCapture` implements `ServiceCapture`, with and without a restart
delay; `Seems` lists what a step comes to for an observer. So the theorems about
`CustomServices`, whose supervisors take `ServiceCapture`'s steps, hold for
supervisors that run the code of `tx9-logs`.

**`ImportArchive_proofs`**, for member lists, names, paths and link texts of any number
and length and any bounds on links and iterations: `TypeCorrect`, `AcceptsCorrect`
(what import accepts is a container of its format with the payload the first read
calls for and a tree that stays inside its root, whatever was put at the path
between the reads) and `RefusesCorrect` (each refusal
has its reason in the file). Both compare what the code computes on the way with
definitions that recur over the data, in three parts:

* The library's induction theorems take an operator as a parameter, which the
  installed provers cannot instantiate; the inductions here are told by sets instead.
  `UpTo`: a set of numbers that holds the first and with each the next one holds them
  all. `SolutionExists`: a functional that looks only below along a well-founded
  relation has a function that satisfies it. So `Parts` and the stack exist
  (`PartsExist`, `StackExists`), and `Follow` exists because each walk goes on with
  walks that have fewer links left, or as many and less path (`Shorter`,
  `FollowSolves`).
* What the code computes is what the definitions say. `StackStays`: the stack of
  `validateLinkTarget` never pops below the root exactly if at no point of the text
  more names go up than down. `LinkRewalk`: to put a link's target before the rest of
  the path and start again at the root comes out where the kernel's walk does, by
  `WalkConcat` (a walk along two paths is one after the other), `StraightWalk` (where no
  link is, a path leads to what it names) and `Budget` (with more links to begin
  with, as many more at the end). `SeenTwice`: a place and a rest of the path that come
  again make a walk that leads nowhere with any number of links, so the cycle check
  refuses nothing good.
* `IInv` joins them: the index holds exactly the members the first pass has seen
  (`Listed`), each pass has found what it looked for in the members behind it
  (`PassInv`), and the walk under way comes out where the one from the root along its
  key does, with every state it has seen on the way to it (`OnTrack`).

Only model-checked are the liveness properties (`Converges`, `VerifyEnds`,
`ValidationEnds`, `SignalEnds`, `UpdateEnds`, `AllEnds`): they need fairness and
`ENABLED`, outside what the proof system supports. Every safety invariant and every
action property of the runs that are to pass is proved, and so are the three
refinements.

## 5. What the models leave out

* One box per model: locks, names and files of different boxes are disjoint.
* An operator's `docker rm` and `docker volume rm` are modelled, `docker network rm` is
  not.
* What the throwaway restore container does after a killed import is in
  `HelperRun`; that it keeps `tx9 delete` from removing the volume is not in
  `BoxLifecycle`.
* Docker restarts containers by itself (`unless-stopped`); a container that
  exits and comes back looks the same here.
* Contents: executor settings, file contents in archives, log lines; the
  extraction of an accepted archive, which tar does in the restore container.
* Temporary files: they live in a private directory that a deferred call removes.
* `CustomServices`: the check of a supervisor's identity and the signal right after
  it are one step; a failed start signals by process number alone, which is listed
  as a hazard and not claimed of. `LogCapture`: SIGKILL always ends the processes it
  reaches.
* `GatewayControl`: `ScanRequests` looks for gateways and for wrappers in one
  step, and so do a stop's last look and a starter's look at the launch it waits
  for. A starter that is killed frees its lock at once; in the code a command
  substitution it was waiting for may hold the descriptor a little longer.
* `ImportArchive`: a file that is overwritten in place while `ExtractData` copies it,
  as opposed to replaced before, is not modelled.
* Rotation, retention, redaction and the collapsing of repeated lines in
  `tx9-logs`: one writer per file renames generations upwards, so a kill between
  two renames leaves a gap in the numbers and loses nothing but the oldest;
  what the redactors do is a matter of text, byte by byte.
* The atomic write of the env file and of every other state file (a temporary
  file, an fsync where the code has one, and a rename): each is one step of the
  modules that use it.
* The permission and supplemental-group computation of the agent mounts: a
  decision over one `stat` result without state; `PrepareAgentMounts` is its
  success or failure.
* `guest/hermes-state`: SQLite's own checks and checkpoints, whose content is
  SQLite's; `Backup`, `GatewayControl` and `HelperRun` have it as a call that
  succeeds or fails.
* Image pruning: Docker itself refuses to remove an image that is in use, and
  the command keeps no state.
* `hb status`, `doctor`, `web` and the bridges, `tx9 list`, `enter`, `open` and
  `doctor`: they print, or hand over a terminal, and change nothing modelled.
* The site's ranges and conditional requests, the tagging of commits, the
  embedded build context, generated names and the browser helper: text and
  files, or a front end to an external service.

## 6. Plan

Done: `BoxLifecycle`, `GatewayControl`, `Backup` with `ArchiveShelf`,
`ResourceTxn`, `LogCapture` with `ServiceCapture`, `CustomServices`,
`ImportArchive`, `SelfUpdate` with `AtomicInstall`, and `HelperRun`; of the
properties the runs check, every safety invariant and action property proved,
with the three refinements. Left, in order:

1. What a user sees of the limits as an abstract specification (one value per role,
   changed in one step, by the command that is about it or not at all), implemented by
   `ResourceTxn` under a refinement mapping from `InspectResources`.
2. The same for the gateway: the markers and at most one process, with the loop, the
   locks and the reload requests as its implementation.
3. Shared step and frame lemmas where proofs repeat each other (`GatewayControl_proofs`
   and `CustomServices_proofs`, the long case lists of `BoxLifecycle_proofs`).

Out of the proof system's reach: the liveness properties.
