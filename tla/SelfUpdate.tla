------------------------------ MODULE SelfUpdate ------------------------------
(***************************************************************************)
(* The release channel and the commands that install from it.              *)
(*                                                                         *)
(* Each tagged version has a release job, which uploads the checksums and  *)
(* the binary and then moves the latest pointer (release.yml,              *)
(* release-plan.py).  Jobs run one at a time but in any order, and may     *)
(* fail half-way and be run again.                                         *)
(*                                                                         *)
(* On the user's machine any number of `tx9 upgrade` (selfupdate.Update)   *)
(* and install.sh run at the same time.  Connections break, fall silent,   *)
(* end early, deliver something else or never end; processes are killed    *)
(* and the power fails at every step.                                      *)
(***************************************************************************)
EXTENDS Naturals, Sequences, FiniteSets

CONSTANTS
    Updaters,     \* processes on the user's machine
    Kinds,        \* what they run: subset of {"upgrade", "force", "install"}
    Releases,     \* the versions to be released, as sequences of numbers
    LocalBuilds,  \* version strings of programs that users built themselves
    Pieces,       \* pieces a binary arrives in
    Cap,          \* maxAssetBytes in pieces
    MaxJobs,      \* bound on release jobs
    MaxCommands,  \* bound on commands
    MaxFaults     \* bound on failures of any kind

ASSUME SelfUpdateAssumption ==
    /\ Kinds \subseteq {"upgrade", "force", "install"}
    /\ Releases \subseteq Seq(Nat) \ {<<>>} /\ IsFiniteSet(Releases)
    /\ LocalBuilds \subseteq Seq(Nat) /\ Releases \cap LocalBuilds = {}
    /\ {Pieces, Cap, MaxJobs, MaxCommands, MaxFaults} \subseteq Nat
    /\ 0 < Pieces /\ Pieces <= Cap

VARIABLES
    objects,  \* version -> its objects in the bucket
    latest,   \* latest.txt, or NoVersion
    job,      \* the release job that runs
    done,     \* history: versions whose release job has come to its end, or
              \* has at least moved the pointer
    bin,      \* the file at the path of the executable
    past,     \* what a power cut may bring back: the files replaced since the last
              \* one, for nobody flushes the directory
    lossy,    \* the data of bin or of one of these are not on disk
    scripted, \* history: install.sh placed a program since the last power cut
    upd,      \* the commands
    puzzled,  \* history: an update that met no failure found an object missing
              \* or a digest that does not match
    budget    \* jobs, commands and failures so far

channel == <<objects, latest, job, done>>
machine == <<bin, past, lossy, scripted>>
vars    == <<objects, latest, job, done, bin, past, lossy, scripted, upd, puzzled, budget>>

\* Version strings.  NoVersion is everything that is not dotted numbers ("",
\* "dev", custom builds), and a latest pointer that is not there.
NoVersion == <<>>
Versions  == Releases \cup LocalBuilds \cup {NoVersion}

\* CompareVersions(a, b) > 0 for dotted numbers: a missing component is 0.
Part(v, i)  == IF i <= Len(v) THEN v[i] ELSE 0
Newer(a, b) == \E i \in 1 .. Len(a) :
                  /\ Part(a, i) > Part(b, i)
                  /\ \A j \in 1 .. i - 1 : Part(a, j) = Part(b, j)

\* Files: how much of which program they hold.
Whole(v) == [v |-> v, n |-> Pieces, foul |-> FALSE]
Programs == {Whole(v) : v \in Versions}
Torn     == [v |-> NoVersion, n |-> 0, foul |-> TRUE]
NoFile   == [v |-> NoVersion, n |-> 0, foul |-> FALSE]
Files    == [v : Versions, n : 0 .. Cap + 1, foul : BOOLEAN]

Assets == {"sums", "binary"}
NoJob  == [pc |-> "idle", v |-> NoVersion, promote |-> FALSE]
Idle   == [pc |-> "idle", kind |-> "none", cur |-> NoVersion, want |-> NoVersion,
           conn |-> "none", file |-> NoFile, fault |-> FALSE]

Jobs == [pc : {"idle", "plan", "sums", "binary", "promote"}, v : Versions, promote : BOOLEAN]
Commands ==
    [pc : {"idle", "latest", "sums", "stage", "get", "verify", "sync", "rename"},
     kind : Kinds \cup {"none"}, cur : Versions, want : Versions,
     conn : {"none", "up", "silent", "short", "endless"}, file : Files, fault : BOOLEAN]

TypeOK ==
    /\ done \subseteq Releases
    /\ objects \in [Releases -> SUBSET Assets]
    /\ latest \in Releases \cup {NoVersion}
    /\ job \in Jobs
    /\ {bin} \cup past \subseteq Programs \cup {Torn}
    /\ lossy \in BOOLEAN /\ scripted \in BOOLEAN
    /\ upd \in [Updaters -> Commands]
    /\ puzzled \in BOOLEAN
    /\ budget \in [jobs : 0 .. MaxJobs, commands : 0 .. MaxCommands, faults : 0 .. MaxFaults]

Init ==
    /\ objects = [v \in Releases |-> {}] /\ latest = NoVersion
    /\ job = NoJob /\ done = {}
    /\ bin \in {Whole(v) : v \in LocalBuilds \cup {NoVersion}}
    /\ past = {} /\ lossy = FALSE /\ scripted = FALSE
    /\ upd = [u \in Updaters |-> Idle]
    /\ puzzled = FALSE
    /\ budget = [jobs |-> 0, commands |-> 0, faults |-> 0]

Fails == budget.faults < MaxFaults /\ budget' = [budget EXCEPT !.faults = @ + 1]

-----------------------------------------------------------------------------
(* Publishing.                                                             *)

\* A tag of a new version starts its job, and a job that failed, or did not,
\* may be run again; no two run together ("concurrency: release"), but a
\* delayed tag may bring an older version after a newer one.
StartJob(v) ==
    /\ job = NoJob
    /\ budget.jobs < MaxJobs /\ budget' = [budget EXCEPT !.jobs = @ + 1]
    /\ job' = [NoJob EXCEPT !.pc = "plan", !.v = v]
    /\ UNCHANGED <<objects, latest, done, machine, upd, puzzled>>

JobUnchanged == UNCHANGED <<machine, upd, puzzled, budget>>

\* Mutant: the pointer is moved whenever a job runs.
PlanAlways ==
    /\ job.pc = "plan"
    /\ job' = [job EXCEPT !.pc = "sums", !.promote = TRUE]
    /\ UNCHANGED <<objects, latest, done>> /\ JobUnchanged

\* release_plan: promote when newer than the pointer, or when there is none.
Plan ==
    /\ job.pc = "plan"
    /\ job' = [job EXCEPT !.pc = "sums",
                          !.promote = (latest = NoVersion \/ Newer(job.v, latest))]
    /\ UNCHANGED <<objects, latest, done>> /\ JobUnchanged

\* One object after the other, in the order of their names.
Put(asset, next) ==
    /\ job.pc = asset
    /\ objects' = [objects EXCEPT ![job.v] = @ \cup {asset}]
    /\ job' = [job EXCEPT !.pc = next]
    /\ UNCHANGED <<latest, done>> /\ JobUnchanged

Flip ==
    /\ latest' = IF job.promote THEN job.v ELSE latest
    /\ done' = done \cup {job.v}
    /\ UNCHANGED objects

Promote ==
    /\ job.pc = "promote" /\ Flip
    /\ job' = NoJob
    /\ JobUnchanged

\* The upload at hand may have taken effect all the same.
JobFails ==
    /\ job # NoJob /\ Fails
    /\ job' = NoJob
    /\ \/ UNCHANGED <<objects, latest, done>>
       \/ /\ job.pc \in Assets
          /\ objects' = [objects EXCEPT ![job.v] = @ \cup {job.pc}]
          /\ UNCHANGED <<latest, done>>
       \/ job.pc = "promote" /\ job.promote /\ Flip
    /\ UNCHANGED <<machine, upd, puzzled>>

Publishing ==
    \/ \E v \in Releases : StartJob(v)
    \/ Plan \/ Put("sums", "binary") \/ Put("binary", "promote") \/ Promote \/ JobFails

-----------------------------------------------------------------------------
(* Commands.                                                               *)

Goto(u, step) == upd' = [upd EXCEPT ![u].pc = step]

\* A command returns: its staged file is removed (defer os.Remove, trap EXIT).
End(u) == upd' = [upd EXCEPT ![u] = Idle] /\ UNCHANGED <<puzzled, budget>>

\* The network or the disk fails a call.
FailEnd(u) == Fails /\ upd' = [upd EXCEPT ![u] = Idle] /\ UNCHANGED puzzled

\* A missing object or a digest that does not match.
Refuse(u) ==
    /\ puzzled' = (puzzled \/ ~upd[u].fault)
    /\ upd' = [upd EXCEPT ![u] = Idle]
    /\ UNCHANGED budget

Advance(u, step) == Goto(u, step) /\ UNCHANGED <<puzzled, budget>>
Host == UNCHANGED <<channel, machine>>

\* An upgrade runs the installed program and knows that one's version; only
\* --force replaces a program without an ordered version.  install.sh asks
\* nothing and makes its staging directory first.
Start(u, kind) ==
    /\ upd[u].pc = "idle"
    /\ kind = "install" \/ bin # Torn
    /\ kind = "upgrade" => bin.v # NoVersion
    /\ budget.commands < MaxCommands
    /\ budget' = [budget EXCEPT !.commands = @ + 1]
    /\ upd' = [upd EXCEPT ![u] = [Idle EXCEPT !.pc = "latest", !.kind = kind, !.cur = bin.v]]
    /\ UNCHANGED puzzled /\ Host

ByScript(u) == upd[u].kind = "install"

\* Mutant: the versions are not compared.
FetchLatestBlind(u) ==
    /\ upd[u].pc = "latest" /\ latest # NoVersion
    /\ upd' = [upd EXCEPT ![u].want = latest,
                          ![u].pc = IF ByScript(u) THEN "stage" ELSE "sums"]
    /\ UNCHANGED <<puzzled, budget>> /\ Host

\* fetchLatestVersion, then the comparison.
FetchLatest(u) ==
    /\ upd[u].pc = "latest"
    /\ \/ FailEnd(u)
       \/ /\ \/ latest = NoVersion
             \/ upd[u].kind = "upgrade" /\ ~Newer(latest, upd[u].cur)
          /\ End(u)
       \/ /\ latest # NoVersion
          /\ upd[u].kind = "upgrade" => Newer(latest, upd[u].cur)
          /\ upd' = [upd EXCEPT ![u].want = latest,
                                ![u].pc = IF ByScript(u) THEN "stage" ELSE "sums"]
          /\ UNCHANGED <<puzzled, budget>>
    /\ Host

\* Mutant: checksums.txt of the latest release instead of the resolved one.
FetchLatestSums(u) ==
    /\ upd[u].pc = "sums"
    /\ upd' = [upd EXCEPT ![u].want = latest,
                          ![u].pc = IF ByScript(u) THEN "verify" ELSE "stage"]
    /\ UNCHANGED <<puzzled, budget>> /\ Host

\* checksums.txt of the resolved version; the digest in it stands for the
\* published binary of that version.
FetchSums(u) ==
    /\ upd[u].pc = "sums"
    /\ \/ FailEnd(u)
       \/ /\ "sums" \in objects[upd[u].want]
          /\ Advance(u, IF ByScript(u) THEN "verify" ELSE "stage")
       \/ "sums" \notin objects[upd[u].want] /\ Refuse(u)
    /\ Host

\* A private file beside the executable, and the request for the binary.
Stage(u) ==
    /\ upd[u].pc = "stage"
    /\ \/ FailEnd(u)
       \/ /\ "binary" \in objects[upd[u].want]
          /\ upd' = [upd EXCEPT ![u].pc = "get", ![u].conn = "up",
                                ![u].file = [NoFile EXCEPT !.v = upd[u].want]]
          /\ UNCHANGED <<puzzled, budget>>
       \/ "binary" \notin objects[upd[u].want] /\ Refuse(u)
    /\ Host

\* The next piece arrives, sound or not; a body that never ends goes on.
Receive(u) ==
    /\ upd[u].pc = "get" /\ upd[u].file.n <= Cap
    /\ upd[u].conn = "endless" \/ (upd[u].conn = "up" /\ upd[u].file.n < Pieces)
    /\ \/ upd' = [upd EXCEPT ![u].file.n = @ + 1] /\ UNCHANGED budget
       \/ /\ Fails
          /\ upd' = [upd EXCEPT ![u].file.n = @ + 1, ![u].file.foul = TRUE, ![u].fault = TRUE]
    /\ UNCHANGED puzzled /\ Host

\* The body ends, as it should or early without an error.
BodyEnds(u) ==
    /\ upd[u].pc = "get"
    /\ upd[u].conn = "short" \/ (upd[u].conn = "up" /\ upd[u].file.n = Pieces)
    /\ upd' = [upd EXCEPT ![u].pc = IF ByScript(u) THEN "sums" ELSE "verify", ![u].conn = "none"]
    /\ UNCHANGED <<puzzled, budget>> /\ Host

\* What the peer or the network does to a download.
Disturb(u, how) ==
    /\ upd[u].pc = "get" /\ upd[u].conn = "up"
    /\ Fails
    /\ upd' = [upd EXCEPT ![u].conn = how, ![u].fault = TRUE]
    /\ UNCHANGED puzzled /\ Host

\* Mutant: no stall timer.
GiveUpAtCap(u) ==
    /\ upd[u].pc = "get"
    /\ upd[u].file.n > Cap /\ End(u)
    /\ Host

\* downloadStallTimeout without a byte, more than maxAssetBytes, or a
\* connection that breaks.
GiveUp(u) ==
    /\ upd[u].pc = "get"
    /\ \/ (upd[u].conn = "silent" \/ upd[u].file.n > Cap) /\ End(u)
       \/ upd[u].conn = "up" /\ FailEnd(u)
    /\ Host

\* The digest of what arrived is the published one.
Verify(u) ==
    /\ upd[u].pc = "verify"
    /\ IF upd[u].file = Whole(upd[u].want)
       THEN Advance(u, IF ByScript(u) THEN "rename" ELSE "sync")
       ELSE Refuse(u)
    /\ Host

\* chmod, fsync and close; install.sh has no such step.
Sync(u) ==
    /\ upd[u].pc = "sync"
    /\ Advance(u, "rename") \/ FailEnd(u)
    /\ Host

Replace(u, synced) ==
    /\ bin' = upd[u].file /\ past' = past \cup {bin}
    /\ lossy' = (lossy \/ ~synced) /\ scripted' = (scripted \/ ByScript(u))

\* Mutant: the new program is not flushed before the rename.
RenameUnflushed(u) ==
    /\ upd[u].pc = "rename"
    /\ Replace(u, FALSE) /\ End(u)
    /\ UNCHANGED channel

\* The rename over the executable; the directory is not flushed.
Rename(u) ==
    /\ upd[u].pc = "rename"
    /\ \/ Replace(u, ~ByScript(u)) /\ End(u)
       \/ FailEnd(u) /\ UNCHANGED machine
    /\ UNCHANGED channel

Proceed(u) ==
    \/ FetchLatest(u) \/ FetchSums(u) \/ Stage(u) \/ Receive(u) \/ BodyEnds(u) \/ GiveUp(u)
    \/ Verify(u) \/ Sync(u) \/ Rename(u)

\* A killed command leaves its staged file, which nobody looks at again.
Kill(u) == upd[u].pc # "idle" /\ FailEnd(u) /\ Host

\* Every process dies; any number of the last renames may not be on disk, and
\* data that nobody flushed may be lost.
PowerCut ==
    /\ Fails
    /\ bin' \in {bin} \cup past \cup (IF lossy THEN {Torn} ELSE {})
    /\ past' = {} /\ lossy' = FALSE /\ scripted' = FALSE
    /\ upd' = [u \in Updaters |-> Idle]
    /\ UNCHANGED <<channel, puzzled>>

Next ==
    \/ Publishing
    \/ \E u \in Updaters :
          \/ \E kind \in Kinds : Start(u, kind)
          \/ Proceed(u) \/ Kill(u)
          \/ \E how \in {"silent", "short", "endless"} : Disturb(u, how)
    \/ PowerCut

\* A command runs on: its requests have deadlines, its download a stall timer.
Fairness == \A u \in Updaters : WF_vars(Proceed(u))

Spec == Init /\ [][Next]_vars /\ Fairness

-----------------------------------------------------------------------------
(* Properties.                                                             *)

\* The pointer names the newest version that was ever published to the end,
\* whatever the order of the jobs, their failures, before an upload or after it
\* took effect, and their repetitions; in particular it never goes back
\* (release.yml, "Serialize release runs").
LatestIsNewest ==
    IF done = {} THEN latest = NoVersion
    ELSE latest \in done /\ \A v \in done : ~Newer(v, latest)

\* An update that finds an object missing, or a binary and a digest that do
\* not match, met a failure of its own connection: a release published in
\* between, or half published, never makes it fail (selfupdate.Update,
\* "resolve the version once"; release.yml, "latest.txt is flipped last").
FailsOnlyByFault == ~puzzled

\* `tx9 upgrade` without --force may put an older program in place of a newer
\* one only when that one arrived while it ran.
DowngradeOnlyByRace ==
    [][\A u \in Updaters :
          /\ upd[u].pc = "rename" /\ upd[u].kind = "upgrade"
          /\ upd'[u].pc = "idle" /\ budget' = budget
          => Newer(bin'.v, bin.v) \/ bin.v # upd[u].cur]_vars

\* The executable is replaced in one step, by a complete published program; a
\* power cut leaves it or one it replaced since the last (verify, fsync, rename).
\* Only if install.sh, which flushes nothing, placed one of these may it leave
\* something else.
Installs == INSTANCE AtomicInstall WITH
    Lost <- Torn, installed <- bin, older <- past, lossy <- scripted,
    offered <- {Whole(v) : v \in {w \in Releases : objects[w] = Assets}}
InstallsAtomically == Installs!Spec

\* Every command ends: no silent peer, endless body or slow release holds it.
UpdateEnds == \A u \in Updaters : upd[u].pc # "idle" ~> upd[u].pc = "idle"

=============================================================================
