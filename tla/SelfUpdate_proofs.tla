--------------------------- MODULE SelfUpdate_proofs ---------------------------
(***************************************************************************)
(* Proofs about SelfUpdate, for any releases, any number of commands and   *)
(* release jobs and any number of failures.                                *)
(***************************************************************************)
EXTENDS SelfUpdate, TLAPS

\* The bucket: what a job has uploaded is there, what it has promoted is
\* complete, and no complete release is newer than the pointer.
Channel ==
    /\ \A v \in done : objects[v] = Assets
    /\ latest = NoVersion <=> done = {}
    /\ latest # NoVersion => latest \in done
    /\ \A v \in done : ~Newer(v, latest)

\* The job that runs decided on the pointer that is still there.
Job ==
    /\ job.pc = "idle" => job = NoJob
    /\ job.pc # "idle" => job.v \in Releases
    /\ job.pc \in {"binary", "promote"} => "sums" \in objects[job.v]
    /\ job.pc = "promote" => "binary" \in objects[job.v]
    /\ job.pc \in {"sums", "binary", "promote"} =>
          (job.promote <=> latest = NoVersion \/ Newer(job.v, latest))

\* A command wants a complete release, newer than its own program unless it is
\* forced, and without a failure it has what it wants.
Wants(c) ==
    c.pc \notin {"idle", "latest"} =>
        /\ c.want \in Releases /\ objects[c.want] = Assets
        /\ c.kind = "upgrade" => Newer(c.want, c.cur)
Has(c) ==
    /\ c.pc = "get" => c.file.v = c.want
    /\ c.pc = "get" /\ ~c.fault =>
          c.conn = "up" /\ ~c.file.foul /\ c.file.n <= Pieces
    /\ c.pc = "get" /\ c.conn = "up" => c.file.n <= Pieces
    /\ c.pc = "sums" /\ c.kind = "install" /\ ~c.fault => c.file = Whole(c.want)
    /\ c.pc = "verify" /\ ~c.fault => c.file = Whole(c.want)
    /\ c.pc \in {"sync", "rename"} => c.file = Whole(c.want)
Updates == \A u \in Updaters : Wants(upd[u]) /\ Has(upd[u])

\* Only install.sh places a program that is not on disk.
Durable == lossy => scripted

IInv == TypeOK /\ Channel /\ Job /\ Updates /\ Durable /\ ~puzzled

-----------------------------------------------------------------------------
(* Versions.                                                               *)

\* CompareVersions orders versions: nothing is newer than itself, and newer
\* than a newer one is newer.
LEMMA NewerIrreflexive == \A a \in Seq(Nat) : ~Newer(a, a)
BY DEF Newer, Part

LEMMA NewerTransitive ==
    ASSUME NEW a \in Seq(Nat), NEW b \in Seq(Nat), NEW c \in Seq(Nat),
           Newer(a, b), Newer(b, c)
    PROVE  Newer(a, c)
<1>1. \A v \in Seq(Nat), i \in Nat \ {0} : Part(v, i) \in Nat
    BY DEF Part
<1>2. PICK i \in 1 .. Len(a) :
          Part(a, i) > Part(b, i) /\ \A j \in 1 .. i - 1 : Part(a, j) = Part(b, j)
    BY DEF Newer
<1>3. PICK k \in 1 .. Len(b) :
          Part(b, k) > Part(c, k) /\ \A j \in 1 .. k - 1 : Part(b, j) = Part(c, j)
    BY DEF Newer
<1>4. Len(a) \in Nat /\ Len(b) \in Nat
    OBVIOUS
<1>5. CASE i <= k
  <2>1. Part(a, i) > Part(c, i)
    <3>1. Part(a, i) \in Nat /\ Part(b, i) \in Nat /\ Part(c, i) \in Nat
        BY <1>1, <1>2, <1>4
    <3>2. Part(b, i) >= Part(c, i)
      <4>1. CASE i = k
          BY <3>1, <4>1, <1>3
      <4>2. CASE i < k
        <5>1. i \in 1 .. k - 1
            BY <1>2, <1>3, <1>4, <4>2
        <5> QED
            BY <5>1, <3>1, <1>3
      <4> QED
          BY <4>1, <4>2, <1>2, <1>3, <1>4, <1>5
    <3> QED
        BY <3>1, <3>2, <1>2
  <2>2. \A j \in 1 .. i - 1 : Part(a, j) = Part(c, j)
      BY <1>2, <1>3, <1>4, <1>5
  <2> QED
      BY <2>1, <2>2 DEF Newer
<1>6. CASE k < i
  <2>1. k \in 1 .. Len(a) /\ Part(a, k) > Part(c, k)
      BY <1>1, <1>2, <1>3, <1>4, <1>6
  <2>2. \A j \in 1 .. k - 1 : Part(a, j) = Part(c, j)
      BY <1>2, <1>3, <1>4, <1>6
  <2> QED
      BY <2>1, <2>2 DEF Newer
<1> QED
    BY <1>4, <1>5, <1>6

\* The bound counters and the job, one update at a time.
Budgets == [jobs : 0 .. MaxJobs, commands : 0 .. MaxCommands, faults : 0 .. MaxFaults]

LEMMA BudgetUpdates ==
    ASSUME NEW b \in Budgets
    PROVE  /\ b.jobs < MaxJobs => [b EXCEPT !.jobs = @ + 1] \in Budgets
           /\ b.commands < MaxCommands => [b EXCEPT !.commands = @ + 1] \in Budgets
           /\ b.faults < MaxFaults => [b EXCEPT !.faults = @ + 1] \in Budgets
BY SelfUpdateAssumption DEF SelfUpdateAssumption, Budgets

LEMMA JobUpdates ==
    ASSUME NEW j \in Jobs, NEW p \in {"plan", "sums", "binary", "promote"}, NEW b \in BOOLEAN
    PROVE  /\ NoJob \in Jobs
           /\ [j EXCEPT !.pc = p] \in Jobs /\ [j EXCEPT !.pc = p, !.promote = b] \in Jobs
           /\ \A v \in Releases : [NoJob EXCEPT !.pc = p, !.v = v] \in Jobs
BY DEF Jobs, NoJob, NoVersion, Versions

LEMMA VersionSets == Releases \subseteq Seq(Nat) /\ NoVersion \notin Releases
                     /\ Releases \cup {NoVersion} \subseteq Versions
BY SelfUpdateAssumption DEF SelfUpdateAssumption, NoVersion, Versions

LEMMA FileSets ==
    /\ Torn \in Files /\ NoFile \in Files /\ Idle \in Commands
    /\ \A v \in Versions : Whole(v) \in Files
BY SelfUpdateAssumption, VersionSets
   DEF SelfUpdateAssumption, Torn, NoFile, Files, Whole, Idle, Commands

-----------------------------------------------------------------------------
(* The release jobs.                                                       *)

\* A step of a job leaves the machine and the commands alone and takes nothing
\* out of the bucket.
LEMMA PublishingKeeps ==
    ASSUME IInv, Publishing
    PROVE  IInv'
<1> USE DEF IInv, JobUnchanged
<1>1. UNCHANGED <<bin, past, lossy, scripted, upd, puzzled>>
    BY DEF Publishing, StartJob, Plan, Put, Promote, JobFails, machine
<1>10. job.pc # "idle" => job.v \in Releases
    BY DEF Job
<1>2. /\ objects' \in [Releases -> SUBSET Assets]
      /\ \A v \in Releases : objects[v] \subseteq objects'[v]
  <2>1. objects \in [Releases -> SUBSET Assets]
      BY DEF TypeOK
  <2>2. ASSUME NEW asset \in Assets, NEW v,
               objects' = [objects EXCEPT ![v] = @ \cup {asset}]
        PROVE  /\ objects' \in [Releases -> SUBSET Assets]
               /\ \A w \in Releases : objects[w] \subseteq objects'[w]
      BY <2>1, <2>2
  <2>3. CASE Put("sums", "binary") \/ Put("binary", "promote")
      BY <2>2, <2>3 DEF Put, Assets
  <2>4. CASE UNCHANGED objects
      BY <2>1, <2>4
  <2>5. CASE JobFails
      BY <2>2, <2>4, <2>5 DEF JobFails, Flip
  <2> QED
      BY <2>3, <2>4, <2>5 DEF Publishing, StartJob, Plan, Promote, Flip
<1>3. job' \in Jobs
  <2>1. job \in Jobs
      BY DEF TypeOK
  <2>2. (latest = NoVersion \/ Newer(job.v, latest)) \in BOOLEAN
      OBVIOUS
  <2>3. CASE Plan
      BY <2>1, <2>2, <2>3, JobUpdates DEF Plan
  <2>4. CASE ~Plan
      BY <2>1, <2>4, JobUpdates DEF Publishing, StartJob, Put, Promote, JobFails
  <2> QED
      BY <2>3, <2>4
<1>4. budget' \in Budgets
  <2>1. budget \in Budgets
      BY DEF TypeOK, Budgets
  <2> QED
      BY <2>1, BudgetUpdates DEF Publishing, StartJob, Plan, Put, Promote, JobFails, Fails
<1>5. done' \subseteq Releases /\ latest' \in Releases \cup {NoVersion}
    BY <1>10 DEF Publishing, StartJob, Plan, Put, Promote, Flip, JobFails, NoJob, TypeOK
<1>6. TypeOK'
    BY <1>1, <1>2, <1>3, <1>4, <1>5 DEF TypeOK, Budgets
<1>7. Updates' /\ Durable' /\ ~puzzled'
  <2>1. \A v \in Releases : objects[v] = Assets => objects'[v] = Assets
      BY <1>2
  <2> QED
      BY <1>1, <2>1 DEF Updates, Wants, Has, Durable
<1>8. Channel' /\ Job'
  <2>1. CASE \E v \in Releases : StartJob(v)
      BY <2>1 DEF StartJob, Channel, Job, NoJob
  <2>2. CASE Plan
      BY <2>2 DEF Plan, Channel, Job, NoJob, TypeOK, Jobs
  <2>3. CASE Put("sums", "binary") \/ Put("binary", "promote")
      BY <1>2, <2>3 DEF Put, Channel, Job, NoJob, TypeOK, Jobs, Assets
  <2>4. ASSUME job.pc = "promote", Flip PROVE Channel'
    <3>1. objects[job.v] = Assets /\ job.v \in Releases
        BY <2>4 DEF Job, TypeOK, Assets
    <3>2. \A v \in done' : ~Newer(v, latest')
      <4>1. CASE job.promote
        <5>1. latest' = job.v /\ (latest = NoVersion \/ Newer(job.v, latest))
            BY <2>4, <4>1 DEF Flip, Job
        <5>2. ~Newer(job.v, job.v)
            BY <3>1, VersionSets, NewerIrreflexive
        <5>3. ASSUME NEW v \in done, Newer(v, job.v) PROVE FALSE
          <6>1. latest # NoVersion /\ latest \in Releases /\ v \in Releases /\ Newer(job.v, latest)
              BY <5>1 DEF Channel, TypeOK
          <6>2. Newer(v, latest)
              BY <3>1, <5>3, <6>1, VersionSets, NewerTransitive
          <6> QED
              BY <6>2 DEF Channel
        <5> QED
            BY <2>4, <5>1, <5>2, <5>3 DEF Flip
      <4>2. CASE ~job.promote
          BY <2>4, <4>2 DEF Flip, Job, Channel
      <4> QED
          BY <4>1, <4>2
    <3> QED
        BY <2>4, <3>1, <3>2, VersionSets DEF Flip, Channel, Job
  <2>5. CASE Promote
      BY <2>4, <2>5 DEF Promote, Job, NoJob
  <2>6. CASE JobFails
    <3>1. Job'
        BY <2>6 DEF JobFails, Job, NoJob
    <3>2. CASE UNCHANGED <<objects, latest, done>>
        BY <3>1, <3>2 DEF Channel
    <3>3. CASE UNCHANGED <<latest, done>> /\ objects' \in [Releases -> SUBSET Assets]
      <4>1. done \subseteq Releases
          BY DEF TypeOK
      <4> QED
          BY <1>2, <3>1, <3>3, <4>1 DEF Channel
    <3> QED
        BY <1>2, <2>4, <2>6, <3>1, <3>2, <3>3 DEF JobFails
  <2> QED
      BY <2>1, <2>2, <2>3, <2>5, <2>6 DEF Publishing
<1> QED
    BY <1>6, <1>7, <1>8

-----------------------------------------------------------------------------
(* The commands.                                                           *)

\* Every update of a command's record that an action makes.
LEMMA CommandUpdates ==
    ASSUME NEW c \in Commands,
           NEW p \in {"idle", "latest", "sums", "stage", "get", "verify", "sync", "rename"},
           NEW k \in {"none", "up", "silent", "short", "endless"}, NEW v \in Versions
    PROVE  /\ [c EXCEPT !.pc = p] \in Commands
           /\ [c EXCEPT !.want = v, !.pc = p] \in Commands
           /\ [c EXCEPT !.pc = p, !.conn = k] \in Commands
           /\ [c EXCEPT !.conn = k, !.fault = TRUE] \in Commands
           /\ [c EXCEPT !.pc = p, !.conn = k, !.file = [NoFile EXCEPT !.v = v]] \in Commands
           /\ \A kind \in Kinds :
                 [Idle EXCEPT !.pc = p, !.kind = kind, !.cur = v] \in Commands
<1>1. NoFile \in Files /\ NoVersion \in Versions
    BY FileSets DEF Versions
<1>2. [NoFile EXCEPT !.v = v] \in Files
    BY <1>1 DEF Files
<1> QED
    BY <1>1, <1>2 DEF Commands, Idle

\* The piece that arrives.
LEMMA PieceArrives ==
    ASSUME NEW c \in Commands, c.file.n <= Cap
    PROVE  /\ [c EXCEPT !.file.n = @ + 1] \in Commands
           /\ [c EXCEPT !.file.n = @ + 1, !.file.foul = TRUE, !.fault = TRUE] \in Commands
<1>1. c.file \in Files
    BY DEF Commands
<1>2. [c.file EXCEPT !.n = @ + 1] \in Files
    BY <1>1, SelfUpdateAssumption DEF SelfUpdateAssumption, Files
<1>3. [c.file EXCEPT !.n = @ + 1, !.foul = TRUE] \in Files
    BY <1>2 DEF Files
<1> QED
    BY <1>1, <1>2, <1>3 DEF Commands

\* One command moves to c and the rest of the world stays as it is.
LEMMA OneMoves ==
    ASSUME IInv, NEW u \in Updaters, NEW c \in Commands,
           upd' = [upd EXCEPT ![u] = c], Wants(c), Has(c),
           UNCHANGED <<objects, latest, job, done, bin, past, lossy, scripted, puzzled>>,
           budget' \in Budgets
    PROVE  IInv'
<1>1. TypeOK'
  <2>1. upd' \in [Updaters -> Commands]
      BY DEF IInv, TypeOK
  <2> QED
      BY <2>1 DEF IInv, TypeOK, Budgets
<1>2. Updates'
  <2>1. \A w \in Updaters : upd'[w] = IF w = u THEN c ELSE upd[w]
      BY DEF IInv, TypeOK
  <2>2. \A w \in Updaters : Wants(upd'[w]) /\ Has(upd'[w])
      BY <2>1 DEF IInv, Updates
  <2>3. objects' = objects
      OBVIOUS
  <2> QED
      BY <2>2, <2>3 DEF Updates, Wants, Has
<1> QED
    BY <1>1, <1>2 DEF IInv, Channel, Job, Durable

\* A command ends, for any reason.
LEMMA OneEnds ==
    ASSUME IInv, NEW u \in Updaters, upd' = [upd EXCEPT ![u] = Idle],
           UNCHANGED <<objects, latest, job, done, bin, past, lossy, scripted, puzzled>>,
           budget' \in Budgets
    PROVE  IInv'
BY OneMoves, FileSets DEF Wants, Has, Idle, NoFile

LEMMA FailKeeps ==
    ASSUME IInv, NEW u \in Updaters, FailEnd(u), UNCHANGED machine, UNCHANGED channel
    PROVE  IInv'
<1>1. budget' \in Budgets
    BY BudgetUpdates DEF FailEnd, Fails, IInv, TypeOK, Budgets
<1> QED
    BY <1>1, OneEnds DEF FailEnd, machine, channel

LEMMA EndKeeps ==
    ASSUME IInv, NEW u \in Updaters, End(u), Host
    PROVE  IInv'
BY OneEnds DEF End, IInv, TypeOK, Budgets, machine, channel, Host

\* A command that goes on to another step.
LEMMA AdvanceKeeps ==
    ASSUME IInv, NEW u \in Updaters,
           NEW p \in {"idle", "latest", "sums", "stage", "get", "verify", "sync", "rename"},
           Advance(u, p), Host, Wants([upd[u] EXCEPT !.pc = p]), Has([upd[u] EXCEPT !.pc = p])
    PROVE  IInv'
<1>1. upd[u] \in Commands /\ budget \in Budgets
    BY DEF IInv, TypeOK, Budgets
<1>2. [upd[u] EXCEPT !.pc = p] \in Commands
    BY <1>1, CommandUpdates DEF Versions, NoVersion
<1>3. upd' = [upd EXCEPT ![u] = [upd[u] EXCEPT !.pc = p]]
    BY DEF Advance, Goto
<1>4. UNCHANGED <<objects, latest, job, done, bin, past, lossy, scripted, puzzled>>
      /\ budget' \in Budgets
    BY <1>1 DEF Advance, Host, machine, channel
<1> HIDE DEF Wants, Has
<1> QED
    BY <1>2, <1>3, <1>4, OneMoves

\* The actions, one by one.
LEMMA StartKeeps ==
    ASSUME IInv, NEW u \in Updaters, NEW kind \in Kinds, Start(u, kind)
    PROVE  IInv'
<1> DEFINE c == [Idle EXCEPT !.pc = "latest", !.kind = kind, !.cur = bin.v]
<1>1. bin.v \in Versions
    BY DEF IInv, TypeOK, Programs, Torn, Whole, Versions, NoVersion
<1>2. c \in Commands
    BY <1>1, FileSets, CommandUpdates
<1>3. budget' \in Budgets
    BY BudgetUpdates DEF Start, IInv, TypeOK, Budgets
<1>4. Wants(c) /\ Has(c)
    BY DEF Wants, Has, Idle, NoFile
<1>5. upd' = [upd EXCEPT ![u] = c]
      /\ UNCHANGED <<objects, latest, job, done, bin, past, lossy, scripted, puzzled>>
    BY DEF Start, Host, machine, channel
<1> HIDE DEF c
<1> QED
    BY <1>2, <1>3, <1>4, <1>5, OneMoves

LEMMA FetchLatestKeeps ==
    ASSUME IInv, NEW u \in Updaters, FetchLatest(u)
    PROVE  IInv'
<1>1. CASE FailEnd(u) /\ Host
    BY <1>1, FailKeeps DEF Host
<1>2. CASE End(u) /\ Host
    BY <1>2, EndKeeps
<1>3. CASE /\ latest # NoVersion
           /\ upd[u].kind = "upgrade" => Newer(latest, upd[u].cur)
           /\ upd' = [upd EXCEPT ![u].want = latest,
                                 ![u].pc = IF ByScript(u) THEN "stage" ELSE "sums"]
           /\ UNCHANGED <<puzzled, budget>> /\ Host /\ upd[u].pc = "latest"
  <2> DEFINE p == IF ByScript(u) THEN "stage" ELSE "sums"
             c == [upd[u] EXCEPT !.want = latest, !.pc = p]
  <2>1. upd[u] \in Commands /\ budget \in Budgets /\ latest \in Releases
      BY <1>3 DEF IInv, TypeOK, Budgets
  <2>2. p \in {"sums", "stage"} /\ (p = "sums" => upd[u].kind # "install")
      BY DEF ByScript
  <2> HIDE DEF p
  <2>3. c \in Commands
      BY <2>1, <2>2, VersionSets, CommandUpdates
  <2>4. objects[latest] = Assets
      BY <1>3 DEF IInv, Channel
  <2>5. c.pc = p /\ c.want = latest /\ c.kind = upd[u].kind /\ c.cur = upd[u].cur
      BY <2>1 DEF Commands
  <2>6. Wants(c) /\ Has(c)
      BY <1>3, <2>1, <2>2, <2>4, <2>5 DEF Wants, Has
  <2>7. upd' = [upd EXCEPT ![u] = c]
      BY <1>3 DEF p
  <2> HIDE DEF c
  <2> QED
      BY <1>3, <2>1, <2>3, <2>6, <2>7, OneMoves DEF Host, machine, channel
<1> QED
    BY <1>1, <1>2, <1>3 DEF FetchLatest

LEMMA FetchSumsKeeps ==
    ASSUME IInv, NEW u \in Updaters, FetchSums(u)
    PROVE  IInv'
<1>1. upd[u] \in Commands /\ Wants(upd[u]) /\ Has(upd[u]) /\ upd[u].pc = "sums"
    BY DEF IInv, TypeOK, Updates, FetchSums
<1>2. CASE FailEnd(u) /\ Host
    BY <1>2, FailKeeps DEF Host
<1>3. CASE "sums" \notin objects[upd[u].want]
    BY <1>1, <1>3 DEF Wants, Assets
<1>4. CASE Advance(u, IF ByScript(u) THEN "verify" ELSE "stage") /\ Host
  <2>1. CASE ByScript(u)
    <3>1. Wants([upd[u] EXCEPT !.pc = "verify"]) /\ Has([upd[u] EXCEPT !.pc = "verify"])
        BY <1>1, <2>1 DEF Wants, Has, Commands, ByScript
    <3> QED
        BY <1>4, <2>1, <3>1, AdvanceKeeps
  <2>2. CASE ~ByScript(u)
    <3>1. Wants([upd[u] EXCEPT !.pc = "stage"]) /\ Has([upd[u] EXCEPT !.pc = "stage"])
        BY <1>1, <2>2 DEF Wants, Has, Commands, ByScript
    <3> QED
        BY <1>4, <2>2, <3>1, AdvanceKeeps
  <2> QED
      BY <2>1, <2>2
<1> QED
    BY <1>2, <1>3, <1>4 DEF FetchSums

LEMMA StageKeeps ==
    ASSUME IInv, NEW u \in Updaters, Stage(u)
    PROVE  IInv'
<1>1. upd[u] \in Commands /\ Wants(upd[u]) /\ Has(upd[u]) /\ upd[u].pc = "stage"
    BY DEF IInv, TypeOK, Updates, Stage
<1>2. CASE FailEnd(u) /\ Host
    BY <1>2, FailKeeps DEF Host
<1>3. CASE "binary" \notin objects[upd[u].want]
    BY <1>1, <1>3 DEF Wants, Assets
<1>4. CASE /\ upd' = [upd EXCEPT ![u].pc = "get", ![u].conn = "up",
                                 ![u].file = [NoFile EXCEPT !.v = upd[u].want]]
           /\ UNCHANGED <<puzzled, budget>> /\ Host
  <2> DEFINE c == [upd[u] EXCEPT !.pc = "get", !.conn = "up",
                                 !.file = [NoFile EXCEPT !.v = upd[u].want]]
  <2>1. c \in Commands
    <3>1. upd[u].want \in Versions
        BY <1>1 DEF Commands
    <3> QED
        BY <1>1, <3>1, CommandUpdates
  <2>2. c.pc = "get" /\ c.conn = "up" /\ c.file.v = upd[u].want /\ c.want = upd[u].want
        /\ c.file.n = 0 /\ c.file.foul = FALSE /\ c.kind = upd[u].kind /\ c.cur = upd[u].cur
      BY <1>1 DEF Commands, NoFile
  <2>3. Wants(c) /\ Has(c)
    <3> HIDE DEF c
    <3>1. 0 <= Pieces
        BY SelfUpdateAssumption DEF SelfUpdateAssumption
    <3> QED
        BY <1>1, <2>2, <3>1 DEF Wants, Has
  <2>4. upd' = [upd EXCEPT ![u] = c] /\ budget' \in Budgets
      BY <1>4 DEF IInv, TypeOK, Budgets
  <2> HIDE DEF c
  <2> QED
      BY <1>4, <2>1, <2>3, <2>4, OneMoves DEF Host, machine, channel
<1> QED
    BY <1>2, <1>3, <1>4 DEF Stage

\* A sound piece, at most to the length of the program while nothing is wrong;
\* an unsound one is a failure of the connection.
LEMMA ReceiveKeeps ==
    ASSUME IInv, NEW u \in Updaters, Receive(u)
    PROVE  IInv'
<1>1. upd[u] \in Commands /\ Wants(upd[u]) /\ Has(upd[u]) /\ upd[u].pc = "get"
      /\ budget \in Budgets
    BY DEF IInv, TypeOK, Updates, Receive, Budgets
<1>2. upd[u].file \in Files /\ upd[u].file.n \in Nat /\ Pieces \in Nat
      /\ upd[u].file.n <= Cap
    BY <1>1, SelfUpdateAssumption DEF SelfUpdateAssumption, Commands, Files, Receive
<1>3. CASE UNCHANGED budget /\ upd' = [upd EXCEPT ![u].file.n = @ + 1]
  <2> DEFINE c == [upd[u] EXCEPT !.file.n = @ + 1]
  <2>1. c \in Commands
      BY <1>1, <1>2, PieceArrives
  <2>2. /\ c.pc = "get" /\ c.conn = upd[u].conn /\ c.want = upd[u].want /\ c.fault = upd[u].fault
        /\ c.kind = upd[u].kind /\ c.cur = upd[u].cur
        /\ c.file.v = upd[u].file.v /\ c.file.foul = upd[u].file.foul
        /\ c.file.n = upd[u].file.n + 1
      BY <1>1, <1>2 DEF Commands, Files
  <2>3. c.conn = "endless" \/ (c.conn = "up" /\ c.file.n <= Pieces)
      BY <1>2, <2>2 DEF Receive
  <2>4. Wants(c) /\ Has(c)
    <3> HIDE DEF c
    <3> QED
        BY <1>1, <2>2, <2>3 DEF Wants, Has
  <2>5. upd' = [upd EXCEPT ![u] = c]
      BY <1>3
  <2> HIDE DEF c
  <2> QED
      BY <1>1, <1>3, <2>1, <2>4, <2>5, OneMoves DEF Receive, Host, machine, channel
<1>4. CASE Fails /\ upd' = [upd EXCEPT ![u].file.n = @ + 1, ![u].file.foul = TRUE,
                                       ![u].fault = TRUE]
  <2> DEFINE c == [upd[u] EXCEPT !.file.n = @ + 1, !.file.foul = TRUE, !.fault = TRUE]
  <2>1. c \in Commands
      BY <1>1, <1>2, PieceArrives
  <2>2. /\ c.pc = "get" /\ c.conn = upd[u].conn /\ c.want = upd[u].want /\ c.fault = TRUE
        /\ c.kind = upd[u].kind /\ c.cur = upd[u].cur
        /\ c.file.v = upd[u].file.v /\ c.file.n = upd[u].file.n + 1
      BY <1>1, <1>2 DEF Commands, Files
  <2>3. c.conn = "endless" \/ (c.conn = "up" /\ c.file.n <= Pieces)
      BY <1>2, <2>2 DEF Receive
  <2>4. Wants(c) /\ Has(c)
    <3> HIDE DEF c
    <3> QED
        BY <1>1, <2>2, <2>3 DEF Wants, Has
  <2>5. upd' = [upd EXCEPT ![u] = c] /\ budget' \in Budgets
      BY <1>1, <1>4, BudgetUpdates DEF Fails
  <2> HIDE DEF c
  <2> QED
      BY <1>4, <2>1, <2>4, <2>5, OneMoves DEF Receive, Host, machine, channel
<1> QED
    BY <1>3, <1>4 DEF Receive

\* A body that ends as it should was all of the program.
LEMMA BodyEndsKeeps ==
    ASSUME IInv, NEW u \in Updaters, BodyEnds(u)
    PROVE  IInv'
<1> DEFINE p == IF ByScript(u) THEN "sums" ELSE "verify"
           c == [upd[u] EXCEPT !.pc = p, !.conn = "none"]
<1>1. upd[u] \in Commands /\ Wants(upd[u]) /\ Has(upd[u]) /\ upd[u].pc = "get"
      /\ budget \in Budgets
    BY DEF IInv, TypeOK, Updates, BodyEnds, Budgets
<1>2. p \in {"sums", "verify"} /\ (p = "sums" => upd[u].kind = "install")
    BY DEF ByScript
<1>3. upd' = [upd EXCEPT ![u] = c]
    BY DEF BodyEnds
<1> HIDE DEF p
<1>4. c \in Commands
    BY <1>1, <1>2, CommandUpdates DEF Versions, NoVersion
<1>5. c.pc = p /\ c.want = upd[u].want /\ c.kind = upd[u].kind /\ c.cur = upd[u].cur
      /\ c.file = upd[u].file /\ c.fault = upd[u].fault
    BY <1>1 DEF Commands
<1> HIDE DEF c
<1>6. ~c.fault => c.file = Whole(c.want)
  <2>1. upd[u].file \in Files
      BY <1>1 DEF Commands
  <2>2. ~upd[u].fault => /\ upd[u].file.n = Pieces /\ upd[u].file.v = upd[u].want
                         /\ upd[u].file.foul = FALSE
      BY <1>1, <2>1 DEF Has, BodyEnds, Files
  <2> QED
      BY <1>5, <2>1, <2>2 DEF Whole, Files
<1>7. Wants(c) /\ Has(c)
    BY <1>1, <1>2, <1>5, <1>6 DEF Wants, Has
<1> QED
    BY <1>1, <1>3, <1>4, <1>7, OneMoves DEF BodyEnds, Host, machine, channel

LEMMA GiveUpKeeps ==
    ASSUME IInv, NEW u \in Updaters, GiveUp(u)
    PROVE  IInv'
BY EndKeeps, FailKeeps DEF GiveUp, Host

LEMMA DisturbKeeps ==
    ASSUME IInv, NEW u \in Updaters, NEW how \in {"silent", "short", "endless"}, Disturb(u, how)
    PROVE  IInv'
<1> DEFINE c == [upd[u] EXCEPT !.conn = how, !.fault = TRUE]
<1>1. upd[u] \in Commands /\ Wants(upd[u]) /\ Has(upd[u]) /\ upd[u].pc = "get"
      /\ budget \in Budgets
    BY DEF IInv, TypeOK, Updates, Disturb, Budgets
<1>2. c \in Commands
    BY <1>1, CommandUpdates DEF Versions, NoVersion
<1>3. c.pc = "get" /\ c.want = upd[u].want /\ c.kind = upd[u].kind /\ c.cur = upd[u].cur
      /\ c.file = upd[u].file /\ c.fault = TRUE /\ c.conn = how
    BY <1>1 DEF Commands
<1>4. upd' = [upd EXCEPT ![u] = c] /\ budget' \in Budgets
    BY <1>1, BudgetUpdates DEF Disturb, Fails
<1> HIDE DEF c
<1>5. Wants(c) /\ Has(c)
    BY <1>1, <1>3 DEF Wants, Has
<1> QED
    BY <1>2, <1>4, <1>5, OneMoves DEF Disturb, Host, machine, channel

\* Nothing that was not damaged is refused, and what passes is the program.
LEMMA VerifyKeeps ==
    ASSUME IInv, NEW u \in Updaters, Verify(u)
    PROVE  IInv'
<1>1. upd[u] \in Commands /\ Wants(upd[u]) /\ Has(upd[u]) /\ upd[u].pc = "verify"
      /\ budget \in Budgets
    BY DEF IInv, TypeOK, Updates, Verify, Budgets
<1>2. CASE upd[u].file = Whole(upd[u].want)
  <2>1. PICK p \in {"rename", "sync"} : Advance(u, p)
      BY <1>2 DEF Verify
  <2> DEFINE c == [upd[u] EXCEPT !.pc = p]
  <2>2. c.pc = p /\ c.want = upd[u].want /\ c.kind = upd[u].kind /\ c.cur = upd[u].cur
        /\ c.file = upd[u].file
      BY <1>1 DEF Commands
  <2>3. Wants(c) /\ Has(c)
    <3> HIDE DEF c
    <3> QED
        BY <1>1, <1>2, <2>2 DEF Wants, Has
  <2> QED
      BY <2>1, <2>3, AdvanceKeeps DEF Verify
<1>3. CASE upd[u].file # Whole(upd[u].want)
  <2>1. upd[u].fault
      BY <1>1, <1>3 DEF Has
  <2>2. puzzled = FALSE
      BY DEF IInv, TypeOK
  <2>3. Refuse(u) /\ Host
      BY <1>3 DEF Verify
  <2>4. puzzled' = (puzzled \/ ~upd[u].fault)
      BY <2>3 DEF Refuse
  <2>5. puzzled' = puzzled
      BY <2>1, <2>2, <2>4
  <2> QED
      BY <1>1, <2>3, <2>5, OneEnds DEF Refuse, Host, machine, channel
<1> QED
    BY <1>2, <1>3

LEMMA SyncKeeps ==
    ASSUME IInv, NEW u \in Updaters, Sync(u)
    PROVE  IInv'
<1>1. upd[u] \in Commands /\ Wants(upd[u]) /\ Has(upd[u]) /\ upd[u].pc = "sync"
    BY DEF IInv, TypeOK, Updates, Sync
<1>2. CASE Advance(u, "rename") /\ Host
  <2>1. Wants([upd[u] EXCEPT !.pc = "rename"]) /\ Has([upd[u] EXCEPT !.pc = "rename"])
      BY <1>1 DEF Wants, Has, Commands
  <2> QED
      BY <1>2, <2>1, AdvanceKeeps
<1> QED
    BY <1>2, FailKeeps DEF Sync, Host

\* What is renamed over the executable is a complete published program.
LEMMA RenameKeeps ==
    ASSUME IInv, NEW u \in Updaters, Rename(u)
    PROVE  IInv'
<1>1. upd[u] \in Commands /\ Wants(upd[u]) /\ Has(upd[u]) /\ upd[u].pc = "rename"
    BY DEF IInv, TypeOK, Updates, Rename
<1>2. CASE FailEnd(u) /\ UNCHANGED machine /\ UNCHANGED channel
    BY <1>2, FailKeeps
<1>3. CASE Replace(u, ~ByScript(u)) /\ End(u) /\ UNCHANGED channel
  <2>1. bin' \in Programs
      BY <1>1, <1>3, VersionSets DEF Replace, Has, Wants, Programs
  <2>2. upd' \in [Updaters -> Commands]
      BY <1>3, FileSets DEF End, IInv, TypeOK
  <2>3. past' = past \cup {bin} /\ lossy' \in BOOLEAN /\ scripted' \in BOOLEAN
      BY <1>3, Zenon DEF Replace
  <2>4. TypeOK'
      BY <1>3, <2>1, <2>2, <2>3 DEF IInv, TypeOK, End, channel
  <2>5. Updates'
    <3>1. \A w \in Updaters : upd'[w] = Idle \/ upd'[w] = upd[w]
        BY <1>3 DEF End, IInv, TypeOK
    <3>2. Wants(Idle) /\ Has(Idle)
        BY DEF Wants, Has, Idle, NoFile
    <3>3. objects' = objects
        BY <1>3 DEF channel
    <3>4. \A w \in Updaters : Wants(upd'[w]) /\ Has(upd'[w])
        BY <3>1, <3>2 DEF IInv, Updates
    <3> QED
        BY <3>3, <3>4 DEF Updates, Wants, Has
  <2>6. Durable'
      BY <1>3 DEF Replace, IInv, Durable
  <2>7. Channel' /\ Job' /\ ~puzzled'
      BY <1>3 DEF IInv, Channel, Job, channel, End
  <2> QED
      BY <2>4, <2>5, <2>6, <2>7 DEF IInv
<1> QED
    BY <1>2, <1>3 DEF Rename

LEMMA PowerCutKeeps ==
    ASSUME IInv, PowerCut
    PROVE  IInv'
<1>1. TypeOK'
  <2>1. budget' \in Budgets
      BY BudgetUpdates DEF PowerCut, Fails, IInv, TypeOK, Budgets
  <2>2. upd' \in [Updaters -> Commands]
      BY FileSets DEF PowerCut
  <2>3. {bin'} \cup past' \subseteq Programs \cup {Torn}
      BY DEF PowerCut, IInv, TypeOK
  <2> QED
      BY <2>1, <2>2, <2>3 DEF PowerCut, IInv, TypeOK, Budgets, channel
<1>2. Updates'
    BY DEF PowerCut, Updates, Wants, Has, Idle, NoFile
<1> QED
    BY <1>1, <1>2 DEF PowerCut, IInv, Channel, Job, Durable, channel

-----------------------------------------------------------------------------
(* The invariant.                                                          *)

LEMMA IInvInit == Init => IInv
<1> SUFFICES ASSUME Init PROVE IInv
    OBVIOUS
<1>1. TypeOK
  <2>1. bin \in Programs /\ past = {}
      BY DEF Init, Programs, Versions
  <2>2. budget \in Budgets
    <3>1. 0 \in 0 .. MaxJobs /\ 0 \in 0 .. MaxCommands /\ 0 \in 0 .. MaxFaults
        BY SelfUpdateAssumption DEF SelfUpdateAssumption
    <3> QED
        BY <3>1 DEF Init, Budgets
  <2>3. job \in Jobs
      BY DEF Init, NoJob, Jobs, Versions, NoVersion
  <2>4. upd \in [Updaters -> Commands]
      BY FileSets DEF Init
  <2> QED
      BY <2>1, <2>2, <2>3, <2>4 DEF Init, TypeOK, Budgets
<1>2. Channel /\ Job /\ Durable /\ ~puzzled
    BY DEF Init, Channel, Job, Durable, NoJob
<1>3. Updates
    BY DEF Init, Updates, Wants, Has, Idle, NoFile
<1> QED
    BY <1>1, <1>2, <1>3 DEF IInv

LEMMA IInvStep == IInv /\ [Next]_vars => IInv'
<1> SUFFICES ASSUME IInv, [Next]_vars PROVE IInv'
    OBVIOUS
<1>1. CASE Publishing
    BY <1>1, PublishingKeeps
<1>2. ASSUME NEW u \in Updaters, NEW kind \in Kinds, Start(u, kind) PROVE IInv'
    BY <1>2, StartKeeps
<1>3. ASSUME NEW u \in Updaters, Proceed(u) PROVE IInv'
    BY <1>3, FetchLatestKeeps, FetchSumsKeeps, StageKeeps, ReceiveKeeps, BodyEndsKeeps,
       GiveUpKeeps, VerifyKeeps, SyncKeeps, RenameKeeps DEF Proceed
<1>4. ASSUME NEW u \in Updaters, Kill(u) PROVE IInv'
    BY <1>4, FailKeeps DEF Kill, Host
<1>5. ASSUME NEW u \in Updaters, NEW how \in {"silent", "short", "endless"}, Disturb(u, how)
      PROVE  IInv'
    BY <1>5, DisturbKeeps
<1>6. CASE PowerCut
    BY <1>6, PowerCutKeeps
<1>7. CASE UNCHANGED vars
    BY <1>7 DEF IInv, TypeOK, Channel, Job, Updates, Wants, Has, Durable, vars
<1> QED
    BY <1>1, <1>2, <1>3, <1>4, <1>5, <1>6, <1>7 DEF Next

LEMMA IInvCorrect == Spec => []IInv
BY IInvInit, IInvStep, PTL DEF Spec

\* Every value of the state is of its kind, whatever is released and however
\* many commands run.
THEOREM TypeCorrect == Spec => []TypeOK
BY IInvCorrect, PTL DEF IInv

\* latest.txt names the newest version published to the end, for any order of
\* release jobs that fail, are repeated or overtake each other
\* (release_plan, "Serialize release runs").
THEOREM LatestCorrect == Spec => []LatestIsNewest
<1>1. IInv => LatestIsNewest
    BY DEF IInv, Channel, LatestIsNewest
<1> QED
    BY <1>1, IInvCorrect, PTL

\* An update that meets no failure of its own finds the objects and the digest
\* of the version it resolved, whatever is published meanwhile
\* (selfupdate.Update: the version is resolved once).
THEOREM FailsCorrect == Spec => []FailsOnlyByFault
<1>1. IInv => FailsOnlyByFault
    BY DEF IInv, FailsOnlyByFault
<1> QED
    BY <1>1, IInvCorrect, PTL

\* A step that ends a command without a failure is its own.
LEMMA OwnStep ==
    ASSUME IInv, [Next]_vars, NEW u \in Updaters, upd[u].pc = "rename",
           upd'[u].pc = "idle", budget' = budget
    PROVE  bin' = upd[u].file
<1>1. upd \in [Updaters -> Commands] /\ budget \in Budgets
    BY DEF IInv, TypeOK, Budgets
<1>2. ~Fails
    BY <1>1 DEF Fails, Budgets
<1>3. upd'[u] # upd[u]
    OBVIOUS
<1>4. ASSUME NEW w \in Updaters, w # u, NEW e, upd' = [upd EXCEPT ![w] = e] PROVE FALSE
    BY <1>1, <1>3, <1>4
<1>5. ~Publishing
    BY <1>3 DEF Publishing, StartJob, Plan, Put, Promote, JobFails, JobUnchanged
<1>6. ASSUME NEW w \in Updaters, NEW kind \in Kinds, Start(w, kind) PROVE FALSE
    BY <1>4, <1>6 DEF Start
<1>7. ASSUME NEW w \in Updaters, w # u, Proceed(w) PROVE FALSE
  <2>1. PICK e : upd' = [upd EXCEPT ![w] = e]
      BY <1>2, <1>7 DEF Proceed, FetchLatest, FetchSums, Stage, Receive, BodyEnds, GiveUp,
         Verify, Sync, Rename, FailEnd, End, Refuse, Advance, Goto
  <2> QED
      BY <1>4, <1>7, <2>1
<1>8. CASE Proceed(u)
  <2>1. Rename(u)
      BY <1>8 DEF Proceed, FetchLatest, FetchSums, Stage, Receive, BodyEnds, GiveUp, Verify, Sync
  <2>2. Replace(u, ~ByScript(u))
      BY <1>2, <2>1 DEF Rename, FailEnd
  <2> QED
      BY <2>2 DEF Replace
<1>9. \A w \in Updaters : ~Kill(w) /\ \A how : ~Disturb(w, how)
    BY <1>2 DEF Kill, FailEnd, Disturb
<1>10. ~PowerCut
    BY <1>2 DEF PowerCut
<1> QED
    BY <1>3, <1>5, <1>6, <1>7, <1>8, <1>9, <1>10 DEF Next, vars

\* An upgrade that is not forced never replaces the program it found there by
\* an older one, or by the same.
THEOREM DowngradeCorrect == Spec => DowngradeOnlyByRace
<1>1. ASSUME IInv, [Next]_vars, NEW u \in Updaters,
             upd[u].pc = "rename", upd[u].kind = "upgrade", upd'[u].pc = "idle", budget' = budget
      PROVE  Newer(bin'.v, bin.v) \/ bin.v # upd[u].cur
  <2>1. bin' = upd[u].file
      BY <1>1, OwnStep
  <2>2. upd[u].file = Whole(upd[u].want) /\ Newer(upd[u].want, upd[u].cur)
      BY <1>1 DEF IInv, Updates, Wants, Has
  <2> QED
      BY <2>1, <2>2 DEF Whole
<1>2. IInv /\ [Next]_vars =>
        [\A u \in Updaters :
            /\ upd[u].pc = "rename" /\ upd[u].kind = "upgrade"
            /\ upd'[u].pc = "idle" /\ budget' = budget
            => Newer(bin'.v, bin.v) \/ bin.v # upd[u].cur]_vars
    BY <1>1
<1> QED
    BY <1>2, IInvCorrect, PTL DEF Spec, DowngradeOnlyByRace

-----------------------------------------------------------------------------
(* The refinement of AtomicInstall.                                        *)

Offered == {Whole(v) : v \in {w \in Releases : objects[w] = Assets}}

LEMMA InstallsInit == Init => Installs!Init
BY DEF Init, Installs!Init, Programs, Versions, Assets

\* Publishing offers a program when its last object arrives.
LEMMA PublishingOffers ==
    ASSUME IInv, Publishing
    PROVE  [Installs!Next]_Installs!vars
<1>1. UNCHANGED <<bin, past, lossy, scripted>>
    BY DEF Publishing, StartJob, Plan, Put, Promote, JobFails, JobUnchanged, machine
<1>2. CASE UNCHANGED objects
    BY <1>1, <1>2 DEF Installs!vars
<1>3. ASSUME NEW asset \in Assets, job.v \in Releases,
             objects' = [objects EXCEPT ![job.v] = @ \cup {asset}]
      PROVE  [Installs!Next]_Installs!vars
  <2>1. objects \in [Releases -> SUBSET Assets]
      BY DEF IInv, TypeOK
  <2>2. \A w \in Releases : objects'[w] = IF w = job.v THEN objects[w] \cup {asset}
                                         ELSE objects[w]
      BY <1>3, <2>1
  <2>3. CASE objects'[job.v] = Assets
    <3>1. {w \in Releases : objects'[w] = Assets}
             = {w \in Releases : objects[w] = Assets} \cup {job.v}
        BY <1>3, <2>1, <2>2, <2>3
    <3>2. PICK p \in Programs : p = Whole(job.v)
        BY <1>3 DEF Programs, Versions
    <3>3. Offered' = Offered \cup {p}
        BY <3>1, <3>2 DEF Offered, Whole
    <3>4. Installs!Offer(p)
        BY <1>1, <3>3 DEF Installs!Offer, Offered
    <3> QED
        BY <3>4 DEF Installs!Next
  <2>4. CASE objects'[job.v] # Assets
    <3>1. {w \in Releases : objects'[w] = Assets} = {w \in Releases : objects[w] = Assets}
        BY <1>3, <2>1, <2>2, <2>4
    <3>2. Offered' = Offered
        BY <3>1 DEF Offered, Whole
    <3> QED
        BY <1>1, <3>2 DEF Installs!vars, Offered
  <2> QED
      BY <2>3, <2>4
<1>4. CASE Put("sums", "binary") \/ Put("binary", "promote")
    BY <1>3, <1>4 DEF Put, Assets, IInv, Job
<1>5. CASE JobFails
    BY <1>2, <1>3, <1>5 DEF JobFails, Flip, Assets, IInv, Job
<1> QED
    BY <1>2, <1>4, <1>5 DEF Publishing, StartJob, Plan, Promote, Flip

\* The rename installs what was offered.
LEMMA RenameInstalls ==
    ASSUME IInv, NEW u \in Updaters, Rename(u)
    PROVE  [Installs!Next]_Installs!vars
<1>1. CASE UNCHANGED machine
    BY <1>1 DEF Rename, Installs!vars, machine, channel
<1>2. CASE Replace(u, ~ByScript(u))
  <2>1. upd[u].file = Whole(upd[u].want) /\ upd[u].want \in Releases
        /\ objects[upd[u].want] = Assets
      BY DEF IInv, Updates, Wants, Has, Rename
  <2>2. objects' = objects
      BY DEF Rename, channel
  <2>3. scripted' \in {scripted, TRUE}
    <3>1. scripted \in BOOLEAN /\ scripted' = (scripted \/ ByScript(u))
        BY <1>2 DEF Replace, IInv, TypeOK
    <3> QED
        BY <3>1, Zenon
  <2>4. bin' = Whole(upd[u].want) /\ past' = past \cup {bin}
      BY <1>2, <2>1 DEF Replace
  <2>5. Whole(upd[u].want) \in Offered /\ Offered' = Offered
      BY <2>1, <2>2 DEF Offered
  <2>6. Installs!Install(Whole(upd[u].want))
      BY <2>3, <2>4, <2>5 DEF Installs!Install, Offered
  <2>7. Whole(upd[u].want) \in Programs
      BY <2>1 DEF Programs, Versions
  <2> QED
      BY <2>6, <2>7 DEF Installs!Next
<1> QED
    BY <1>1, <1>2 DEF Rename

LEMMA InstallsStep == IInv /\ [Next]_vars => [Installs!Next]_Installs!vars
<1> SUFFICES ASSUME IInv, [Next]_vars PROVE [Installs!Next]_Installs!vars
    OBVIOUS
<1>1. CASE Publishing
    BY <1>1, PublishingOffers
<1>2. CASE UNCHANGED vars \/ Host
    BY <1>2 DEF vars, Host, channel, machine, Installs!vars
<1>3. ASSUME NEW u \in Updaters, Rename(u) PROVE [Installs!Next]_Installs!vars
    BY <1>3, RenameInstalls
<1>4. CASE PowerCut
  <2>1. Installs!PowerCut
      BY <1>4 DEF PowerCut, channel, IInv, Durable, Installs!PowerCut
  <2> QED
      BY <2>1 DEF Installs!Next
<1> QED
    BY <1>1, <1>2, <1>3, <1>4 DEF Next, Proceed, Start, Kill, Disturb, FetchLatest, FetchSums,
       Stage, Receive, BodyEnds, GiveUp, Verify, Sync

\* Upgrades and install.sh replace the executable in one step by a program that
\* was published in full, through failures and kills; a power cut leaves it or one
\* it replaced since the last, and anything else only if install.sh placed one of
\* these: SelfUpdate implements AtomicInstall (selfupdate.Update, install.sh).
THEOREM InstallsCorrect == Spec => InstallsAtomically
BY InstallsInit, InstallsStep, IInvCorrect, PTL DEF Spec, InstallsAtomically, Installs!Spec

===============================================================================
