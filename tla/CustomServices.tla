---------------------------- MODULE CustomServices --------------------------
(***************************************************************************)
(* tx9-services: the reconciler of a box's custom services.                *)
(*                                                                         *)
(* Users drop executable files into services.d; reconcile starts one       *)
(* capture supervisor (ServiceCapture) per valid file, records its         *)
(* identity in a state file, replaces it when the file changes and stops   *)
(* it when the file goes.  The workload loop, login shells and users run   *)
(* it at the same time, under one lock, and hb pause and resume run        *)
(* stop-all and reconcile after they have set or removed the quiesce       *)
(* marker.  Supervisors and services die whenever they like, some do not   *)
(* die when told, reconcilers are killed, and process numbers are reused.  *)
(***************************************************************************)
EXTENDS Naturals, FiniteSets

CONSTANTS
    Services,     \* safe names of drop-ins
    Versions,     \* fingerprints of a drop-in, with the capture settings
    NoVersion,    \* no valid drop-in of that name
    Users,        \* processes users start hb in
    Loop,         \* the workload loop
    Nobody,       \* nobody holds the lock
    Pids,         \* process numbers of supervisors
    Unkillable,   \* which of "capture" and "group" may survive SIGKILL
    MaxSpawns,    \* bound on supervisors started
    MaxCommands,  \* bound on users' commands
    MaxChanges    \* bound on edits of drop-ins
CONSTANT MaxFaults \* bound on deaths, kills and foreign processes

Procs  == Users \cup {Loop}
Spawns == 1 .. MaxSpawns  \* a supervisor: process number and start time
NoRec  == 0

ASSUME ServicesAssumption ==
    /\ Nobody \notin Procs /\ Loop \notin Users
    /\ NoVersion \notin Versions
    /\ Unkillable \subseteq {"capture", "group"}
    /\ {MaxSpawns, MaxCommands, MaxChanges, MaxFaults} \subseteq Nat

VARIABLES
    defn,      \* service -> what services.d holds
    quiesced,  \* the quiesce marker
    recOf,     \* service -> the supervisor its state file names
    recFp,     \* service -> the fingerprint its state file names
    cap,       \* supervisor -> "none", "forked", then as in ServiceCapture
    kid,       \* supervisor -> its service, the direct child, is alive
    kin,       \* supervisor -> others of that child's process group are alive
    termed,    \* supervisor -> it was sent SIGTERM
    svcOf, pidOf,   \* supervisor -> its service, its process number
    foreign,   \* process numbers other programs hold
    spawned,   \* supervisors started so far
    holder,    \* the reconciliation lock
    pc, loc,   \* process -> where it is, its local variables
    orphans,   \* history: supervisors whose starter was killed before their record held
    outlived,  \* history: supervisors that got SIGKILL while their kin lived
    stopped,   \* history: a pause succeeded and nobody resumed since
    stray,     \* history: "stop" or "start" signalled another program
    commands, changes, faults

table  == <<cap, kid, kin, termed, svcOf, pidOf, foreign, spawned>>
files  == <<recOf, recFp>>
hist   == <<orphans, outlived, stopped, stray>>
counts == <<commands, changes, faults>>
vars   == <<defn, quiesced, recOf, recFp, cap, kid, kin, termed, svcOf, pidOf, foreign,
            spawned, holder, pc, loc, orphans, outlived, stopped, stray, commands, changes,
            faults>>

Idle == [cmd     |-> "none",   \* reload, pause, resume or loop
         stopAll |-> FALSE,    \* stop-all rather than reconcile
         want    |-> [s \in Services |-> NoVersion],  \* desired
         helper  |-> TRUE,     \* tx9-logs was found
         todo    |-> {},       \* services this loop has still to visit
         bad     |-> {},       \* stop_failed
         failed  |-> FALSE,
         svc     |-> NoVersion, \* the service at hand
         id      |-> NoRec,    \* STATE_PID, STATE_START, or the fork's pid
         kid     |-> FALSE]    \* a child group was found

Steps == {"idle", "enter", "lock", "scan", "stops", "stopTerm", "stopWait", "stopKill",
          "stopReport", "gate", "starts", "record", "confirm", "giveUp", "abort", "release"}

Unlocked == {"idle", "enter", "lock"}

\* The local variables of a process.
Locals == [cmd : {"none", "reload", "pause", "resume", "loop"}, stopAll : BOOLEAN,
           want : [Services -> Versions \cup {NoVersion}], helper : BOOLEAN,
           todo : SUBSET Services, bad : SUBSET Services, failed : BOOLEAN,
           svc : Services \cup {NoVersion}, id : Spawns \cup {NoRec}, kid : BOOLEAN]

TypeOK ==
    /\ defn \in [Services -> Versions \cup {NoVersion}]
    /\ quiesced \in BOOLEAN
    /\ recOf \in [Services -> Spawns \cup {NoRec}]
    /\ recFp \in [Services -> Versions \cup {NoVersion}]
    /\ cap \in [Spawns -> {"none", "forked", "launch", "rest", "gone"}]
    /\ kid \in [Spawns -> BOOLEAN] /\ kin \in [Spawns -> BOOLEAN]
    /\ termed \in [Spawns -> BOOLEAN]
    /\ svcOf \in [Spawns -> Services \cup {NoVersion}]
    /\ pidOf \in [Spawns -> Pids \cup {NoRec}]
    /\ foreign \subseteq Pids
    /\ spawned \in 0 .. MaxSpawns
    /\ holder \in Procs \cup {Nobody}
    /\ pc \in [Procs -> Steps] /\ \A p \in Procs : pc[p] \notin Unlocked => holder = p
    /\ loc \in [Procs -> Locals]
    /\ orphans \subseteq Spawns /\ outlived \subseteq Spawns
    /\ stopped \in BOOLEAN /\ stray \subseteq {"stop", "start"}
    /\ commands \in 0 .. MaxCommands /\ changes \in 0 .. MaxChanges /\ faults \in 0 .. MaxFaults

Init ==
    /\ defn \in [Services -> Versions \cup {NoVersion}]
    /\ quiesced = FALSE
    /\ recOf = [s \in Services |-> NoRec] /\ recFp = [s \in Services |-> NoVersion]
    /\ cap = [i \in Spawns |-> "none"]
    /\ kid = [i \in Spawns |-> FALSE] /\ kin = [i \in Spawns |-> FALSE]
    /\ termed = [i \in Spawns |-> FALSE]
    /\ svcOf = [i \in Spawns |-> NoVersion] /\ pidOf = [i \in Spawns |-> NoRec]
    /\ foreign = {} /\ spawned = 0
    /\ holder = Nobody
    /\ pc = [p \in Procs |-> "idle"] /\ loc = [p \in Procs |-> Idle]
    /\ orphans = {} /\ outlived = {} /\ stopped = FALSE /\ stray = {}
    /\ commands = 0 /\ changes = 0 /\ faults = 0

-----------------------------------------------------------------------------
(* What the code reads.                                                    *)

\* What a supervisor does once it is exec'd.
Supervisor == INSTANCE ServiceCapture WITH Captures <- Spawns, Restart <- TRUE

\* It runs, and is about its command.
Up == Supervisor!Alive

\* _pid_identity_alive: that process number, started at that time.
IdentityAlive(i) == cap[i] \in {"forked"} \cup Up

\* Who has a process number now.
Holders(n) == {i \in Spawns : IdentityAlive(i) /\ pidOf[i] = n}

\* _state_process_matches: the recorded identity is alive and its arguments
\* are those of a capture of this very drop-in, so it has been exec'd.
Matches(s) == recOf[s] # NoRec /\ cap[recOf[s]] \in Up /\ svcOf[recOf[s]] = s

\* A capture with the fingerprint and the settings wanted now.
Current(p, s) == Matches(s) /\ recFp[s] = loc[p].want[s]

Recorded == {s \in Services : recOf[s] # NoRec}

\* Leave one service, with or without a failure, and go on with the loop.
Goto(p, step) == pc' = [pc EXCEPT ![p] = step]
Set(p, r) == loc' = [loc EXCEPT ![p] = r]
At(p, step) == pc[p] = step

Forget(s) == recOf' = [recOf EXCEPT ![s] = NoRec] /\ recFp' = [recFp EXCEPT ![s] = NoVersion]

-----------------------------------------------------------------------------
(* hb: the commands that call tx9-services.                                *)

Begin(p, c) ==
    /\ At(p, "idle")
    /\ IF p = Loop THEN c = "loop" /\ UNCHANGED commands
                   ELSE /\ c \in {"reload", "pause", "resume"}
                        /\ commands < MaxCommands /\ commands' = commands + 1
    /\ Goto(p, "enter") /\ Set(p, [Idle EXCEPT !.cmd = c])
    /\ UNCHANGED <<defn, quiesced, files, table, holder, hist, changes, faults>>

\* pause sets the marker first, resume and up remove it first, the loop looks
\* at it to choose between stop-all and reconcile.
Enter(p) ==
    /\ At(p, "enter")
    /\ quiesced' = CASE loc[p].cmd = "pause"  -> TRUE
                     [] loc[p].cmd = "resume" -> FALSE
                     [] OTHER                 -> quiesced
    /\ stopped' = (stopped /\ quiesced')
    /\ Set(p, [loc[p] EXCEPT !.stopAll = \/ loc[p].cmd = "pause"
                                         \/ loc[p].cmd = "loop" /\ quiesced])
    /\ Goto(p, "lock")
    /\ UNCHANGED <<defn, files, table, holder, orphans, outlived, stray, counts>>

\* flock -w: somebody else may hold it for the whole wait.
Lock(p) ==
    /\ At(p, "lock")
    /\ \/ /\ holder = Nobody /\ holder' = p
          /\ Goto(p, IF loc[p].stopAll THEN "stops" ELSE "scan")
          /\ Set(p, [loc[p] EXCEPT !.todo = IF loc[p].stopAll THEN Recorded ELSE {}])
       \/ /\ holder # Nobody /\ UNCHANGED holder
          /\ Goto(p, "idle") /\ Set(p, Idle)
    /\ UNCHANGED <<defn, quiesced, files, table, hist, counts>>

-----------------------------------------------------------------------------
(* _reconcile_locked and _stop_all_locked.                                 *)

\* The valid definitions and the helper, read once.
Scan(p) ==
    /\ At(p, "scan")
    /\ \E h \in BOOLEAN :
          /\ ~h => \E s \in Services : defn[s] # NoVersion
          /\ Set(p, [loc[p] EXCEPT !.want = defn, !.helper = h, !.failed = ~h,
                                   !.todo = Recorded])
    /\ Goto(p, "stops")
    /\ UNCHANGED <<defn, quiesced, files, table, holder, hist, counts>>

\* What stays: a current capture, and any wanted one while there is no helper.
Keeps(p, s) ==
    /\ ~loc[p].stopAll /\ loc[p].want[s] # NoVersion
    /\ ~loc[p].helper \/ Current(p, s)

\* The next state file: keep it, drop a record that matches nothing, or note
\* the supervisor and its child group and begin the stop.
StopNext(p) ==
    /\ At(p, "stops")
    /\ \E s \in loc[p].todo :
          LET rest == [loc[p] EXCEPT !.todo = @ \ {s}] IN
          IF Keeps(p, s) THEN Set(p, rest) /\ UNCHANGED <<files, pc>>
          ELSE IF ~Matches(s) THEN Set(p, rest) /\ Forget(s) /\ UNCHANGED pc
          ELSE /\ Set(p, [rest EXCEPT !.svc = s, !.id = recOf[s], !.kid = kid[recOf[s]]])
               /\ Goto(p, "stopTerm") /\ UNCHANGED files
    /\ UNCHANGED <<defn, quiesced, table, holder, hist, counts>>

StopsDone(p) ==
    /\ At(p, "stops") /\ loc[p].todo = {}
    /\ Goto(p, IF loc[p].stopAll THEN "release" ELSE "gate")
    /\ UNCHANGED <<defn, quiesced, files, table, holder, loc, hist, counts>>

\* A signal goes to whoever has the process number by now.
Hit(i, why) == stray' = IF pidOf[i] \in foreign THEN stray \cup {why} ELSE stray

\* SIGTERM ends a supervisor that is not exec'd yet; the others pass it on.
Term(i, why) ==
    /\ Hit(i, why)
    /\ termed' = [termed EXCEPT ![i] = TRUE]
    /\ cap' = [cap EXCEPT ![i] = IF @ = "forked" THEN "gone" ELSE @]

StopTerm(p) ==
    /\ At(p, "stopTerm")
    /\ IF IdentityAlive(loc[p].id)
       THEN Term(loc[p].id, "stop") /\ Goto(p, "stopWait") /\ UNCHANGED files
       ELSE Forget(loc[p].svc) /\ Goto(p, "stops") /\ UNCHANGED <<termed, cap, stray>>
    /\ UNCHANGED <<defn, quiesced, kid, kin, svcOf, pidOf, foreign, spawned, holder, loc, orphans,
                   outlived, stopped, counts>>

\* Something of what was noted is still alive.
Survives(p) == IdentityAlive(loc[p].id) \/ (loc[p].kid /\ kid[loc[p].id])

\* It all ends within the time allowed, or not.
StopWait(p) ==
    /\ At(p, "stopWait")
    /\ IF Survives(p) THEN Goto(p, "stopKill") ELSE Goto(p, "stopReport")
    /\ UNCHANGED <<defn, quiesced, files, table, holder, loc, hist, counts>>

\* A supervisor that gets SIGKILL sweeps nothing any more: of what it leaves the
\* kernel ends the direct child alone, unless that outlasts even this.
Dies(i) ==
    /\ cap' = [cap EXCEPT ![i] = "gone"]
    /\ kid' \in {[kid EXCEPT ![i] = FALSE]} \cup (IF "group" \in Unkillable THEN {kid} ELSE {})
    /\ outlived' = IF kin'[i] THEN outlived \cup {i} ELSE outlived

\* SIGKILL to the group noted, if its leader is not a zombie yet, and then to
\* the supervisor.  Some processes outlast even that.
Kill(p) ==
    LET i   == loc[p].id
        hit == loc[p].kid /\ kid[i]
    IN
    /\ kin' \in {[kin EXCEPT ![i] = @ /\ ~hit]}
                \cup (IF "group" \in Unkillable THEN {kin} ELSE {})
    /\ \/ IdentityAlive(i) /\ Dies(i)
       \/ /\ ~IdentityAlive(i) \/ "capture" \in Unkillable
          /\ kid' \in {[kid EXCEPT ![i] = @ /\ ~hit]}
                      \cup (IF "group" \in Unkillable THEN {kid} ELSE {})
          /\ UNCHANGED <<cap, outlived>>

\* Mutant: SIGKILL goes to whoever has the number now.
KillByNumber(p) ==
    /\ At(p, "stopKill")
    /\ Kill(p) /\ Hit(loc[p].id, "stop")
    /\ Goto(p, "stopReport")
    /\ UNCHANGED <<defn, quiesced, files, termed, svcOf, pidOf, foreign, spawned, holder, loc,
                   orphans, stopped, counts>>

\* Only what is still what was noted is killed.
StopKill(p) ==
    /\ At(p, "stopKill")
    /\ Kill(p)
    /\ IF IdentityAlive(loc[p].id) THEN Hit(loc[p].id, "stop") ELSE UNCHANGED stray
    /\ Goto(p, "stopReport")
    /\ UNCHANGED <<defn, quiesced, files, termed, svcOf, pidOf, foreign, spawned, holder, loc,
                   orphans, stopped, counts>>

\* Mutant: the record goes whatever survived.
StopReportForgets(p) ==
    /\ At(p, "stopReport")
    /\ Forget(loc[p].svc) /\ UNCHANGED loc
    /\ Goto(p, "stops")
    /\ UNCHANGED <<defn, quiesced, table, holder, hist, counts>>

\* The record goes only if nothing is left.
StopReport(p) ==
    /\ At(p, "stopReport")
    /\ IF Survives(p)
       THEN /\ Set(p, [loc[p] EXCEPT !.failed = TRUE, !.bad = @ \cup {loc[p].svc}])
            /\ UNCHANGED files
       ELSE Forget(loc[p].svc) /\ UNCHANGED loc
    /\ Goto(p, "stops")
    /\ UNCHANGED <<defn, quiesced, table, holder, hist, counts>>

\* Mutant: the marker is not looked at under the lock.
GateOpen(p) ==
    /\ At(p, "gate")
    /\ Goto(p, "starts")
    /\ Set(p, [loc[p] EXCEPT !.todo = {s \in Services : loc[p].want[s] # NoVersion}])
    /\ UNCHANGED <<defn, quiesced, files, table, holder, hist, counts>>

\* Nothing is started in a quiesced box.
Gate(p) ==
    /\ At(p, "gate")
    /\ IF quiesced THEN Goto(p, "release") /\ UNCHANGED loc
       ELSE /\ Goto(p, "starts")
            /\ Set(p, [loc[p] EXCEPT !.todo = {s \in Services : loc[p].want[s] # NoVersion}])
    /\ UNCHANGED <<defn, quiesced, files, table, holder, hist, counts>>

\* _start_one, the fork; the fork does not keep the lock open.
Spawn(p, s) ==
    /\ spawned < MaxSpawns
    /\ spawned' = spawned + 1
    /\ \E n \in {n \in Pids \ foreign : Holders(n) = {}} :
          pidOf' = [pidOf EXCEPT ![spawned'] = n]
    /\ cap' = [cap EXCEPT ![spawned'] = "forked"]
    /\ svcOf' = [svcOf EXCEPT ![spawned'] = s]
    /\ Set(p, [loc[p] EXCEPT !.todo = @ \ {s}, !.svc = s, !.id = spawned'])
    /\ Goto(p, "record")
    /\ UNCHANGED <<kid, kin, termed, foreign>>

\* Mutant: a service whose stop failed is started all the same.
StartAnyway(p) ==
    /\ At(p, "starts")
    /\ \E s \in loc[p].todo :
          IF ~loc[p].helper \/ Current(p, s)
          THEN Set(p, [loc[p] EXCEPT !.todo = @ \ {s}]) /\ UNCHANGED <<table, pc>>
          ELSE Spawn(p, s)
    /\ UNCHANGED <<defn, quiesced, files, holder, hist, counts>>

StartNext(p) ==
    /\ At(p, "starts")
    /\ \E s \in loc[p].todo :
          IF s \in loc[p].bad \/ ~loc[p].helper \/ Current(p, s)
          THEN Set(p, [loc[p] EXCEPT !.todo = @ \ {s}]) /\ UNCHANGED <<table, pc>>
          ELSE Spawn(p, s)
    /\ UNCHANGED <<defn, quiesced, files, holder, hist, counts>>

StartsDone(p) ==
    /\ At(p, "starts") /\ loc[p].todo = {}
    /\ Goto(p, "release")
    /\ UNCHANGED <<defn, quiesced, files, table, holder, loc, hist, counts>>

\* _write_state; if it fails the supervisor is told to end.  One that is gone
\* already has no start time to write.
Record(p) ==
    /\ At(p, "record")
    /\ \/ /\ recOf' = [recOf EXCEPT ![loc[p].svc] = loc[p].id]
          /\ recFp' = [recFp EXCEPT ![loc[p].svc] = loc[p].want[loc[p].svc]]
          /\ Goto(p, "confirm") /\ UNCHANGED <<cap, termed, stray>>
       \/ Term(loc[p].id, "start") /\ Goto(p, "abort") /\ UNCHANGED files
       \/ /\ ~IdentityAlive(loc[p].id)
          /\ Goto(p, "abort") /\ UNCHANGED <<files, cap, termed, stray>>
    /\ UNCHANGED <<defn, quiesced, kid, kin, svcOf, pidOf, foreign, spawned, holder, loc, orphans,
                   outlived, stopped, counts>>

\* Wait until the record matches; give up if it does not in time.
Confirm(p) ==
    /\ At(p, "confirm")
    /\ IF Matches(loc[p].svc) THEN Goto(p, "starts") ELSE Goto(p, "giveUp")
    /\ UNCHANGED <<defn, quiesced, files, table, holder, loc, hist, counts>>

GiveUp(p) ==
    /\ At(p, "giveUp")
    /\ Term(loc[p].id, "start") /\ Goto(p, "abort")
    /\ UNCHANGED <<defn, quiesced, files, kid, kin, svcOf, pidOf, foreign, spawned, holder, loc,
                   orphans, outlived, stopped, counts>>

\* wait for it to end, then drop its record if it was written.
Abort(p) ==
    /\ At(p, "abort") /\ ~IdentityAlive(loc[p].id)
    /\ IF recOf[loc[p].svc] = loc[p].id THEN Forget(loc[p].svc) ELSE UNCHANGED files
    /\ Set(p, [loc[p] EXCEPT !.failed = TRUE]) /\ Goto(p, "starts")
    /\ UNCHANGED <<defn, quiesced, table, holder, hist, counts>>

\* The command ends; a pause that stopped everything says so.
Release(p) ==
    /\ At(p, "release")
    /\ holder' = Nobody
    /\ stopped' = (stopped \/ (loc[p].cmd = "pause" /\ ~loc[p].failed /\ quiesced))
    /\ Goto(p, "idle") /\ Set(p, Idle)
    /\ UNCHANGED <<defn, quiesced, files, table, orphans, outlived, stray, counts>>

-----------------------------------------------------------------------------
(* The supervisors, users and accidents.                                   *)

Exec(i) ==
    /\ cap[i] = "forked"
    /\ cap' = [cap EXCEPT ![i] = "launch"]
    /\ UNCHANGED <<kid, kin, termed>>

\* A service that was told to end ends, or an unkillable one at last does.
KidEnds(i) == (termed[i] \/ cap[i] = "gone") /\ Supervisor!KidEnds(i)

Capture(i) ==
    /\ \/ Exec(i)
       \/ Supervisor!Launch(i) \/ Supervisor!LaunchFails(i) \/ Supervisor!Forks(i)
       \/ KidEnds(i) \/ Supervisor!KinEnd(i) \/ Supervisor!Again(i) \/ Supervisor!Ends(i)
    /\ UNCHANGED <<defn, quiesced, files, svcOf, pidOf, foreign, spawned, holder, pc, loc, hist,
                   counts>>

Edit(s, v) ==
    /\ changes < MaxChanges /\ changes' = changes + 1
    /\ defn' = [defn EXCEPT ![s] = v]
    /\ UNCHANGED <<quiesced, files, table, holder, pc, loc, hist, commands, faults>>

\* A service exits by itself, or its supervisor is killed.
KidCrash(i) ==
    /\ faults < MaxFaults /\ faults' = faults + 1
    /\ kid[i] /\ ~termed[i]
    /\ kid' = [kid EXCEPT ![i] = FALSE]
    /\ loc' = [p \in Procs |-> [loc[p] EXCEPT !.kid = @ /\ loc[p].id # i]]
    /\ UNCHANGED <<defn, quiesced, files, cap, kin, termed, svcOf, pidOf, foreign, spawned,
                   holder, pc, hist, commands, changes>>

CaptureKilled(i) ==
    /\ faults < MaxFaults /\ faults' = faults + 1
    /\ IdentityAlive(i) /\ UNCHANGED kin /\ Dies(i)
    /\ UNCHANGED <<defn, quiesced, files, termed, svcOf, pidOf, foreign, spawned, holder,
                   pc, loc, orphans, stopped, stray, commands, changes>>

\* Another program gets a free process number.
Reuse(n) ==
    /\ faults < MaxFaults /\ faults' = faults + 1
    /\ n \notin foreign /\ Holders(n) = {}
    /\ foreign' = foreign \cup {n}
    /\ UNCHANGED <<defn, quiesced, files, cap, kid, kin, termed, svcOf, pidOf, spawned, holder,
                   pc, loc, hist, commands, changes>>

\* The supervisor at hand has no state file yet, or one that does not match it
\* before it is exec'd, so that the next reconcile throws it away.
Untraced(p) == recOf[loc[p].svc] # loc[p].id \/ cap[loc[p].id] = "forked"

\* A reconciler is killed.  The supervisor it was starting may be on its own.
Crash(p) ==
    /\ faults < MaxFaults /\ faults' = faults + 1
    /\ p # Loop /\ ~At(p, "idle")
    /\ holder' = IF holder = p THEN Nobody ELSE holder
    /\ orphans' = IF pc[p] \in {"record", "confirm", "giveUp", "abort"} /\ Untraced(p)
                  THEN orphans \cup {loc[p].id} ELSE orphans
    /\ pc' = [pc EXCEPT ![p] = "idle"] /\ loc' = [loc EXCEPT ![p] = Idle]
    /\ UNCHANGED <<defn, quiesced, files, table, outlived, stopped, stray, commands, changes>>

-----------------------------------------------------------------------------
Step(p) ==
    \/ Enter(p) \/ Lock(p) \/ Scan(p)
    \/ StopNext(p) \/ StopsDone(p) \/ StopTerm(p) \/ StopWait(p) \/ StopKill(p) \/ StopReport(p)
    \/ Gate(p) \/ StartNext(p) \/ StartsDone(p) \/ Record(p) \/ Confirm(p) \/ GiveUp(p)
    \/ Abort(p) \/ Release(p)

Next ==
    \/ \E p \in Procs : Step(p) \/ Crash(p)
    \/ \E p \in Procs, c \in {"reload", "pause", "resume", "loop"} : Begin(p, c)
    \/ \E i \in Spawns : Capture(i) \/ KidCrash(i) \/ CaptureKilled(i)
    \/ \E s \in Services, v \in Versions \cup {NoVersion} : Edit(s, v)
    \/ \E n \in Pids : Reuse(n)

Spec == Init /\ [][Next]_vars

-----------------------------------------------------------------------------
(* Properties.                                                             *)

\* Every live supervisor can be found again: its service's state file names
\* it, or the holder of the lock is starting it.  So none is ever replaced
\* without being stopped, or left running twice.  Exempt are the ones whose
\* starter was killed before their state file was there and they were exec'd
\* (_write_state, _stop_one, _start_one).
EveryCaptureRecorded ==
    \A i \in Spawns : IdentityAlive(i) /\ i \notin orphans =>
        \/ recOf[svcOf[i]] = i
        \/ \E p \in Procs : holder = p /\ loc[p].id = i /\ pc[p] \in {"record", "abort"}

\* A supervisor, its service or another process of the service's group is there.
\* What a supervisor that got SIGKILL left of the group beside its direct child
\* counts for nothing: no record leads to it, and tx9 never looks for it.
Runs(i) == IdentityAlive(i) \/ kid[i] \/ (kin[i] /\ i \notin outlived)

\* After hb pause has succeeded no service runs and none is started, until
\* somebody resumes the box (the marker before stop-all, the gate under the
\* lock).  Exempt are the supervisors EveryCaptureRecorded exempts, and the
\* processes a service forked whose supervisor got SIGKILL while they ran: by the
\* kernel, or by _stop_one after the service itself had exited.  Like NoDuplicate
\* it needs that SIGKILL ends what it reaches ("group" not in Unkillable).
PauseIsFinal ==
    stopped => \A i \in Spawns \ orphans : ~Runs(i)

\* A stop never signals a program that is not a supervisor of tx9, however
\* the process numbers are reused while it waits (_pid_identity_alive).  A
\* failed start does signal by number alone: see the stray "start".
OnlyOwnSignalled == "stop" \notin stray

\* No service runs twice: while anything of a supervisor is there no other is
\* started for the same drop-in (stop_failed in _reconcile_locked), with the
\* exemptions of PauseIsFinal.  It fails if a service may outlast SIGKILL ("group"
\* in Unkillable): the next reconcile drops the record of a supervisor that ended.
NoDuplicate ==
    \A i, j \in Spawns \ orphans : i # j /\ Runs(i) /\ Runs(j) => svcOf[i] # svcOf[j]

=============================================================================
