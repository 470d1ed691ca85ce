------------------------ MODULE CustomServices_proofs ------------------------
(***************************************************************************)
(* Proofs about CustomServices, for any number of services, reconcilers,   *)
(* supervisors, process numbers, commands, edits and failures.             *)
(***************************************************************************)
EXTENDS CustomServices, TLAPS

Phases == {"none", "forked", "launch", "rest", "gone"}

USE DEF Phases, Up, Supervisor!Alive

Stopping == {"stopTerm", "stopWait", "stopKill", "stopReport"}
Starting == {"record", "confirm", "giveUp", "abort"}

\* Supervisors that were never started have no history; a live one keeps its
\* process number to itself.
Born ==
    /\ \A i \in Spawns : i > spawned => cap[i] = "none"
    /\ \A i \in Spawns : IdentityAlive(i) => pidOf[i] \notin foreign /\ svcOf[i] \in Services

\* A state file names a supervisor of its own service.
Recs == \A s \in Services : recOf[s] # NoRec => recOf[s] <= spawned /\ svcOf[recOf[s]] = s

\* A record that may be overwritten: nothing that counts is behind it.
Spent(s) == recOf[s] # NoRec => ~IdentityAlive(recOf[s]) \/ recOf[s] \in orphans

\* What the holder of the lock has at hand.
Work(p) ==
    /\ pc[p] \in Stopping \cup Starting => loc[p].svc \in Services /\ loc[p].id \in Spawns
    /\ pc[p] \in Stopping \cup {"confirm", "giveUp"} => recOf[loc[p].svc] = loc[p].id
    /\ pc[p] \in Starting => loc[p].id <= spawned /\ svcOf[loc[p].id] = loc[p].svc
    /\ pc[p] = "record" => Spent(loc[p].svc)
    /\ pc[p] = "abort" => Spent(loc[p].svc) \/ recOf[loc[p].svc] = loc[p].id
    /\ pc[p] \in {"gate", "starts"} \cup Starting => ~loc[p].stopAll
    /\ pc[p] = "scan" => ~loc[p].stopAll
    /\ loc[p].cmd = "pause" /\ pc[p] # "enter" => loc[p].stopAll

\* What the loops have achieved for the services behind them.
Settled(p, s) ==
    /\ loc[p].stopAll /\ ~loc[p].failed => recOf[s] = NoRec
    /\ ~loc[p].stopAll /\ loc[p].helper /\ s \notin loc[p].bad /\ recOf[s] # NoRec =>
          recFp[s] = loc[p].want[s]
Loops(p) ==
    /\ pc[p] = "stops" => \A s \in Services \ loc[p].todo : Settled(p, s)
    /\ pc[p] \in Stopping => \A s \in Services \ (loc[p].todo \cup {loc[p].svc}) : Settled(p, s)
    /\ pc[p] \in {"gate", "starts", "release"} \cup Starting => \A s \in Services : Settled(p, s)

\* A live supervisor is known: by its state file, or to who starts it.
Known ==
    \A i \in Spawns : IdentityAlive(i) /\ i \notin orphans =>
        \/ cap[i] \in Up /\ recOf[svcOf[i]] = i
        \/ \E p \in Procs : pc[p] \in Starting /\ loc[p].id = i

\* After a pause nobody is past the gate.
Paused ==
    stopped => /\ quiesced
               /\ \A p \in Procs : pc[p] \notin {"starts"} \cup Starting
               /\ \A i \in Spawns \ orphans : ~IdentityAlive(i)

\* The types of everything but kin and outlived, which no reconciler reads.
TypeData ==
    /\ defn \in [Services -> Versions \cup {NoVersion}] /\ quiesced \in BOOLEAN
    /\ recOf \in [Services -> Spawns \cup {NoRec}]
    /\ recFp \in [Services -> Versions \cup {NoVersion}]
    /\ cap \in [Spawns -> Phases]
    /\ kid \in [Spawns -> BOOLEAN] /\ termed \in [Spawns -> BOOLEAN]
    /\ svcOf \in [Spawns -> Services \cup {NoVersion}]
    /\ pidOf \in [Spawns -> Pids \cup {NoRec}]
    /\ foreign \subseteq Pids /\ spawned \in 0 .. MaxSpawns
    /\ orphans \subseteq Spawns
    /\ stopped \in BOOLEAN /\ stray \subseteq {"stop", "start"}
    /\ commands \in 0 .. MaxCommands /\ changes \in 0 .. MaxChanges /\ faults \in 0 .. MaxFaults

Typed ==
    /\ TypeData
    /\ holder \in Procs \cup {Nobody}
    /\ pc \in [Procs -> Steps] /\ \A p \in Procs : pc[p] \notin Unlocked => holder = p
    /\ loc \in [Procs -> Locals]

IInv ==
    /\ Typed /\ Born /\ Recs
    /\ \A p \in Procs : Work(p) /\ Loops(p)
    /\ Known /\ Paused /\ OnlyOwnSignalled

KinTyped == kin \in [Spawns -> BOOLEAN] /\ outlived \subseteq Spawns

\* If SIGKILL ends what it reaches, a service is there only under a supervisor, and
\* so is the rest of its group unless the supervisor got SIGKILL over it.
Housed(i) == (kid[i] \/ (kin[i] /\ i \notin outlived)) => cap[i] \in Up
Kids == "group" \notin Unkillable => \A i \in Spawns : Housed(i)


-----------------------------------------------------------------------------
(* A step of one process.                                                  *)

Own(p) == Work(p) /\ Loops(p)

\* What p's step leaves of the others' control state.
Moves(p) ==
    /\ pc' \in [Procs -> Steps] /\ loc' \in [Procs -> Locals]
    /\ holder' \in Procs \cup {Nobody}
    /\ pc'[p] \notin Unlocked => holder' = p
    /\ \A q \in Procs \ {p} :
          /\ pc'[q] = pc[q] /\ loc'[q] = loc[q]
          /\ holder = q => holder' = q

\* Supervisors may be exec'd or end; none comes back.
Fades == \A i \in Spawns : \/ cap'[i] = cap[i]
                           \/ cap'[i] = "gone" /\ i <= spawned
                           \/ IdentityAlive(i) /\ cap'[i] \in Up

LEMMA Distinct == Nobody \notin Procs /\ Loop \in Procs /\ MaxSpawns \in Nat /\ NoRec \notin Spawns
                  /\ MaxCommands \in Nat /\ MaxChanges \in Nat /\ MaxFaults \in Nat
BY ServicesAssumption DEF ServicesAssumption, Procs, Spawns, NoRec

LEMMA TypeIs == Typed => TypeData
BY DEF Typed, TypeData

\* Only one process is past the lock.
LEMMA Alone ==
    ASSUME Typed, NEW p \in Procs, holder = p, NEW q \in Procs \ {p}
    PROVE  pc[q] \in Unlocked
BY DEF Typed, TypeData

LEMMA OthersKeep ==
    ASSUME IInv, NEW p \in Procs, Moves(p),
           holder = p \/ UNCHANGED <<recOf, recFp, cap, spawned, svcOf, orphans>>,
           NEW q \in Procs \ {p}
    PROVE  Own(q)'
<1>1. pc'[q] = pc[q] /\ loc'[q] = loc[q] /\ Own(q)
    BY DEF Moves, IInv, Own
<1>2. CASE holder = p
  <2>1. pc[q] \in Unlocked
      BY <1>2, Alone DEF IInv
  <2> QED
      BY <1>1, <2>1 DEF Own, Work, Loops, Unlocked, Stopping, Starting
<1>3. CASE UNCHANGED <<recOf, recFp, cap, spawned, svcOf, orphans>>
    BY <1>1, <1>3 DEF Own, Work, Loops, Settled, Spent, IdentityAlive
<1> QED
    BY <1>2, <1>3

LEMMA StepKeeps ==
    ASSUME IInv, NEW p \in Procs, Moves(p),
           holder = p \/ UNCHANGED <<recOf, recFp, cap, spawned, svcOf, orphans>>,
           TypeData', Own(p)', Born', Recs', Known', Paused', OnlyOwnSignalled'
    PROVE  IInv'
<1>1. \A q \in Procs : Own(q)'
    BY OthersKeep
<1>2. \A q \in Procs : pc'[q] \notin Unlocked => holder' = q
    BY DEF Moves, IInv, Typed, TypeData
<1>3. Typed'
    BY <1>2 DEF Moves, Typed, TypeData
<1> QED
    BY <1>1, <1>3 DEF IInv, Own

-----------------------------------------------------------------------------
(* The parts of the invariant that one step disturbs in few ways.          *)

\* p goes to x with the local variables r, or keeps one of them.
LEMMA MoveIs ==
    ASSUME Typed, NEW p \in Procs, NEW x \in Steps, NEW r \in Locals,
           Goto(p, x) \/ (UNCHANGED pc /\ x = pc[p]),
           Set(p, r) \/ (UNCHANGED loc /\ r = loc[p]),
           holder' = holder, x \in Unlocked \/ holder = p
    PROVE  Moves(p) /\ pc'[p] = x /\ loc'[p] = r
BY DEF Typed, TypeData, Goto, Set, Moves

LEMMA BornKeeps ==
    ASSUME IInv, Fades, UNCHANGED <<svcOf, pidOf, spawned, foreign>>
    PROVE  Born'
<1>1. \A i \in Spawns : IdentityAlive(i)' => IdentityAlive(i)
    BY DEF Fades, IdentityAlive
<1>2. spawned \in Nat /\ \A i \in Spawns : i \in Nat
    BY Distinct DEF IInv, Typed, TypeData, Spawns
<1>3. \A i \in Spawns : i > spawned => cap'[i] = "none"
    BY <1>2 DEF Fades, IdentityAlive, IInv, Born
<1> QED
    BY <1>1, <1>3 DEF IInv, Born

LEMMA RecsKeep ==
    ASSUME IInv, UNCHANGED <<svcOf, spawned>>,
           \A s \in Services : recOf'[s] \in {recOf[s], NoRec}
    PROVE  Recs'
BY DEF IInv, Recs

\* p changes only records behind which nothing counts, and what it starts is
\* still being started, or has ended, or is recorded, or does not count.
LEMMA KnownKeeps ==
    ASSUME IInv, NEW p \in Procs, Moves(p), Fades, UNCHANGED svcOf, orphans \subseteq orphans',
           \A s \in Services : \/ recOf'[s] = recOf[s]
                               \/ recOf[s] = NoRec
                               \/ cap[recOf[s]] \notin Up \/ cap'[recOf[s]] = "gone"
                               \/ recOf[s] \in orphans',
           pc[p] \in Starting =>
              \/ pc'[p] \in Starting /\ loc'[p].id = loc[p].id
              \/ cap'[loc[p].id] \notin {"forked"} \cup Up \/ loc[p].id \in orphans'
              \/ cap'[loc[p].id] \in Up /\ recOf'[svcOf[loc[p].id]] = loc[p].id
    PROVE  Known'
<1> SUFFICES ASSUME NEW i \in Spawns, IdentityAlive(i)', i \notin orphans'
             PROVE  \/ cap'[i] \in Up /\ recOf'[svcOf[i]] = i
                    \/ \E q \in Procs : pc'[q] \in Starting /\ loc'[q].id = i
    BY DEF Known
<1>1. IdentityAlive(i) /\ i \notin orphans /\ svcOf[i] \in Services
    BY DEF Fades, IdentityAlive, IInv, Born
<1>2. CASE cap[i] \in Up /\ recOf[svcOf[i]] = i
    BY <1>1, <1>2, Distinct DEF Fades, IdentityAlive
<1>3. ASSUME NEW q \in Procs, pc[q] \in Starting, loc[q].id = i
      PROVE  \/ cap'[i] \in Up /\ recOf'[svcOf[i]] = i
             \/ \E r \in Procs : pc'[r] \in Starting /\ loc'[r].id = i
  <2>1. CASE q = p
      BY <1>3, <2>1 DEF IdentityAlive
  <2>2. CASE q # p
      BY <1>3, <2>2 DEF Moves
  <2> QED
      BY <2>1, <2>2
<1> QED
    BY <1>1, <1>2, <1>3 DEF IInv, Known

LEMMA PausedKeeps ==
    ASSUME IInv, NEW p \in Procs, Moves(p), Fades, stopped' => stopped /\ quiesced',
           orphans \subseteq orphans', pc'[p] \in {"starts"} \cup Starting => ~stopped
    PROVE  Paused'
<1>1. \A i \in Spawns : IdentityAlive(i)' => IdentityAlive(i)
    BY DEF Fades, IdentityAlive
<1>2. \A q \in Procs : q # p => pc'[q] = pc[q]
    BY DEF Moves
<1> QED
    BY <1>1, <1>2 DEF IInv, Paused

\* A step that leaves the supervisors and their records alone.
Still == UNCHANGED <<recOf, recFp, cap, kid, termed, svcOf, pidOf, foreign, spawned, orphans,
                     stray, faults>>

LEMMA StillKeeps ==
    ASSUME IInv, NEW p \in Procs, Moves(p), Still,
           defn' = defn, quiesced' \in BOOLEAN, stopped' \in BOOLEAN,
           commands' \in 0 .. MaxCommands, changes' = changes,
           pc[p] \in Starting =>
              \/ pc'[p] \in Starting /\ loc'[p].id = loc[p].id
              \/ cap[loc[p].id] \in Up /\ recOf[svcOf[loc[p].id]] = loc[p].id,
           Own(p)', Paused'
    PROVE  IInv'
<1>1. Fades
    BY DEF Fades, Still
<1>2. TypeData'
    BY TypeIs DEF IInv, Still, TypeData
<1>3. Born' /\ Recs' /\ OnlyOwnSignalled'
    BY DEF Still, IInv, Born, Recs, OnlyOwnSignalled, IdentityAlive
<1>4. Known'
    BY <1>1, KnownKeeps DEF Still
<1> QED
    BY <1>2, <1>3, <1>4, StepKeeps DEF Still

LEMMA StillPaused ==
    ASSUME IInv, NEW p \in Procs, Moves(p), Still, stopped' => stopped /\ quiesced',
           pc'[p] \in {"starts"} \cup Starting => ~stopped
    PROVE  Paused'
BY PausedKeeps DEF Still, Fades

-----------------------------------------------------------------------------
(* hb, and the steps of a reconciler that only read.                       *)

LEMMA IdleIs == Idle \in Locals /\ Idle.cmd = "none" /\ ~Idle.stopAll
BY DEF Idle, Locals

LEMMA FlagsAre ==
    ASSUME IInv
    PROVE  /\ stopped => quiesced
           /\ \A p \in Procs : pc[p] \in {"starts"} \cup Starting => ~stopped
BY DEF IInv, Paused

LEMMA LocIs == ASSUME IInv, NEW p \in Procs PROVE loc[p] \in Locals
BY DEF IInv, Typed, TypeData

\* What may be assigned to one field.
LEMMA FieldIs ==
    ASSUME NEW r \in Locals
    PROVE  /\ \A T \in SUBSET Services : [r EXCEPT !.todo = T] \in Locals
           /\ \A b \in BOOLEAN : [r EXCEPT !.stopAll = b] \in Locals
           /\ [r EXCEPT !.failed = TRUE] \in Locals
           /\ \A c \in {"reload", "pause", "resume", "loop"} : [r EXCEPT !.cmd = c] \in Locals
BY DEF Locals

LEMMA TodoIs ==
    ASSUME NEW r \in Locals, NEW T \in SUBSET Services, NEW t, t = [r EXCEPT !.todo = T]
    PROVE  /\ t \in Locals /\ t.todo = T
           /\ t.cmd = r.cmd /\ t.stopAll = r.stopAll /\ t.want = r.want /\ t.helper = r.helper
           /\ t.bad = r.bad /\ t.failed = r.failed /\ t.svc = r.svc /\ t.id = r.id
BY DEF Locals

LEMMA BeginKeeps ==
    ASSUME IInv, NEW p \in Procs, NEW c \in {"reload", "pause", "resume", "loop"}, Begin(p, c)
    PROVE  IInv'
<1> DEFINE r == [Idle EXCEPT !.cmd = c]
<1>1. r \in Locals
    BY IdleIs, FieldIs
<1>2. Moves(p) /\ pc'[p] = "enter" /\ loc'[p] = r
    BY <1>1, MoveIs DEF Begin, IInv, Steps, Unlocked
<1>3. Still /\ UNCHANGED <<defn, quiesced, stopped, changes>>
    BY DEF Begin, Still, files, table, hist
<1>4. Own(p)'
    BY <1>2 DEF Own, Work, Loops, Stopping, Starting
<1>5. Paused'
    BY <1>2, <1>3, StillPaused DEF Starting, IInv, Paused
<1>6. commands' \in 0 .. MaxCommands
    BY Distinct DEF Begin, IInv, Typed, TypeData
<1> QED
    BY <1>2, <1>3, <1>4, <1>5, <1>6, StillKeeps DEF Begin, At, Starting, IInv, Typed, TypeData

LEMMA EnterKeeps == ASSUME IInv, NEW p \in Procs, Enter(p) PROVE IInv'
<1> DEFINE b == loc[p].cmd = "pause" \/ (loc[p].cmd = "loop" /\ quiesced)
<1> DEFINE r == [loc[p] EXCEPT !.stopAll = b]
<1>1. r \in Locals /\ r.stopAll = b /\ r.cmd = loc[p].cmd
  <2>1. b \in BOOLEAN
      OBVIOUS
  <2>2. loc[p] \in Locals
      BY LocIs
  <2> HIDE DEF b
  <2>3. r \in Locals
      BY <2>1, <2>2, FieldIs
  <2> QED
      BY <2>2, <2>3 DEF Locals
<1>2. Moves(p) /\ pc'[p] = "lock" /\ loc'[p] = r
  <2>1. Set(p, r) /\ Goto(p, "lock") /\ holder' = holder
      BY DEF Enter
  <2> HIDE DEF r
  <2> QED
      BY <1>1, <2>1, MoveIs DEF IInv, Steps, Unlocked
<1>3. Still /\ UNCHANGED <<defn, commands, changes>>
    BY DEF Enter, Still, files, table, counts
<1>4. Own(p)'
    BY <1>1, <1>2 DEF Own, Work, Loops, Stopping, Starting
<1>5. quiesced' \in BOOLEAN /\ stopped' = (stopped /\ quiesced')
    BY DEF Enter, IInv, Typed, TypeData
<1>6. Paused'
    BY <1>2, <1>3, <1>5, StillPaused DEF Starting
<1> QED
    BY <1>2, <1>3, <1>4, <1>5, <1>6, StillKeeps DEF Enter, At, Starting, IInv, Typed, TypeData

LEMMA LockKeeps == ASSUME IInv, NEW p \in Procs, Lock(p) PROVE IInv'
<1>1. Still /\ UNCHANGED <<defn, quiesced, stopped, commands, changes>>
    BY DEF Lock, Still, files, table, hist, counts
<1>2. ASSUME Moves(p), Own(p)', pc'[p] \notin {"starts"} \cup Starting PROVE IInv'
  <2>1. Paused'
      BY <1>1, <1>2, StillPaused DEF IInv, Paused
  <2> QED
      BY <1>1, <1>2, <2>1, StillKeeps DEF Lock, At, Starting, IInv, Typed, TypeData
<1>3. CASE holder = Nobody /\ holder' = p
  <2> DEFINE T == IF loc[p].stopAll THEN Recorded ELSE {}
  <2> DEFINE x == IF loc[p].stopAll THEN "stops" ELSE "scan"
  <2> DEFINE r == [loc[p] EXCEPT !.todo = T]
  <2>1. Set(p, r) /\ Goto(p, x)
      BY <1>3, Distinct DEF Lock
  <2>2. r \in Locals /\ r.todo = T /\ r.stopAll = loc[p].stopAll /\ r.cmd = loc[p].cmd
    <3>1. T \in SUBSET Services /\ loc[p] \in Locals
        BY LocIs DEF Recorded
    <3> HIDE DEF T
    <3> QED
        BY <3>1, TodoIs
  <2>3. Moves(p) /\ pc'[p] = x /\ loc'[p] = r
    <3> HIDE DEF r
    <3>1. x \in Steps
        BY DEF Steps
    <3> HIDE DEF x
    <3> QED
        BY <1>3, <2>1, <2>2, <3>1, Distinct DEF IInv, Typed, TypeData, Goto, Set, Moves
  <2>4. loc[p].cmd = "pause" => loc[p].stopAll
      BY DEF IInv, Work, Lock, At
  <2>5. Own(p)'
    <3>1. x = "stops" => \A s \in Services \ T : recOf'[s] = NoRec
        BY <1>1 DEF Recorded, Still
    <3>2. Work(p)'
        BY <2>2, <2>3, <2>4 DEF Work, Stopping, Starting
    <3>3. Loops(p)'
        BY <2>2, <2>3, <3>1 DEF Loops, Settled, Stopping, Starting
    <3> QED
        BY <3>2, <3>3 DEF Own
  <2> QED
      BY <1>2, <2>3, <2>5 DEF Starting
<1>4. CASE Goto(p, "idle") /\ Set(p, Idle) /\ UNCHANGED holder
  <2>1. Moves(p) /\ pc'[p] = "idle" /\ loc'[p] = Idle
      BY <1>4, MoveIs, IdleIs DEF IInv, Steps, Unlocked
  <2>2. Own(p)'
      BY <2>1, IdleIs DEF Own, Work, Loops, Stopping, Starting
  <2> QED
      BY <1>2, <2>1, <2>2 DEF Starting
<1> QED
    BY <1>3, <1>4 DEF Lock

LEMMA ScanKeeps == ASSUME IInv, NEW p \in Procs, Scan(p) PROVE IInv'
<1> PICK h \in BOOLEAN : Set(p, [loc[p] EXCEPT !.want = defn, !.helper = h, !.failed = ~h,
                                               !.todo = Recorded])
    BY DEF Scan
<1> DEFINE f == ~h
<1> DEFINE r == [loc[p] EXCEPT !.want = defn, !.helper = h, !.failed = f, !.todo = Recorded]
<1>1. Set(p, r) /\ Goto(p, "stops") /\ holder' = holder
    BY DEF Scan
<1>2. /\ r \in Locals /\ r.todo = Recorded /\ r.stopAll = loc[p].stopAll /\ r.cmd = loc[p].cmd
  <2>1. Recorded \in SUBSET Services /\ f \in BOOLEAN /\ loc[p] \in Locals
        /\ defn \in [Services -> Versions \cup {NoVersion}]
      BY LocIs DEF Recorded, IInv, Typed, TypeData
  <2> HIDE DEF f
  <2> QED
      BY <2>1 DEF Locals
<1> HIDE DEF r
<1>3. holder = p /\ ~loc[p].stopAll /\ (loc[p].cmd = "pause" => loc[p].stopAll)
    BY DEF IInv, Typed, TypeData, Scan, At, Unlocked, Work
<1>4. Moves(p) /\ pc'[p] = "stops" /\ loc'[p] = r
    BY <1>1, <1>2, <1>3, MoveIs DEF IInv, Steps
<1>5. Still /\ UNCHANGED <<defn, quiesced, stopped, commands, changes>>
    BY DEF Scan, Still, files, table, hist, counts
<1>6. Own(p)'
    BY <1>2, <1>3, <1>4, <1>5 DEF Own, Work, Loops, Settled, Stopping, Starting, Recorded, Still
<1>7. Paused'
    BY <1>4, <1>5, StillPaused DEF Starting, IInv, Paused
<1> QED
    BY <1>4, <1>5, <1>6, <1>7, StillKeeps DEF Scan, At, Starting, IInv, Typed, TypeData

\* A step that reads, keeps its local variables and goes to x.
LEMMA GoesKeeps ==
    ASSUME IInv, NEW p \in Procs, NEW x \in Steps, Goto(p, x), holder = p,
           UNCHANGED <<defn, quiesced, holder, loc, hist, counts, table, files>>,
           pc[p] \in Starting => cap[loc[p].id] \in Up /\ recOf[svcOf[loc[p].id]] = loc[p].id,
           x \in {"starts"} \cup Starting => ~stopped,
           pc'[p] = x => Own(p)'
    PROVE  IInv'
<1>1. Moves(p) /\ pc'[p] = x /\ loc'[p] = loc[p]
    BY LocIs, MoveIs DEF IInv
<1>2. Still /\ UNCHANGED <<defn, quiesced, stopped, commands, changes>>
    BY DEF Still, files, table, hist, counts
<1>3. Paused'
    BY <1>1, <1>2, StillPaused DEF IInv, Paused
<1> QED
    BY <1>1, <1>2, <1>3, StillKeeps DEF IInv, Typed, TypeData

\* What p knows does not change when only its place does.
LEMMA SameWork ==
    ASSUME IInv, NEW p \in Procs,
           UNCHANGED <<recOf, recFp, cap, spawned, svcOf, orphans, loc>>
    PROVE  /\ \A s \in Services : Settled(p, s)' = Settled(p, s)
           /\ \A s \in Services : Spent(s)' = Spent(s)
           /\ loc[p].cmd = "pause" /\ pc[p] # "enter" => loc[p].stopAll
           /\ pc[p] \notin Unlocked => holder = p
BY DEF Settled, Spent, IdentityAlive, IInv, Work, Typed, TypeData

LEMMA StopsDoneKeeps == ASSUME IInv, NEW p \in Procs, StopsDone(p) PROVE IInv'
<1> DEFINE x == IF loc[p].stopAll THEN "release" ELSE "gate"
<1>1. UNCHANGED <<recOf, recFp, cap, spawned, svcOf, orphans, loc>> /\ Goto(p, x)
    BY DEF StopsDone, files, table, hist
<1>2. \A s \in Services : Settled(p, s)'
    BY <1>1, SameWork DEF IInv, Loops, StopsDone, At
<1>3. ASSUME pc'[p] = x PROVE Own(p)'
    BY <1>1, <1>2, <1>3, SameWork DEF StopsDone, At, Own, Work, Loops, Stopping, Starting
<1>4. holder = p
    BY <1>1, SameWork DEF StopsDone, At, Unlocked
<1>5. x \in Steps /\ x \notin {"starts"} \cup Starting
    BY DEF Steps, Starting
<1> HIDE DEF x
<1> QED
    BY <1>1, <1>3, <1>4, <1>5, GoesKeeps DEF StopsDone, At, Starting

LEMMA StopWaitKeeps == ASSUME IInv, NEW p \in Procs, StopWait(p) PROVE IInv'
<1>1. UNCHANGED <<recOf, recFp, cap, spawned, svcOf, orphans, loc>> /\ pc[p] = "stopWait"
    BY DEF StopWait, files, table, hist, At
<1>2. PICK x \in {"stopKill", "stopReport"} : Goto(p, x)
    BY DEF StopWait
<1>3. ASSUME pc'[p] = x PROVE Own(p)'
  <2>1. Own(p)
      BY DEF IInv, Own
  <2> QED
      BY <1>1, <1>2, <1>3, <2>1, SameWork DEF Own, Work, Loops, Stopping, Starting
<1>4. holder = p
    BY <1>1, SameWork DEF Unlocked
<1> QED
    BY <1>1, <1>2, <1>3, <1>4, GoesKeeps DEF StopWait, Starting, Steps

LEMMA StartsDoneKeeps == ASSUME IInv, NEW p \in Procs, StartsDone(p) PROVE IInv'
<1>1. UNCHANGED <<recOf, recFp, cap, spawned, svcOf, orphans, loc>> /\ pc[p] = "starts"
      /\ Goto(p, "release")
    BY DEF StartsDone, files, table, hist, At
<1>2. ASSUME pc'[p] = "release" PROVE Own(p)'
  <2>1. Own(p)
      BY DEF IInv, Own
  <2> QED
      BY <1>1, <1>2, <2>1, SameWork DEF Own, Work, Loops, Stopping, Starting
<1>3. holder = p
    BY <1>1, SameWork DEF Unlocked
<1> QED
    BY <1>1, <1>2, <1>3, GoesKeeps DEF StartsDone, Starting, Steps

\* Past the gate only in a box that is not quiesced, so in one where no pause
\* has succeeded.
LEMMA GateKeeps == ASSUME IInv, NEW p \in Procs, Gate(p) PROVE IInv'
<1>1. UNCHANGED <<recOf, recFp, cap, spawned, svcOf, orphans, quiesced>> /\ pc[p] = "gate"
    BY DEF Gate, files, table, hist, At
<1>2. Own(p) /\ holder = p
    BY <1>1 DEF IInv, Own, Typed, TypeData, Unlocked
<1>3. CASE Goto(p, "release") /\ UNCHANGED loc
  <2>1. ASSUME pc'[p] = "release" PROVE Own(p)'
      BY <1>1, <1>2, <1>3, <2>1, SameWork DEF Own, Work, Loops, Stopping, Starting
  <2> QED
      BY <1>1, <1>2, <1>3, <2>1, GoesKeeps DEF Gate, Starting, Steps
<1>4. CASE ~quiesced
  <2> DEFINE T == {s \in Services : loc[p].want[s] # NoVersion}
  <2> DEFINE r == [loc[p] EXCEPT !.todo = T]
  <2>1. Goto(p, "starts") /\ Set(p, r) /\ holder' = holder
      BY <1>4 DEF Gate
  <2>2. /\ r \in Locals /\ r.want = loc[p].want /\ r.cmd = loc[p].cmd /\ r.stopAll = loc[p].stopAll
        /\ r.helper = loc[p].helper /\ r.bad = loc[p].bad /\ r.failed = loc[p].failed
    <3>1. T \in SUBSET Services
        OBVIOUS
    <3>2. r = [loc[p] EXCEPT !.todo = T]
        OBVIOUS
    <3>3. loc[p] \in Locals
        BY LocIs
    <3> HIDE DEF r, T
    <3> QED
        BY <3>1, <3>2, <3>3 DEF Locals
  <2> HIDE DEF r
  <2>3. Moves(p) /\ pc'[p] = "starts" /\ loc'[p] = r
      BY <1>2, <2>1, <2>2, MoveIs DEF IInv, Steps
  <2>4. Own(p)'
      BY <1>1, <1>2, <2>2, <2>3 DEF Own, Work, Loops, Settled, Stopping, Starting
  <2>5. ~stopped
      BY <1>4 DEF IInv, Paused
  <2>6. Still /\ UNCHANGED <<defn, quiesced, stopped, commands, changes>>
      BY DEF Gate, Still, files, table, hist, counts
  <2>7. Paused'
      BY <2>3, <2>5, <2>6, StillPaused
  <2> QED
      BY <1>1, <2>3, <2>4, <2>6, <2>7, StillKeeps DEF IInv, Typed, TypeData, Starting
<1> QED
    BY <1>3, <1>4 DEF Gate

LEMMA ConfirmKeeps == ASSUME IInv, NEW p \in Procs, Confirm(p) PROVE IInv'
<1>1. UNCHANGED <<recOf, recFp, cap, spawned, svcOf, orphans, loc>> /\ pc[p] = "confirm"
    BY DEF Confirm, files, table, hist, At
<1>2. Own(p) /\ holder = p /\ ~stopped
    BY <1>1 DEF IInv, Own, Typed, TypeData, Unlocked, Paused, Starting
<1>3. recOf[loc[p].svc] = loc[p].id /\ svcOf[loc[p].id] = loc[p].svc
    BY <1>1, <1>2 DEF Own, Work, Starting
<1>4. CASE Matches(loc[p].svc) /\ Goto(p, "starts")
  <2>1. ASSUME pc'[p] = "starts" PROVE Own(p)'
      BY <1>1, <1>2, <1>4, <2>1, SameWork DEF Own, Work, Loops, Stopping, Starting
  <2>2. cap[loc[p].id] \in Up /\ recOf[svcOf[loc[p].id]] = loc[p].id
      BY <1>3, <1>4 DEF Matches
  <2> QED
      BY <1>1, <1>2, <1>4, <2>1, <2>2, GoesKeeps DEF Confirm, Steps
<1>5. CASE Goto(p, "giveUp")
  <2>1. Moves(p) /\ pc'[p] = "giveUp" /\ loc'[p] = loc[p]
      BY <1>2, <1>5, LocIs, MoveIs DEF Confirm, IInv, Steps
  <2>2. Own(p)'
      BY <1>1, <1>2, <2>1, SameWork DEF Own, Work, Loops, Stopping, Starting
  <2>3. Still /\ UNCHANGED <<defn, quiesced, stopped, commands, changes>>
      BY DEF Confirm, Still, files, table, hist, counts
  <2>4. Paused'
      BY <1>2, <2>1, <2>3, StillPaused
  <2> QED
      BY <1>1, <2>1, <2>2, <2>3, <2>4, StillKeeps DEF Starting, IInv, Typed, TypeData
<1> QED
    BY <1>4, <1>5 DEF Confirm

\* A pause that succeeds has dropped every record, and what is alive is recorded.
LEMMA ReleaseKeeps == ASSUME IInv, NEW p \in Procs, Release(p) PROVE IInv'
<1>1. Still /\ UNCHANGED <<defn, quiesced, commands, changes>> /\ pc[p] = "release"
    BY DEF Release, Still, files, table, counts, At
<1>2. Own(p) /\ holder = p
    BY <1>1 DEF IInv, Own, Typed, TypeData, Unlocked
<1>3. Moves(p) /\ pc'[p] = "idle" /\ loc'[p] = Idle
    BY <1>2, IdleIs DEF Release, Goto, Set, Moves, IInv, Typed, TypeData, Steps, Unlocked
<1>4. Own(p)'
    BY <1>3, IdleIs DEF Own, Work, Loops, Stopping, Starting
<1>5. ASSUME stopped' => stopped PROVE Paused'
  <2>1. stopped' => stopped /\ quiesced'
      BY <1>1, <1>5, FlagsAre, Zenon
  <2>2. pc'[p] \in {"starts"} \cup Starting => ~stopped
      BY <1>3 DEF Starting
  <2> QED
      BY <1>1, <1>3, <2>1, <2>2, StillPaused
<1>6. ASSUME loc[p].cmd = "pause", ~loc[p].failed, quiesced PROVE Paused'
  <2>1. \A s \in Services : recOf[s] = NoRec
      BY <1>1, <1>2, <1>6 DEF Own, Work, Loops, Settled
  <2>2. \A q \in Procs : pc[q] \notin {"starts"} \cup Starting
      BY <1>1, <1>2, Alone DEF IInv, Starting, Unlocked
  <2>3. \A i \in Spawns \ orphans : ~IdentityAlive(i)
      BY <2>1, <2>2, Distinct DEF IInv, Known, Born
  <2>4. \A q \in Procs : pc'[q] \notin {"starts"} \cup Starting
      BY <1>3, <2>2 DEF Moves, Starting
  <2>5. \A i \in Spawns \ orphans' : ~IdentityAlive(i)'
      BY <1>1, <2>3 DEF Still, IdentityAlive
  <2> QED
      BY <1>1, <1>6, <2>4, <2>5, Zenon DEF Paused
<1>7. Paused'
    BY <1>5, <1>6, Zenon DEF Release
<1>8. stopped' \in BOOLEAN
    BY DEF Release, IInv, Typed, TypeData
<1> QED
    BY <1>1, <1>3, <1>4, <1>7, <1>8, StillKeeps DEF Starting, IInv, Typed, TypeData

-----------------------------------------------------------------------------
(* The holder of the lock changes records and ends supervisors.            *)

\* What its steps have in common: the record of s alone is written, and what
\* was recorded there before is not a supervisor that counts.
Writes(p, s) ==
    /\ holder = p /\ Moves(p) /\ Fades
    /\ cap' \in [Spawns -> Phases]
    /\ kid' \in [Spawns -> BOOLEAN] /\ termed' \in [Spawns -> BOOLEAN]
    /\ stray' \subseteq {"stop", "start"} /\ "stop" \notin stray'
    /\ recOf' \in [Services -> Spawns \cup {NoRec}]
    /\ recFp' \in [Services -> Versions \cup {NoVersion}]
    /\ \A t \in Services \ {s} : recOf'[t] = recOf[t]
    /\ UNCHANGED <<defn, quiesced, svcOf, pidOf, foreign, spawned, orphans, stopped, counts>>

LEMMA WritesKeep ==
    ASSUME IInv, NEW p \in Procs, NEW s \in Services, Writes(p, s),
           recOf'[s] # NoRec => recOf'[s] <= spawned /\ svcOf[recOf'[s]] = s,
           \/ recOf'[s] = recOf[s]
           \/ recOf[s] = NoRec
           \/ cap[recOf[s]] \notin Up \/ cap'[recOf[s]] = "gone"
           \/ recOf[s] \in orphans,
           pc[p] \in Starting =>
              \/ pc'[p] \in Starting /\ loc'[p].id = loc[p].id
              \/ cap'[loc[p].id] \notin {"forked"} \cup Up,
           pc'[p] \in {"starts"} \cup Starting => ~stopped,
           Own(p)'
    PROVE  IInv'
<1>1. Born'
    BY BornKeeps DEF Writes
<1>2. Recs'
    BY DEF Writes, IInv, Recs
<1>3. Known'
    BY KnownKeeps DEF Writes
<1>4. Paused'
  <2>1. stopped' => stopped /\ quiesced'
      BY FlagsAre, Zenon DEF Writes
  <2> QED
      BY <2>1, PausedKeeps DEF Writes
<1>5. TypeData'
    BY TypeIs DEF IInv, Writes, TypeData, counts
<1> QED
    BY <1>1, <1>2, <1>3, <1>4, <1>5, StepKeeps DEF Writes, OnlyOwnSignalled

LEMMA ForgetIs ==
    ASSUME IInv, NEW s \in Services, Forget(s)
    PROVE  /\ recOf' \in [Services -> Spawns \cup {NoRec}]
           /\ recFp' \in [Services -> Versions \cup {NoVersion}]
           /\ recOf'[s] = NoRec
           /\ \A t \in Services \ {s} : recOf'[t] = recOf[t] /\ recFp'[t] = recFp[t]
BY DEF IInv, Typed, TypeData, Forget

LEMMA FilesAre ==
    ASSUME IInv, UNCHANGED files
    PROVE  /\ recOf' \in [Services -> Spawns \cup {NoRec}]
           /\ recFp' \in [Services -> Versions \cup {NoVersion}]
           /\ recOf' = recOf /\ recFp' = recFp
BY DEF IInv, Typed, TypeData, files

\* SIGTERM ends some supervisor at most; a stop has looked whose number it is.
LEMMA TermIs ==
    ASSUME IInv, NEW i \in Spawns, i <= spawned, NEW why \in {"stop", "start"}, Term(i, why),
           why = "stop" => IdentityAlive(i)
    PROVE  /\ Fades
           /\ cap' \in [Spawns -> Phases]
           /\ termed' \in [Spawns -> BOOLEAN]
           /\ stray' \subseteq {"stop", "start"} /\ "stop" \notin stray'
<1>1. Fades /\ cap' \in [Spawns -> Phases]
      /\ termed' \in [Spawns -> BOOLEAN]
    BY DEF Term, Fades, IInv, Typed, TypeData
<1>2. why = "stop" => pidOf[i] \notin foreign
    BY DEF IInv, Born
<1> QED
    BY <1>1, <1>2 DEF Term, Hit, IInv, Typed, TypeData, OnlyOwnSignalled

\* The supervisor at hand while one is stopped or started.
LEMMA AtHand ==
    ASSUME IInv, NEW p \in Procs, pc[p] \in Stopping \cup Starting
    PROVE  /\ loc[p].svc \in Services /\ loc[p].id \in Spawns /\ loc[p].id <= spawned
           /\ svcOf[loc[p].id] = loc[p].svc
           /\ holder = p /\ loc[p] \in Locals
           /\ loc[p].cmd = "pause" => loc[p].stopAll
           /\ pc[p] \in Starting => ~stopped /\ ~loc[p].stopAll
           /\ Work(p) /\ Loops(p)
<1>1. Work(p) /\ Loops(p)
    BY DEF IInv
<1>2. holder = p /\ loc[p] \in Locals
    BY DEF IInv, Typed, TypeData, Unlocked, Stopping, Starting
<1>3. loc[p].svc \in Services /\ loc[p].id \in Spawns
    BY <1>1 DEF Work
<1>4. loc[p].cmd = "pause" => loc[p].stopAll
    BY <1>1 DEF Work, Stopping, Starting
<1>5. CASE pc[p] \in Starting
    BY <1>1, <1>2, <1>3, <1>4, <1>5 DEF Work, IInv, Paused
<1>6. CASE pc[p] \in Stopping
  <2>1. recOf[loc[p].svc] = loc[p].id
      BY <1>1, <1>6 DEF Work
  <2>2. loc[p].id <= spawned /\ svcOf[loc[p].id] = loc[p].svc
      BY <1>3, <2>1, Distinct DEF IInv, Recs
  <2> QED
      BY <1>1, <1>2, <1>3, <1>4, <1>6, <2>2 DEF Stopping, Starting
<1> QED
    BY <1>5, <1>6

LEMMA StopTermKeeps == ASSUME IInv, NEW p \in Procs, StopTerm(p) PROVE IInv'
<1> DEFINE s == loc[p].svc
           i == loc[p].id
<1>1. pc[p] = "stopTerm" /\ pc[p] \in Stopping /\ pc[p] \notin Starting
    BY DEF StopTerm, At, Stopping, Starting
<1>2. /\ s \in Services /\ i \in Spawns /\ i <= spawned /\ svcOf[i] = s /\ holder = p
      /\ loc[p] \in Locals /\ recOf[s] = i /\ Loops(p) /\ (loc[p].cmd = "pause" => loc[p].stopAll)
    BY <1>1, AtHand DEF Work
<1>3. UNCHANGED <<defn, quiesced, svcOf, pidOf, foreign, spawned, orphans, stopped, counts,
                  holder, kid, loc>>
    BY DEF StopTerm
<1>4. kid \in [Spawns -> BOOLEAN] /\ termed \in [Spawns -> BOOLEAN]
      /\ cap \in [Spawns -> Phases]
      /\ stray \subseteq {"stop", "start"} /\ "stop" \notin stray
    BY DEF IInv, Typed, TypeData, OnlyOwnSignalled
<1>5. CASE IdentityAlive(i) /\ Term(i, "stop") /\ Goto(p, "stopWait") /\ UNCHANGED files
  <2>1. Moves(p) /\ pc'[p] = "stopWait" /\ loc'[p] = loc[p]
      BY <1>2, <1>3, <1>5, MoveIs DEF IInv, Steps
  <2>2. Writes(p, s) /\ recOf' = recOf /\ recFp' = recFp
      BY <1>2, <1>3, <1>4, <1>5, <2>1, TermIs, FilesAre DEF Writes
  <2>3. Own(p)'
      BY <1>1, <1>2, <1>3, <2>1, <2>2 DEF Own, Work, Loops, Settled, Stopping, Starting
  <2>4. recOf[s] # NoRec => recOf[s] <= spawned /\ svcOf[recOf[s]] = s
      BY <1>2
  <2>5. pc'[p] \notin {"starts"} \cup Starting
      BY <2>1 DEF Starting
  <2> QED
      BY <1>1, <1>2, <2>2, <2>3, <2>4, <2>5, WritesKeep
<1>6. CASE ~IdentityAlive(i) /\ Forget(s) /\ Goto(p, "stops") /\ UNCHANGED <<termed, cap, stray>>
  <2>1. Moves(p) /\ pc'[p] = "stops" /\ loc'[p] = loc[p]
      BY <1>2, <1>3, <1>6, MoveIs DEF IInv, Steps
  <2>2. Writes(p, s)
      BY <1>2, <1>3, <1>4, <1>6, <2>1, ForgetIs DEF Writes, Fades
  <2>3. Own(p)'
      BY <1>1, <1>2, <1>3, <1>6, <2>1, ForgetIs
      DEF Own, Work, Loops, Settled, Stopping, Starting
  <2>4. recOf'[s] = NoRec /\ cap[recOf[s]] \notin Up
      BY <1>2, <1>6, ForgetIs DEF IdentityAlive
  <2>5. pc'[p] \notin {"starts"} \cup Starting
      BY <2>1 DEF Starting
  <2> QED
      BY <1>1, <1>2, <2>2, <2>3, <2>4, <2>5, WritesKeep
<1> QED
    BY <1>5, <1>6 DEF StopTerm

LEMMA StopKillKeeps == ASSUME IInv, NEW p \in Procs, StopKill(p) PROVE IInv'
<1> DEFINE s == loc[p].svc
           i == loc[p].id
<1>1. pc[p] = "stopKill" /\ pc[p] \in Stopping /\ pc[p] \notin Starting
    BY DEF StopKill, At, Stopping, Starting
<1>2. /\ s \in Services /\ i \in Spawns /\ i <= spawned /\ svcOf[i] = s /\ holder = p
      /\ loc[p] \in Locals /\ recOf[s] = i /\ Loops(p) /\ (loc[p].cmd = "pause" => loc[p].stopAll)
    BY <1>1, AtHand DEF Work
<1>3. UNCHANGED <<defn, quiesced, svcOf, pidOf, foreign, spawned, orphans, stopped, counts,
                  holder, termed, loc, files>> /\ Goto(p, "stopReport")
    BY DEF StopKill
<1>4. kid \in [Spawns -> BOOLEAN] /\ termed \in [Spawns -> BOOLEAN]
      /\ cap \in [Spawns -> Phases]
      /\ stray \subseteq {"stop", "start"} /\ "stop" \notin stray
    BY DEF IInv, Typed, TypeData, OnlyOwnSignalled
<1>5. Fades /\ cap' \in [Spawns -> Phases]
  <2>1. cap' \in {[cap EXCEPT ![i] = "gone"], cap}
      BY DEF StopKill, Kill, Dies
  <2> QED
      BY <1>2, <1>4, <2>1 DEF Fades
<1>6. kid' \in [Spawns -> BOOLEAN]
  <2> DEFINE b == kid[i] /\ ~(loc[p].kid /\ kid[i])
  <2>1. kid' \in {[kid EXCEPT ![i] = b], [kid EXCEPT ![i] = FALSE], kid} /\ b \in BOOLEAN
      BY DEF StopKill, Kill, Dies
  <2> HIDE DEF b
  <2> QED
      BY <1>4, <2>1
<1>7. stray' \subseteq {"stop", "start"} /\ "stop" \notin stray'
    BY <1>2, <1>4 DEF StopKill, Hit, IInv, Born
<1>8. Moves(p) /\ pc'[p] = "stopReport" /\ loc'[p] = loc[p]
    BY <1>2, <1>3, MoveIs DEF IInv, Steps
<1>9. Writes(p, s) /\ recOf' = recOf /\ recFp' = recFp
    BY <1>2, <1>3, <1>4, <1>5, <1>6, <1>7, <1>8, FilesAre DEF Writes
<1>10. Own(p)'
    BY <1>1, <1>2, <1>3, <1>8, <1>9 DEF Own, Work, Loops, Settled, Stopping, Starting
<1>11. recOf[s] # NoRec => recOf[s] <= spawned /\ svcOf[recOf[s]] = s
    BY <1>2
<1>12. pc'[p] \notin {"starts"} \cup Starting
    BY <1>8 DEF Starting
<1> QED
    BY <1>1, <1>2, <1>9, <1>10, <1>11, <1>12, WritesKeep

LEMMA StopReportKeeps == ASSUME IInv, NEW p \in Procs, StopReport(p) PROVE IInv'
<1> DEFINE s == loc[p].svc
           i == loc[p].id
<1>1. pc[p] = "stopReport" /\ pc[p] \in Stopping /\ pc[p] \notin Starting
    BY DEF StopReport, At, Stopping, Starting
<1>2. /\ s \in Services /\ i \in Spawns /\ i <= spawned /\ svcOf[i] = s /\ holder = p
      /\ loc[p] \in Locals /\ recOf[s] = i /\ Loops(p) /\ (loc[p].cmd = "pause" => loc[p].stopAll)
    BY <1>1, AtHand DEF Work
<1>3. UNCHANGED <<defn, quiesced, svcOf, pidOf, foreign, spawned, orphans, stopped, counts,
                  holder, kid, cap, termed, stray>> /\ Goto(p, "stops")
    BY DEF StopReport, table, hist
<1>4. kid \in [Spawns -> BOOLEAN] /\ termed \in [Spawns -> BOOLEAN]
      /\ cap \in [Spawns -> Phases]
      /\ stray \subseteq {"stop", "start"} /\ "stop" \notin stray
    BY DEF IInv, Typed, TypeData, OnlyOwnSignalled
<1>5. CASE /\ Set(p, [loc[p] EXCEPT !.failed = TRUE, !.bad = @ \cup {s}])
           /\ UNCHANGED files
  <2> DEFINE r == [loc[p] EXCEPT !.failed = TRUE, !.bad = @ \cup {s}]
  <2>1. /\ r \in Locals /\ r.failed /\ r.bad = loc[p].bad \cup {s} /\ r.want = loc[p].want
        /\ r.cmd = loc[p].cmd /\ r.stopAll = loc[p].stopAll /\ r.helper = loc[p].helper
        /\ r.todo = loc[p].todo
      BY <1>2 DEF Locals
  <2>2. Set(p, r)
      BY <1>5
  <2> HIDE DEF r
  <2>3. Moves(p) /\ pc'[p] = "stops" /\ loc'[p] = r
      BY <1>2, <1>3, <2>1, <2>2, MoveIs DEF IInv, Steps
  <2>4. Writes(p, s) /\ recOf' = recOf /\ recFp' = recFp
      BY <1>2, <1>3, <1>4, <1>5, <2>3, FilesAre DEF Writes, Fades
  <2>5. Own(p)'
      BY <1>1, <1>2, <1>3, <2>1, <2>3, <2>4 DEF Own, Work, Loops, Settled, Stopping, Starting
  <2>6. recOf[s] # NoRec => recOf[s] <= spawned /\ svcOf[recOf[s]] = s
      BY <1>2
  <2>7. pc'[p] \notin {"starts"} \cup Starting
      BY <2>3 DEF Starting
  <2> QED
      BY <1>1, <1>2, <2>4, <2>5, <2>6, <2>7, WritesKeep
<1>6. CASE ~Survives(p) /\ Forget(s) /\ UNCHANGED loc
  <2>1. Moves(p) /\ pc'[p] = "stops" /\ loc'[p] = loc[p]
      BY <1>2, <1>3, <1>6, MoveIs DEF IInv, Steps
  <2>2. Writes(p, s)
      BY <1>2, <1>3, <1>4, <1>6, <2>1, ForgetIs DEF Writes, Fades
  <2>3. Own(p)'
      BY <1>1, <1>2, <1>3, <1>6, <2>1, ForgetIs
      DEF Own, Work, Loops, Settled, Stopping, Starting
  <2>4. recOf'[s] = NoRec /\ cap[recOf[s]] \notin Up
      BY <1>2, <1>6, ForgetIs DEF Survives, IdentityAlive
  <2>5. pc'[p] \notin {"starts"} \cup Starting
      BY <2>1 DEF Starting
  <2> QED
      BY <1>1, <1>2, <2>2, <2>3, <2>4, <2>5, WritesKeep
<1> QED
    BY <1>5, <1>6 DEF StopReport

\* A file is dropped only if it names no capture of this service that is up.
LEMMA StopNextKeeps == ASSUME IInv, NEW p \in Procs, StopNext(p) PROVE IInv'
<1>1. pc[p] = "stops" /\ pc[p] \notin Starting
    BY DEF StopNext, At, Starting
<1>2. holder = p /\ loc[p] \in Locals /\ Loops(p) /\ (loc[p].cmd = "pause" => loc[p].stopAll)
    BY <1>1 DEF IInv, Typed, TypeData, Unlocked, Work
<1>3. UNCHANGED <<defn, quiesced, cap, kid, termed, svcOf, pidOf, foreign, spawned, orphans,
                  stopped, stray, counts, holder>>
    BY DEF StopNext, table, hist
<1>4. kid \in [Spawns -> BOOLEAN] /\ termed \in [Spawns -> BOOLEAN]
      /\ cap \in [Spawns -> Phases]
      /\ stray \subseteq {"stop", "start"} /\ "stop" \notin stray
    BY DEF IInv, Typed, TypeData, OnlyOwnSignalled
<1>5. PICK s \in loc[p].todo :
         LET rest == [loc[p] EXCEPT !.todo = @ \ {s}] IN
         IF Keeps(p, s) THEN Set(p, rest) /\ UNCHANGED <<files, pc>>
         ELSE IF ~Matches(s) THEN Set(p, rest) /\ Forget(s) /\ UNCHANGED pc
         ELSE /\ Set(p, [rest EXCEPT !.svc = s, !.id = recOf[s], !.kid = kid[recOf[s]]])
              /\ Goto(p, "stopTerm") /\ UNCHANGED files
    BY DEF StopNext
<1> DEFINE rest == [loc[p] EXCEPT !.todo = @ \ {s}]
<1>6. s \in Services
    BY <1>2 DEF Locals
<1>7. /\ rest \in Locals /\ rest.todo = loc[p].todo \ {s} /\ rest.cmd = loc[p].cmd
      /\ rest.stopAll = loc[p].stopAll /\ rest.want = loc[p].want /\ rest.helper = loc[p].helper
      /\ rest.bad = loc[p].bad /\ rest.failed = loc[p].failed
    BY <1>2 DEF Locals
<1> HIDE DEF rest
<1>8. recOf[s] # NoRec => recOf[s] \in Spawns /\ recOf[s] <= spawned /\ svcOf[recOf[s]] = s
    BY <1>6 DEF IInv, Typed, TypeData, Recs
<1>9. CASE Keeps(p, s) /\ Set(p, rest) /\ UNCHANGED <<files, pc>>
  <2>1. Moves(p) /\ pc'[p] = "stops" /\ loc'[p] = rest
      BY <1>1, <1>2, <1>3, <1>7, <1>9, MoveIs DEF IInv, Steps
  <2>2. Writes(p, s) /\ recOf' = recOf /\ recFp' = recFp
      BY <1>2, <1>3, <1>4, <1>9, <2>1, FilesAre DEF Writes, Fades
  <2>3. Settled(p, s)
      BY <1>9 DEF Keeps, Current, Settled
  <2>4. Own(p)'
      BY <1>1, <1>2, <1>3, <1>7, <2>1, <2>2, <2>3
      DEF Own, Work, Loops, Settled, Stopping, Starting
  <2>5. pc'[p] \notin {"starts"} \cup Starting
      BY <2>1 DEF Starting
  <2> QED
      BY <1>1, <1>6, <1>8, <2>2, <2>4, <2>5, WritesKeep
<1>10. CASE ~Matches(s) /\ Set(p, rest) /\ Forget(s) /\ UNCHANGED pc
  <2>1. Moves(p) /\ pc'[p] = "stops" /\ loc'[p] = rest
      BY <1>1, <1>2, <1>3, <1>7, <1>10, MoveIs DEF IInv, Steps
  <2>2. Writes(p, s)
      BY <1>2, <1>3, <1>4, <1>6, <1>10, <2>1, ForgetIs DEF Writes, Fades
  <2>3. \A t \in Services \ {s} : recOf'[t] = recOf[t] /\ recFp'[t] = recFp[t]
      BY <1>6, <1>10, ForgetIs
  <2>4. recOf'[s] = NoRec /\ (recOf[s] = NoRec \/ cap[recOf[s]] \notin Up)
      BY <1>6, <1>8, <1>10, ForgetIs DEF Matches
  <2>5. Own(p)'
      BY <1>1, <1>2, <1>3, <1>7, <2>1, <2>3, <2>4
      DEF Own, Work, Loops, Settled, Stopping, Starting
  <2>6. pc'[p] \notin {"starts"} \cup Starting
      BY <2>1 DEF Starting
  <2> QED
      BY <1>1, <1>6, <2>2, <2>4, <2>5, <2>6, WritesKeep
<1>11. CASE /\ Matches(s) /\ Goto(p, "stopTerm") /\ UNCHANGED files
            /\ Set(p, [rest EXCEPT !.svc = s, !.id = recOf[s], !.kid = kid[recOf[s]]])
  <2> DEFINE i == recOf[s]
             r == [rest EXCEPT !.svc = s, !.id = i, !.kid = kid[i]]
  <2>1. i \in Spawns /\ kid[i] \in BOOLEAN
      BY <1>4, <1>8, <1>11 DEF Matches
  <2>2. /\ r \in Locals /\ r.todo = loc[p].todo \ {s} /\ r.cmd = loc[p].cmd
        /\ r.stopAll = loc[p].stopAll /\ r.want = loc[p].want /\ r.helper = loc[p].helper
        /\ r.bad = loc[p].bad /\ r.failed = loc[p].failed /\ r.svc = s /\ r.id = i
    <3> HIDE DEF i
    <3> QED
        BY <1>6, <1>7, <2>1 DEF Locals
  <2>3. Set(p, r)
      BY <1>11
  <2> HIDE DEF r
  <2>4. Moves(p) /\ pc'[p] = "stopTerm" /\ loc'[p] = r
      BY <1>2, <1>3, <1>11, <2>2, <2>3, MoveIs DEF IInv, Steps
  <2>5. Writes(p, s) /\ recOf' = recOf /\ recFp' = recFp
      BY <1>2, <1>3, <1>4, <1>11, <2>4, FilesAre DEF Writes, Fades
  <2>6. Own(p)'
      BY <1>1, <1>2, <1>3, <1>6, <2>1, <2>2, <2>4, <2>5
      DEF Own, Work, Loops, Settled, Stopping, Starting
  <2>7. pc'[p] \notin {"starts"} \cup Starting
      BY <2>4 DEF Starting
  <2> QED
      BY <1>1, <1>6, <1>8, <2>5, <2>6, <2>7, WritesKeep
<1> QED
    BY <1>5, <1>9, <1>10, <1>11 DEF rest

\* The new supervisor gets a free number; what the state file names still, if
\* it lives at all, is an orphan.
LEMMA SpawnKeeps ==
    ASSUME IInv, NEW p \in Procs, pc[p] = "starts", NEW s \in loc[p].todo,
           ~(s \in loc[p].bad \/ ~loc[p].helper \/ Current(p, s)), Spawn(p, s),
           UNCHANGED <<defn, quiesced, files, holder, hist, counts>>
    PROVE  IInv'
<1> DEFINE j == spawned + 1
           r == [loc[p] EXCEPT !.todo = @ \ {s}, !.svc = s, !.id = j]
<1>1. /\ holder = p /\ loc[p] \in Locals /\ s \in Services
      /\ Work(p) /\ Loops(p) /\ (loc[p].cmd = "pause" => loc[p].stopAll) /\ ~stopped
    BY DEF IInv, Typed, TypeData, Unlocked, Work, Locals, Paused
<1>2. /\ j \in Spawns /\ spawned \in Nat /\ spawned' = j /\ cap[j] = "none"
      /\ \A i \in Spawns : i \in Nat
    BY Distinct DEF Spawn, IInv, Typed, TypeData, Spawns, Born
<1>3. PICK n \in {n \in Pids \ foreign : Holders(n) = {}} : pidOf' = [pidOf EXCEPT ![j] = n]
    BY <1>2 DEF Spawn
<1>4. /\ cap' = [cap EXCEPT ![j] = "forked"] /\ svcOf' = [svcOf EXCEPT ![j] = s]
      /\ Set(p, [loc[p] EXCEPT !.todo = @ \ {s}, !.svc = s, !.id = j]) /\ Goto(p, "record")
      /\ UNCHANGED <<kid, termed, foreign>>
    BY <1>2 DEF Spawn
<1> HIDE DEF j
<1>5. /\ r \in Locals /\ r.cmd = loc[p].cmd /\ r.stopAll = loc[p].stopAll
      /\ r.want = loc[p].want /\ r.helper = loc[p].helper /\ r.bad = loc[p].bad
      /\ r.failed = loc[p].failed /\ r.svc = s /\ r.id = j
    BY <1>1, <1>2 DEF Locals
<1>6. Set(p, r)
    BY <1>4
<1> HIDE DEF r
<1>7. Moves(p) /\ pc'[p] = "record" /\ loc'[p] = r
    BY <1>1, <1>4, <1>5, <1>6, MoveIs DEF IInv, Steps
<1>8. TypeData'
    BY <1>1, <1>2, <1>3, <1>4, TypeIs, Distinct DEF IInv, TypeData, Spawns, files, hist, counts
<1>9. /\ cap'[j] = "forked" /\ svcOf'[j] = s /\ pidOf'[j] \notin foreign'
      /\ \A i \in Spawns \ {j} : cap'[i] = cap[i] /\ svcOf'[i] = svcOf[i] /\ pidOf'[i] = pidOf[i]
    BY <1>2, <1>3, <1>4 DEF IInv, Typed, TypeData
<1>10. Born'
  <2>1. \A i \in Spawns : i > spawned' => i # j /\ i > spawned
      BY <1>2 DEF j
  <2> QED
      BY <1>1, <1>2, <1>4, <1>9, <2>1 DEF IInv, Born, IdentityAlive
<1>11. \A t \in Services : recOf[t] # NoRec =>
          recOf[t] \in Spawns /\ recOf[t] # j /\ recOf[t] <= spawned /\ recOf[t] <= j
  <2>1. \A t \in Services : recOf[t] # NoRec => recOf[t] \in Spawns /\ recOf[t] <= spawned
      BY DEF IInv, Typed, TypeData, Recs
  <2>2. \A i \in Spawns : i <= spawned => i # j /\ i <= j
      BY <1>2 DEF j
  <2> QED
      BY <2>1, <2>2
<1>12. Recs'
    BY <1>2, <1>9, <1>11 DEF IInv, Recs, files
<1>13. Spent(s)
  <2> SUFFICES ASSUME recOf[s] # NoRec, IdentityAlive(recOf[s]), recOf[s] \notin orphans
               PROVE  FALSE
      BY DEF Spent
  <2>1. recFp[s] = loc[p].want[s]
      BY <1>1 DEF Loops, Settled, Work
  <2>2. cap[recOf[s]] \notin Up
      BY <1>1, <2>1 DEF IInv, Recs, Current, Matches
  <2>3. \A q \in Procs : pc[q] \notin Starting
      BY <1>1, Alone DEF IInv, Starting, Unlocked
  <2> QED
      BY <1>1, <1>11, <2>2, <2>3 DEF IInv, Known
<1>14. Own(p)'
  <2>1. \A t \in Services : Settled(p, t)'
      BY <1>1, <1>5, <1>7 DEF Loops, Settled, files
  <2>2. Spent(s)'
      BY <1>1, <1>9, <1>11, <1>13 DEF Spent, IdentityAlive, files, hist
  <2>3. j <= spawned' /\ ~loc[p].stopAll
      BY <1>1, <1>2 DEF Work
  <2> QED
      BY <1>1, <1>2, <1>5, <1>7, <1>9, <2>1, <2>2, <2>3
      DEF Own, Work, Loops, Stopping, Starting
<1>15. Known'
  <2>1. ASSUME NEW i \in Spawns, i # j, IdentityAlive(i)', i \notin orphans'
        PROVE  cap'[i] \in Up /\ recOf'[svcOf'[i]] = i
    <3>1. IdentityAlive(i) /\ i \notin orphans
        BY <1>9, <2>1 DEF IdentityAlive, hist
    <3>2. \A q \in Procs : pc[q] \notin Starting
        BY <1>1, Alone DEF IInv, Starting, Unlocked
    <3> QED
        BY <1>9, <2>1, <3>1, <3>2 DEF IInv, Known, files
  <2>2. pc'[p] \in Starting /\ loc'[p].id = j
      BY <1>5, <1>7 DEF Starting
  <2> QED
      BY <2>1, <2>2 DEF Known
<1>16. Paused' /\ OnlyOwnSignalled'
    BY <1>1 DEF Paused, IInv, OnlyOwnSignalled, hist
<1> QED
    BY <1>1, <1>7, <1>8, <1>10, <1>12, <1>14, <1>15, <1>16, StepKeeps

LEMMA StartNextKeeps == ASSUME IInv, NEW p \in Procs, StartNext(p) PROVE IInv'
<1>1. PICK s \in loc[p].todo :
          IF s \in loc[p].bad \/ ~loc[p].helper \/ Current(p, s)
          THEN Set(p, [loc[p] EXCEPT !.todo = @ \ {s}]) /\ UNCHANGED <<table, pc>>
          ELSE Spawn(p, s)
    BY DEF StartNext
<1>2. pc[p] = "starts" /\ UNCHANGED <<defn, quiesced, files, holder, hist, counts>>
    BY DEF StartNext, At
<1>3. CASE /\ ~(s \in loc[p].bad \/ ~loc[p].helper \/ Current(p, s))
           /\ Spawn(p, s)
    BY <1>2, <1>3, SpawnKeeps
<1>4. CASE Set(p, [loc[p] EXCEPT !.todo = @ \ {s}]) /\ UNCHANGED <<table, pc>>
  <2> DEFINE r == [loc[p] EXCEPT !.todo = @ \ {s}]
  <2>1. holder = p /\ loc[p] \in Locals /\ Work(p) /\ Loops(p) /\ ~stopped
        /\ (loc[p].cmd = "pause" => loc[p].stopAll)
      BY <1>2 DEF IInv, Typed, TypeData, Unlocked, Work, Paused
  <2>2. /\ r \in Locals /\ r.cmd = loc[p].cmd /\ r.stopAll = loc[p].stopAll
        /\ r.want = loc[p].want /\ r.helper = loc[p].helper /\ r.bad = loc[p].bad
        /\ r.failed = loc[p].failed
      BY <2>1 DEF Locals
  <2>3. Set(p, r)
      BY <1>4
  <2> HIDE DEF r
  <2>4. Moves(p) /\ pc'[p] = "starts" /\ loc'[p] = r
      BY <1>2, <1>4, <2>1, <2>2, <2>3, MoveIs DEF IInv, Steps
  <2>5. Still /\ UNCHANGED <<defn, quiesced, stopped, commands, changes>>
      BY <1>2, <1>4 DEF Still, files, table, hist, counts
  <2>6. Own(p)'
      BY <1>2, <2>1, <2>2, <2>4, <2>5 DEF Own, Work, Loops, Settled, Stopping, Starting, Still
  <2>7. Paused'
      BY <2>1, <2>4, <2>5, StillPaused, FlagsAre
  <2> QED
      BY <1>2, <2>4, <2>5, <2>6, <2>7, StillKeeps DEF IInv, Typed, TypeData, Starting
<1> QED
    BY <1>1, <1>2, <1>3, <1>4

\* The record written names the new supervisor; what it named before is spent.
LEMMA RecordKeeps == ASSUME IInv, NEW p \in Procs, Record(p) PROVE IInv'
<1> DEFINE s == loc[p].svc
           i == loc[p].id
<1>1. pc[p] = "record" /\ pc[p] \in Starting
    BY DEF Record, At, Starting
<1>2. /\ s \in Services /\ i \in Spawns /\ i <= spawned /\ svcOf[i] = s /\ holder = p
      /\ loc[p] \in Locals /\ Spent(s) /\ Loops(p) /\ (loc[p].cmd = "pause" => loc[p].stopAll)
      /\ ~stopped /\ ~loc[p].stopAll
    BY <1>1, AtHand DEF Work
<1>3. UNCHANGED <<defn, quiesced, svcOf, pidOf, foreign, spawned, orphans, stopped, counts,
                  holder, kid, loc>>
    BY DEF Record
<1>4. kid \in [Spawns -> BOOLEAN] /\ termed \in [Spawns -> BOOLEAN]
      /\ cap \in [Spawns -> Phases]
      /\ stray \subseteq {"stop", "start"} /\ "stop" \notin stray
    BY DEF IInv, Typed, TypeData, OnlyOwnSignalled
<1>5. CASE /\ recOf' = [recOf EXCEPT ![s] = i]
           /\ recFp' = [recFp EXCEPT ![s] = loc[p].want[s]]
           /\ Goto(p, "confirm") /\ UNCHANGED <<cap, termed, stray>>
  <2>1. Moves(p) /\ pc'[p] = "confirm" /\ loc'[p] = loc[p]
      BY <1>2, <1>3, <1>5, MoveIs DEF IInv, Steps
  <2>2. /\ recOf' \in [Services -> Spawns \cup {NoRec}]
        /\ recFp' \in [Services -> Versions \cup {NoVersion}]
        /\ recOf'[s] = i /\ recFp'[s] = loc[p].want[s]
        /\ \A t \in Services \ {s} : recOf'[t] = recOf[t] /\ recFp'[t] = recFp[t]
    <3>1. loc[p].want[s] \in Versions \cup {NoVersion}
        BY <1>2 DEF Locals
    <3> QED
        BY <1>2, <1>5, <3>1 DEF IInv, Typed, TypeData
  <2>3. Writes(p, s)
      BY <1>2, <1>3, <1>4, <1>5, <2>1, <2>2 DEF Writes, Fades
  <2>4. Own(p)'
    <3>1. \A t \in Services : Settled(p, t)'
        BY <1>1, <1>2, <1>3, <2>1, <2>2 DEF Loops, Settled
    <3> QED
        BY <1>1, <1>2, <1>3, <2>1, <2>2, <3>1 DEF Own, Work, Loops, Stopping, Starting
  <2>5. recOf[s] = NoRec \/ cap[recOf[s]] \notin Up \/ recOf[s] \in orphans
      BY <1>2 DEF Spent, IdentityAlive
  <2>6. pc'[p] \in Starting
      BY <2>1 DEF Starting
  <2> QED
      BY <1>1, <1>2, <2>1, <2>2, <2>3, <2>4, <2>5, <2>6, WritesKeep
<1>6. CASE /\ Term(i, "start") \/ UNCHANGED <<cap, termed, stray>>
           /\ Goto(p, "abort") /\ UNCHANGED files
  <2>1. Moves(p) /\ pc'[p] = "abort" /\ loc'[p] = loc[p]
      BY <1>2, <1>3, <1>6, MoveIs DEF IInv, Steps
  <2>2. Writes(p, s) /\ recOf' = recOf /\ recFp' = recFp
    <3>1. CASE Term(i, "start")
        BY <1>2, <1>3, <1>4, <1>6, <2>1, <3>1, TermIs, FilesAre DEF Writes
    <3>2. CASE UNCHANGED <<cap, termed, stray>>
        BY <1>2, <1>3, <1>4, <1>6, <2>1, <3>2, FilesAre DEF Writes, Fades
    <3> QED
        BY <1>6, <3>1, <3>2
  <2>3. Spent(s)'
    <3>1. recOf[s] # NoRec => recOf[s] \in Spawns
        BY <1>2 DEF IInv, Typed, TypeData
    <3> QED
        BY <1>2, <1>3, <2>2, <3>1 DEF Spent, Writes, Fades, IdentityAlive
  <2>4. Own(p)'
      BY <1>1, <1>2, <1>3, <2>1, <2>2, <2>3 DEF Own, Work, Loops, Settled, Stopping, Starting
  <2>5. recOf[s] # NoRec => recOf[s] <= spawned /\ svcOf[recOf[s]] = s
      BY <1>2 DEF IInv, Recs
  <2>6. pc'[p] \in Starting
      BY <2>1 DEF Starting
  <2> QED
      BY <1>1, <1>2, <2>1, <2>2, <2>4, <2>5, <2>6, WritesKeep
<1> QED
    BY <1>5, <1>6 DEF Record

LEMMA GiveUpKeeps == ASSUME IInv, NEW p \in Procs, GiveUp(p) PROVE IInv'
<1> DEFINE s == loc[p].svc
           i == loc[p].id
<1>1. pc[p] = "giveUp" /\ pc[p] \in Starting
    BY DEF GiveUp, At, Starting
<1>2. /\ s \in Services /\ i \in Spawns /\ i <= spawned /\ svcOf[i] = s /\ holder = p
      /\ loc[p] \in Locals /\ recOf[s] = i /\ Loops(p) /\ (loc[p].cmd = "pause" => loc[p].stopAll)
      /\ ~stopped /\ ~loc[p].stopAll
    BY <1>1, AtHand DEF Work
<1>3. UNCHANGED <<defn, quiesced, svcOf, pidOf, foreign, spawned, orphans, stopped, counts,
                  holder, kid, loc, files>> /\ Term(i, "start") /\ Goto(p, "abort")
    BY DEF GiveUp
<1>4. kid \in [Spawns -> BOOLEAN]
    BY DEF IInv, Typed, TypeData
<1>5. Moves(p) /\ pc'[p] = "abort" /\ loc'[p] = loc[p]
    BY <1>2, <1>3, MoveIs DEF IInv, Steps
<1>6. Writes(p, s) /\ recOf' = recOf /\ recFp' = recFp
    BY <1>2, <1>3, <1>4, <1>5, TermIs, FilesAre DEF Writes
<1>7. Own(p)'
    BY <1>1, <1>2, <1>3, <1>5, <1>6 DEF Own, Work, Loops, Settled, Stopping, Starting
<1>8. pc'[p] \in Starting /\ recOf'[s] <= spawned /\ svcOf[recOf'[s]] = s
    BY <1>2, <1>5, <1>6 DEF Starting
<1> QED
    BY <1>1, <1>2, <1>5, <1>6, <1>7, <1>8, WritesKeep

LEMMA AbortKeeps == ASSUME IInv, NEW p \in Procs, Abort(p) PROVE IInv'
<1> DEFINE s == loc[p].svc
           i == loc[p].id
           r == [loc[p] EXCEPT !.failed = TRUE]
<1>1. pc[p] = "abort" /\ pc[p] \in Starting /\ ~IdentityAlive(i)
    BY DEF Abort, At, Starting
<1>2. /\ s \in Services /\ i \in Spawns /\ i <= spawned /\ svcOf[i] = s /\ holder = p
      /\ loc[p] \in Locals /\ Loops(p) /\ (loc[p].cmd = "pause" => loc[p].stopAll)
      /\ ~stopped /\ ~loc[p].stopAll
    BY <1>1, AtHand DEF Work
<1>3. UNCHANGED <<defn, quiesced, svcOf, pidOf, foreign, spawned, orphans, stopped, counts,
                  holder, kid, cap, termed, stray>> /\ Goto(p, "starts") /\ Set(p, r)
    BY DEF Abort, table, hist
<1>4. kid \in [Spawns -> BOOLEAN] /\ termed \in [Spawns -> BOOLEAN]
      /\ cap \in [Spawns -> Phases]
      /\ stray \subseteq {"stop", "start"} /\ "stop" \notin stray
    BY DEF IInv, Typed, TypeData, OnlyOwnSignalled
<1>5. /\ r \in Locals /\ r.cmd = loc[p].cmd /\ r.stopAll = loc[p].stopAll
      /\ r.want = loc[p].want /\ r.helper = loc[p].helper /\ r.bad = loc[p].bad
    BY <1>2 DEF Locals
<1> HIDE DEF r
<1>6. Moves(p) /\ pc'[p] = "starts" /\ loc'[p] = r
    BY <1>2, <1>3, <1>5, MoveIs DEF IInv, Steps
<1>7. /\ recOf' \in [Services -> Spawns \cup {NoRec}]
      /\ recFp' \in [Services -> Versions \cup {NoVersion}]
      /\ recOf'[s] # NoRec => recOf'[s] = recOf[s] /\ recFp'[s] = recFp[s]
      /\ \A t \in Services \ {s} : recOf'[t] = recOf[t] /\ recFp'[t] = recFp[t]
      /\ recOf'[s] = recOf[s] \/ cap[recOf[s]] \notin Up
  <2>1. CASE recOf[s] = i /\ Forget(s)
      BY <1>1, <1>2, <2>1, ForgetIs DEF IdentityAlive
  <2>2. CASE UNCHANGED files
      BY <2>2, FilesAre
  <2> QED
      BY <2>1, <2>2 DEF Abort
<1>8. Writes(p, s)
    BY <1>2, <1>3, <1>4, <1>6, <1>7 DEF Writes, Fades
<1>9. Own(p)'
  <2>1. \A t \in Services : Settled(p, t)'
      BY <1>1, <1>2, <1>5, <1>6, <1>7 DEF Loops, Settled
  <2> QED
      BY <1>2, <1>5, <1>6, <2>1 DEF Own, Work, Loops, Stopping, Starting
<1>10. recOf'[s] # NoRec => recOf'[s] <= spawned /\ svcOf[recOf'[s]] = s
    BY <1>2, <1>7 DEF IInv, Recs
<1>11. cap'[i] \notin {"forked"} \cup Up
    BY <1>1, <1>3 DEF IdentityAlive
<1> QED
    BY <1>1, <1>2, <1>7, <1>8, <1>9, <1>10, <1>11, WritesKeep

\* Whoever is killed lets go of the lock; the supervisor it was starting is an
\* orphan from then on.
LEMMA CrashKeeps == ASSUME IInv, NEW p \in Procs, Crash(p) PROVE IInv'
<1>1. /\ pc' = [pc EXCEPT ![p] = "idle"] /\ loc' = [loc EXCEPT ![p] = Idle]
      /\ holder' = IF holder = p THEN Nobody ELSE holder
      /\ orphans' = IF pc[p] \in Starting /\ Untraced(p)
                    THEN orphans \cup {loc[p].id} ELSE orphans
      /\ faults' \in 0 .. MaxFaults
      /\ UNCHANGED <<defn, quiesced, files, table, stopped, stray, commands, changes>>
    BY Distinct DEF Crash, Starting, IInv, Typed, TypeData
<1>2. Moves(p) /\ pc'[p] = "idle" /\ loc'[p] = Idle
    BY <1>1, IdleIs DEF Moves, IInv, Typed, TypeData, Steps, Unlocked
<1>3. orphans \subseteq orphans' /\ orphans' \subseteq Spawns
      /\ (holder = p \/ orphans' = orphans)
      /\ (pc[p] \in Starting /\ Untraced(p) => loc[p].id \in orphans')
  <2>1. orphans \subseteq Spawns
      BY DEF IInv, Typed, TypeData
  <2> QED
      BY <1>1, <2>1, AtHand
<1>4. UNCHANGED <<recOf, recFp, cap, kid, termed, svcOf, pidOf, foreign, spawned>> /\ Fades
    BY <1>1 DEF files, table, Fades
<1>5. TypeData'
    BY <1>1, <1>3, <1>4, TypeIs DEF IInv, TypeData
<1>6. Own(p)'
    BY <1>2, IdleIs DEF Own, Work, Loops, Stopping, Starting
<1>7. Born' /\ Recs' /\ OnlyOwnSignalled'
    BY <1>1, <1>4 DEF IInv, Born, Recs, OnlyOwnSignalled, IdentityAlive
<1>8. Known'
  <2>1. CASE pc[p] \in Starting /\ ~Untraced(p)
    <3>1. recOf'[svcOf[loc[p].id]] = loc[p].id /\ cap'[loc[p].id] # "forked"
        BY <1>4, <2>1, AtHand DEF Untraced, Work
    <3>2. cap'[loc[p].id] \in Up \/ cap'[loc[p].id] \notin {"forked"} \cup Up
        BY <3>1
    <3> QED
        BY <1>2, <1>3, <1>4, <3>1, <3>2, KnownKeeps
  <2>2. CASE pc[p] \notin Starting \/ Untraced(p)
      BY <1>2, <1>3, <1>4, <2>2, KnownKeeps
  <2> QED
      BY <2>1, <2>2
<1>9. Paused'
  <2>1. pc'[p] \notin {"starts"} \cup Starting
      BY <1>2 DEF Starting
  <2>2. stopped' => stopped /\ quiesced'
      BY <1>1, FlagsAre, Zenon
  <2> QED
      BY <1>2, <1>3, <1>4, <2>1, <2>2, PausedKeeps
<1> QED
    BY <1>2, <1>3, <1>4, <1>5, <1>6, <1>7, <1>8, <1>9, StepKeeps

-----------------------------------------------------------------------------
(* The supervisors, users and accidents.                                   *)

\* Nothing here touches the records, the lock or what a reconciler does next.
LEMMA OutsideKeeps ==
    ASSUME IInv, Fades, TypeData',
           UNCHANGED <<recOf, recFp, svcOf, pidOf, spawned, holder, pc, orphans, stopped, stray,
                       quiesced>>,
           \A i \in Spawns : IdentityAlive(i) => pidOf[i] \notin foreign',
           loc' \in [Procs -> Locals],
           \A p \in Procs : /\ loc'[p].svc = loc[p].svc /\ loc'[p].id = loc[p].id
                            /\ loc'[p].stopAll = loc[p].stopAll /\ loc'[p].cmd = loc[p].cmd
                            /\ loc'[p].failed = loc[p].failed /\ loc'[p].helper = loc[p].helper
                            /\ loc'[p].bad = loc[p].bad /\ loc'[p].want = loc[p].want
                            /\ loc'[p].todo = loc[p].todo
    PROVE  IInv'
<1>1. \A i \in Spawns : IdentityAlive(i)' => IdentityAlive(i)
    BY DEF Fades, IdentityAlive
<1>2. Typed'
    BY DEF Typed, TypeData, IInv
<1>3. Born'
  <2>1. spawned \in Nat /\ \A i \in Spawns : i \in Nat
      BY Distinct DEF IInv, Typed, TypeData, Spawns
  <2>2. \A i \in Spawns : i > spawned => cap'[i] = "none"
      BY <2>1 DEF Fades, IdentityAlive, IInv, Born
  <2> QED
      BY <1>1, <2>2 DEF IInv, Born
<1>4. Recs' /\ OnlyOwnSignalled'
    BY DEF IInv, Recs, OnlyOwnSignalled
<1>5. ASSUME NEW p \in Procs PROVE Work(p)' /\ Loops(p)'
  <2>1. \A s \in Services : Settled(p, s) => Settled(p, s)'
      BY DEF Settled
  <2>2. \A s \in Services : Spent(s) => Spent(s)'
    <3>1. \A s \in Services : recOf[s] # NoRec => recOf[s] \in Spawns
        BY DEF IInv, Typed, TypeData
    <3> QED
        BY <1>1, <3>1 DEF Spent, IdentityAlive, Fades
  <2>3. Work(p) /\ Loops(p)
      BY DEF IInv
  <2>4. Work(p)'
    <3>1. pc[p] \in {"record", "abort"} => loc[p].svc \in Services
        BY <2>3 DEF Work, Starting
    <3> QED
        BY <2>2, <2>3, <3>1 DEF Work, Spent, IdentityAlive
  <2>5. Loops(p)'
      BY <2>1, <2>3 DEF Loops
  <2> QED
      BY <2>4, <2>5
<1>6. Known'
  <2> SUFFICES ASSUME NEW i \in Spawns, IdentityAlive(i)', i \notin orphans
               PROVE  \/ cap'[i] \in Up /\ recOf[svcOf[i]] = i
                      \/ \E p \in Procs : pc[p] \in Starting /\ loc'[p].id = i
      BY DEF Known
  <2>1. cap[i] \in Up => cap'[i] \in Up
      BY DEF Fades, IdentityAlive
  <2> QED
      BY <1>1, <2>1 DEF IInv, Known
<1>7. Paused'
  <2>1. \A i \in Spawns \ orphans : ~IdentityAlive(i) => ~IdentityAlive(i)'
      BY <1>1
  <2> QED
      BY <2>1, Zenon DEF IInv, Paused
<1> QED
    BY <1>2, <1>3, <1>4, <1>5, <1>6, <1>7 DEF IInv

\* The same for what leaves the reconcilers' variables alone.
LEMMA TableKeeps ==
    ASSUME IInv, Fades, UNCHANGED <<recOf, recFp, svcOf, pidOf, spawned, holder, pc, loc, orphans,
                                    stopped, stray, quiesced, termed, commands>>,
           defn' \in [Services -> Versions \cup {NoVersion}],
           cap' \in [Spawns -> Phases], kid' \in [Spawns -> BOOLEAN],
           foreign' \subseteq Pids,
           \A i \in Spawns : IdentityAlive(i) => pidOf[i] \notin foreign',
           changes' \in 0 .. MaxChanges, faults' \in 0 .. MaxFaults
    PROVE  IInv'
<1>1. TypeData'
    BY TypeIs DEF IInv, Typed, TypeData
<1>2. loc' \in [Procs -> Locals]
    BY DEF IInv, Typed, TypeData
<1> QED
    BY <1>1, <1>2, OutsideKeeps

LEMMA TableIs ==
    ASSUME IInv
    PROVE  /\ defn \in [Services -> Versions \cup {NoVersion}]
           /\ cap \in [Spawns -> Phases] /\ kid \in [Spawns -> BOOLEAN]
           /\ foreign \subseteq Pids
           /\ \A i \in Spawns : IdentityAlive(i) => pidOf[i] \notin foreign /\ i <= spawned
           /\ changes \in 0 .. MaxChanges /\ faults \in 0 .. MaxFaults
<1>1. spawned \in Nat /\ \A i \in Spawns : i \in Nat
    BY Distinct DEF IInv, Typed, TypeData, Spawns
<1>2. \A i \in Spawns : IdentityAlive(i) => pidOf[i] \notin foreign /\ i <= spawned
    BY <1>1 DEF IInv, Born, IdentityAlive
<1> QED
    BY <1>2 DEF IInv, Typed, TypeData

LEMMA CaptureKeeps == ASSUME IInv, NEW i \in Spawns, Capture(i) PROVE IInv'
<1>1. /\ UNCHANGED <<recOf, recFp, svcOf, pidOf, spawned, holder, pc, loc, orphans, stopped, stray,
                  quiesced, termed,
                     commands, defn, foreign, changes, faults>>
      /\ \/ IdentityAlive(i) /\ \E x \in {"launch", "rest", "gone"} :
                                   cap' = [cap EXCEPT ![i] = x]
         \/ UNCHANGED cap
      /\ kid' = kid \/ \E b \in BOOLEAN : kid' = [kid EXCEPT ![i] = b]
    BY DEF Capture, Exec, Supervisor!Launch, Supervisor!LaunchFails, Supervisor!Forks,
           Supervisor!KinEnd, Supervisor!Again, KidEnds, Supervisor!KidEnds, Supervisor!Ends, Supervisor!Becomes,
           IdentityAlive, files, hist, counts
<1>2. Fades /\ cap' \in [Spawns -> Phases]
    BY <1>1, TableIs DEF Fades, IdentityAlive
<1>3. kid' \in [Spawns -> BOOLEAN]
    BY <1>1, TableIs
<1> QED
    BY <1>1, <1>2, <1>3, TableKeeps, TableIs

LEMMA EditKeeps ==
    ASSUME IInv, NEW s \in Services, NEW v \in Versions \cup {NoVersion}, Edit(s, v)
    PROVE  IInv'
<1>1. changes' \in 0 .. MaxChanges
    BY TableIs, Distinct DEF Edit
<1>2. UNCHANGED <<recOf, recFp, svcOf, pidOf, spawned, holder, pc, loc, orphans, stopped, stray,
                  quiesced, termed,
                  commands, cap, kid, foreign, faults>> /\ Fades
    BY DEF Edit, files, table, hist, Fades
<1>3. defn' \in [Services -> Versions \cup {NoVersion}]
    BY TableIs DEF Edit
<1> QED
    BY <1>1, <1>2, <1>3, TableKeeps, TableIs

LEMMA FaultIs ==
    ASSUME IInv, faults < MaxFaults, faults' = faults + 1
    PROVE  faults' \in 0 .. MaxFaults
BY TableIs, Distinct

LEMMA KidCrashKeeps == ASSUME IInv, NEW i \in Spawns, KidCrash(i) PROVE IInv'
<1>1. faults' \in 0 .. MaxFaults /\ kid' \in [Spawns -> BOOLEAN]
    BY TableIs, FaultIs DEF KidCrash
<1>2. UNCHANGED <<recOf, recFp, svcOf, pidOf, spawned, holder, pc, orphans, stopped, stray,
                  quiesced, termed,
                  commands, cap, foreign, changes, defn>> /\ Fades
    BY DEF KidCrash, files, hist, Fades
<1>3. ASSUME NEW p \in Procs
      PROVE  /\ loc'[p] \in Locals
             /\ loc'[p].svc = loc[p].svc /\ loc'[p].id = loc[p].id
             /\ loc'[p].stopAll = loc[p].stopAll /\ loc'[p].cmd = loc[p].cmd
             /\ loc'[p].failed = loc[p].failed /\ loc'[p].helper = loc[p].helper
             /\ loc'[p].bad = loc[p].bad /\ loc'[p].want = loc[p].want
             /\ loc'[p].todo = loc[p].todo
  <2> DEFINE b == loc[p].kid /\ loc[p].id # i
  <2>1. loc'[p] = [loc[p] EXCEPT !.kid = b]
      BY DEF KidCrash
  <2>2. b \in BOOLEAN /\ loc[p] \in Locals
      BY LocIs DEF Locals
  <2> HIDE DEF b
  <2> QED
      BY <2>1, <2>2 DEF Locals
<1>4. loc' \in [Procs -> Locals]
  <2>1. loc' = [p \in Procs |-> loc'[p]]
      BY DEF KidCrash
  <2> QED
      BY <1>3, <2>1
<1>5. TypeData'
    BY <1>1, <1>2, TypeIs DEF IInv, Typed, TypeData
<1> QED
    BY <1>2, <1>3, <1>4, <1>5, TableIs, OutsideKeeps

LEMMA CaptureKilledKeeps == ASSUME IInv, NEW i \in Spawns, CaptureKilled(i) PROVE IInv'
<1>1. faults' \in 0 .. MaxFaults
    BY FaultIs DEF CaptureKilled
<1>2. kid' \in {[kid EXCEPT ![i] = FALSE], kid}
    BY DEF CaptureKilled, Dies
<1>3. kid' \in [Spawns -> BOOLEAN]
    BY <1>2, TableIs
<1>4. Fades /\ cap' \in [Spawns -> Phases]
    BY TableIs DEF CaptureKilled, Dies, Fades
<1>5. UNCHANGED <<recOf, recFp, svcOf, pidOf, spawned, holder, pc, loc, orphans, stopped, stray,
                  quiesced, termed,
                  commands, foreign, changes, defn>>
    BY DEF CaptureKilled, files
<1> QED
    BY <1>1, <1>3, <1>4, <1>5, TableIs, TableKeeps

\* The number another program gets is nobody's.
LEMMA ReuseKeeps == ASSUME IInv, NEW n \in Pids, Reuse(n) PROVE IInv'
<1>1. faults' \in 0 .. MaxFaults
    BY FaultIs DEF Reuse
<1>2. \A j \in Spawns : IdentityAlive(j) => pidOf[j] # n
    BY DEF Reuse, Holders
<1>3. foreign' \subseteq Pids /\ \A j \in Spawns : IdentityAlive(j) => pidOf[j] \notin foreign'
    BY <1>2, TableIs DEF Reuse
<1>4. UNCHANGED <<recOf, recFp, svcOf, pidOf, spawned, holder, pc, loc, orphans, stopped, stray,
                  quiesced, termed,
                  commands, cap, kid, changes, defn>> /\ Fades
    BY DEF Reuse, files, hist, Fades
<1> QED
    BY <1>1, <1>3, <1>4, TableIs, TableKeeps

-----------------------------------------------------------------------------
(* The invariant and the theorems.                                         *)

LEMMA IInvInit == Init => IInv
<1> SUFFICES ASSUME Init PROVE IInv
    OBVIOUS
<1>1. 0 \in 0 .. MaxCommands /\ 0 \in 0 .. MaxChanges /\ 0 \in 0 .. MaxFaults
      /\ 0 \in 0 .. MaxSpawns
    BY Distinct
<1>2. Typed
    BY <1>1, IdleIs DEF Init, Typed, TypeData, Steps, Unlocked
<1>3. \A i \in Spawns : ~IdentityAlive(i)
    BY DEF Init, IdentityAlive
<1>4. \A p \in Procs : Work(p) /\ Loops(p)
    BY IdleIs DEF Init, Work, Loops, Stopping, Starting
<1>5. Born /\ Recs /\ Known /\ Paused
    BY <1>3 DEF Init, Born, Recs, Known, Paused
<1> QED
    BY <1>2, <1>4, <1>5 DEF Init, IInv, OnlyOwnSignalled

LEMMA IInvStep == IInv /\ [Next]_vars => IInv'
<1> SUFFICES ASSUME IInv, [Next]_vars PROVE IInv'
    OBVIOUS
<1>1. ASSUME NEW p \in Procs, Step(p) \/ Crash(p) PROVE IInv'
    BY <1>1, EnterKeeps, LockKeeps, ScanKeeps, StopNextKeeps, StopsDoneKeeps, StopTermKeeps,
       StopWaitKeeps, StopKillKeeps, StopReportKeeps, GateKeeps, StartNextKeeps, StartsDoneKeeps,
       RecordKeeps, ConfirmKeeps, GiveUpKeeps, AbortKeeps, ReleaseKeeps, CrashKeeps DEF Step
<1>2. ASSUME NEW p \in Procs, NEW c \in {"reload", "pause", "resume", "loop"}, Begin(p, c)
      PROVE  IInv'
    BY <1>2, BeginKeeps
<1>3. ASSUME NEW i \in Spawns, Capture(i) \/ KidCrash(i) \/ CaptureKilled(i) PROVE IInv'
    BY <1>3, CaptureKeeps, KidCrashKeeps, CaptureKilledKeeps
<1>4. ASSUME NEW s \in Services, NEW v \in Versions \cup {NoVersion}, Edit(s, v) PROVE IInv'
    BY <1>4, EditKeeps
<1>5. ASSUME NEW n \in Pids, Reuse(n) PROVE IInv'
    BY <1>5, ReuseKeeps
<1>6. CASE UNCHANGED vars
  <2>1. UNCHANGED <<recOf, recFp, svcOf, pidOf, spawned, holder, pc, loc, orphans, stopped, stray,
                  quiesced, termed,
                    commands, cap, kid, foreign, changes, defn, faults>> /\ Fades
      BY <1>6 DEF vars, Fades, hist
  <2> QED
      BY <2>1, TableIs, TableKeeps
<1> QED
    BY <1>1, <1>2, <1>3, <1>4, <1>5, <1>6 DEF Next

LEMMA IInvCorrect == Spec => []IInv
BY IInvInit, IInvStep, PTL DEF Spec

\* What the reconcilers' other steps leave of the supervisors and their groups.
LEMMA GroupsStand ==
    ASSUME Next
    PROVE  \/ UNCHANGED <<cap, kid, kin, outlived>>
           \/ \E p \in Procs : StopTerm(p) \/ StopKill(p) \/ Record(p) \/ GiveUp(p) \/ StartNext(p)
           \/ \E i \in Spawns : Capture(i) \/ KidCrash(i) \/ CaptureKilled(i)
<1>1. ASSUME NEW p \in Procs, Step(p) \/ Crash(p),
             ~(StopKill(p) \/ StopTerm(p) \/ Record(p) \/ GiveUp(p) \/ StartNext(p))
      PROVE  UNCHANGED <<cap, kid, kin, outlived>>
    BY <1>1 DEF Step, Crash, Enter, Lock, Scan, StopNext, StopsDone, StopWait, StopReport,
       Gate, StartsDone, Confirm, Abort, Release, table, hist
<1>2. CASE \/ \E p \in Procs, c \in {"reload", "pause", "resume", "loop"} : Begin(p, c)
           \/ \E s \in Services, v \in Versions \cup {NoVersion} : Edit(s, v)
           \/ \E n \in Pids : Reuse(n)
    BY <1>2 DEF Begin, Edit, Reuse, table, hist
<1> QED
    BY <1>1, <1>2 DEF Next

\* Where such a step only tells a supervisor to end, or starts one.
LEMMA GroupsOf ==
    ASSUME IInv, NEW p \in Procs, StopTerm(p) \/ Record(p) \/ GiveUp(p) \/ StartNext(p)
    PROVE  /\ UNCHANGED <<kid, kin, outlived>>
           /\ \A i \in Spawns : cap[i] \in Up => cap'[i] \in Up
<1>1. cap \in [Spawns -> Phases]
    BY TableIs
<1>2. CASE StopTerm(p) \/ Record(p) \/ GiveUp(p)
    BY <1>1, <1>2 DEF StopTerm, Record, GiveUp, Term
<1>3. CASE StartNext(p)
  <2>1. UNCHANGED <<kid, kin, outlived>>
      BY <1>3 DEF StartNext, Spawn, table, hist
  <2>2. ASSUME NEW i \in Spawns, cap[i] \in Up PROVE cap'[i] \in Up
    <3>1. cap'[i] = cap[i] \/ i = spawned + 1
        BY <1>1, <1>3 DEF StartNext, Spawn, table
    <3>2. spawned \in Nat /\ (i > spawned => cap[i] = "none")
        BY Distinct DEF IInv, Typed, TypeData, Born
    <3> QED
        BY <2>2, <3>1, <3>2
  <2> QED
      BY <2>1, <2>2
<1> QED
    BY <1>2, <1>3

LEMMA KinStep == IInv /\ KinTyped /\ [Next]_vars => KinTyped'
<1> SUFFICES ASSUME IInv, KinTyped, [Next]_vars PROVE KinTyped'
    OBVIOUS
<1>1. CASE UNCHANGED <<kin, outlived>>
    BY <1>1 DEF KinTyped
<1>2. ASSUME NEW p \in Procs, StopKill(p) PROVE KinTyped'
  <2> DEFINE j == loc[p].id
             b == kin[j] /\ ~(loc[p].kid /\ kid[j])
  <2>1. kin' \in {[kin EXCEPT ![j] = b], kin} /\ b \in BOOLEAN
      BY <1>2 DEF StopKill, Kill
  <2> HIDE DEF b
  <2>2. j \in Spawns
      BY <1>2, AtHand DEF StopKill, At, Work, Stopping
  <2>3. outlived' \in {outlived, outlived \cup {j}}
      BY <1>2 DEF StopKill, Kill, Dies
  <2> HIDE DEF j
  <2> QED
      BY <2>1, <2>2, <2>3 DEF KinTyped
<1>3. ASSUME NEW i \in Spawns, Capture(i) PROVE KinTyped'
  <2>1. outlived' = outlived
      BY <1>3 DEF Capture, hist
  <2>2. kin' \in {kin, [kin EXCEPT ![i] = TRUE], [kin EXCEPT ![i] = FALSE]}
      BY <1>3 DEF Capture, Exec, Supervisor!Launch, Supervisor!LaunchFails, Supervisor!Forks,
             Supervisor!KinEnd, Supervisor!Again, KidEnds, Supervisor!KidEnds, Supervisor!Ends,
             Supervisor!Becomes
  <2> QED
      BY <2>1, <2>2 DEF KinTyped
<1>4. ASSUME NEW i \in Spawns, KidCrash(i) \/ CaptureKilled(i) PROVE KinTyped'
    BY <1>4 DEF KidCrash, CaptureKilled, Dies, hist, KinTyped
<1>5. CASE UNCHANGED vars
    BY <1>1, <1>5 DEF vars
<1> QED
    BY <1>1, <1>2, <1>3, <1>4, <1>5, GroupsStand, GroupsOf

\* Whatever SIGKILL reaches being gone, a supervisor leaves no service behind.
LEMMA KidsStep == IInv /\ KinTyped /\ Kids /\ [Next]_vars => Kids'
<1> SUFFICES ASSUME IInv, KinTyped, Kids, [Next]_vars, "group" \notin Unkillable,
                    NEW i \in Spawns
             PROVE  Housed(i)'
    BY DEF Kids
<1>1. \A j \in Spawns : Housed(j)
    BY DEF Kids
<1>2. cap \in [Spawns -> Phases] /\ kid \in [Spawns -> BOOLEAN] /\ kin \in [Spawns -> BOOLEAN]
    BY TableIs DEF KinTyped
<1>3. CASE UNCHANGED <<cap, kid, kin, outlived>>
    BY <1>1, <1>3 DEF Housed
<1>4. ASSUME NEW j \in Spawns, Dies(j),
             \A k \in Spawns \ {j} : kin'[k] = kin[k]
      PROVE  Housed(i)'
  <2>1. cap' = [cap EXCEPT ![j] = "gone"] /\ kid' = [kid EXCEPT ![j] = FALSE]
        /\ (kin'[j] => j \in outlived') /\ outlived \subseteq outlived'
      BY <1>4 DEF Dies
  <2> QED
      BY <1>1, <1>2, <1>4, <2>1 DEF Housed
<1>5. ASSUME NEW p \in Procs, StopKill(p) PROVE Housed(i)'
  <2> DEFINE j == loc[p].id
             b == kin[j] /\ ~(loc[p].kid /\ kid[j])
             d == kid[j] /\ ~(loc[p].kid /\ kid[j])
  <2>1. j \in Spawns
      BY <1>5, AtHand DEF StopKill, At, Work, Stopping
  <2>2. kin' = [kin EXCEPT ![j] = b]
      BY <1>5 DEF StopKill, Kill
  <2>3. \/ Dies(j)
        \/ kid' = [kid EXCEPT ![j] = d] /\ UNCHANGED <<cap, outlived>>
      BY <1>5 DEF StopKill, Kill
  <2>4. (b => kin[j]) /\ (d => kid[j])
      OBVIOUS
  <2> HIDE DEF b, d, j
  <2>5. CASE Dies(j)
      BY <1>2, <1>4, <2>1, <2>2, <2>5
  <2>6. CASE kid' = [kid EXCEPT ![j] = d] /\ UNCHANGED <<cap, outlived>>
      BY <1>1, <1>2, <2>1, <2>2, <2>4, <2>6 DEF Housed
  <2> QED
      BY <2>3, <2>5, <2>6
<1>6. ASSUME NEW p \in Procs, StopTerm(p) \/ Record(p) \/ GiveUp(p) \/ StartNext(p)
      PROVE  Housed(i)'
    BY <1>1, <1>6, GroupsOf DEF Housed
<1>7. ASSUME NEW j \in Spawns, CaptureKilled(j) PROVE Housed(i)'
    BY <1>4, <1>7 DEF CaptureKilled
<1>8. ASSUME NEW j \in Spawns, Capture(j) PROVE Housed(i)'
  <2>1. outlived' = outlived
      BY <1>8 DEF Capture, hist
  <2>2. CASE Exec(j) \/ Supervisor!Launch(j) \/ Supervisor!LaunchFails(j) \/ Supervisor!Again(j)
      BY <1>1, <1>2, <2>1, <2>2
      DEF Exec, Supervisor!Launch, Supervisor!LaunchFails, Supervisor!Again, Supervisor!Becomes,
          Housed
  <2>3. CASE Supervisor!Forks(j) \/ Supervisor!KinEnd(j)
      BY <1>1, <1>2, <2>1, <2>3 DEF Supervisor!Forks, Supervisor!KinEnd, Housed
  <2>4. CASE KidEnds(j)
      BY <1>1, <1>2, <2>1, <2>4 DEF KidEnds, Supervisor!KidEnds, Housed
  <2>5. CASE Supervisor!Ends(j)
      BY <1>1, <1>2, <2>1, <2>5 DEF Supervisor!Ends, Supervisor!Becomes, Housed
  <2> QED
      BY <1>8, <2>2, <2>3, <2>4, <2>5 DEF Capture
<1>9. ASSUME NEW j \in Spawns, KidCrash(j) PROVE Housed(i)'
    BY <1>1, <1>2, <1>9 DEF KidCrash, hist, Housed
<1>10. CASE UNCHANGED vars
    BY <1>3, <1>10 DEF vars
<1> QED
    BY <1>3, <1>5, <1>6, <1>7, <1>8, <1>9, <1>10, GroupsStand

LEMMA KinCorrect == Spec => []KinTyped
<1>1. Init => KinTyped
    BY DEF Init, KinTyped
<1> QED
    BY <1>1, KinStep, IInvCorrect, PTL DEF Spec

LEMMA KidsCorrect == Spec => []Kids
<1>1. Init => Kids
    BY DEF Init, Kids, Housed
<1> QED
    BY <1>1, KidsStep, IInvCorrect, KinCorrect, PTL DEF Spec

\* Every value of the state is of its kind, and whoever is past the lock has it.
THEOREM TypeCorrect == Spec => []TypeOK
<1>1. IInv /\ KinTyped => TypeOK
    BY DEF IInv, Typed, TypeData, KinTyped, TypeOK
<1> QED
    BY <1>1, IInvCorrect, KinCorrect, PTL

\* No supervisor is lost: its state file names it or the holder of the lock is
\* starting it, whoever dies or is killed and however files change meanwhile
\* (_write_state before anything else may look, stop_failed in the start loop).
THEOREM RecordedCorrect == Spec => []EveryCaptureRecorded
<1>1. IInv => EveryCaptureRecorded
  <2> SUFFICES ASSUME IInv, NEW i \in Spawns, IdentityAlive(i), i \notin orphans
               PROVE  \/ recOf[svcOf[i]] = i
                      \/ \E p \in Procs : /\ holder = p /\ loc[p].id = i
                                          /\ pc[p] \in {"record", "abort"}
      BY DEF EveryCaptureRecorded
  <2>1. CASE recOf[svcOf[i]] = i
      BY <2>1
  <2>2. ASSUME NEW p \in Procs, pc[p] \in Starting, loc[p].id = i
        PROVE  \/ recOf[svcOf[i]] = i
               \/ holder = p /\ pc[p] \in {"record", "abort"}
      BY <2>2, AtHand DEF Work, Starting
  <2> QED
      BY <2>1, <2>2 DEF IInv, Known
<1> QED
    BY <1>1, IInvCorrect, PTL

\* A stop signals no program that is not a supervisor of tx9, whatever process
\* numbers are reused (_pid_identity_alive before each signal of _stop_one).
THEOREM SignalsCorrect == Spec => []OnlyOwnSignalled
BY IInvCorrect, PTL DEF IInv

\* After hb pause has succeeded nothing of a service runs until the box is
\* resumed: the marker is set before stop-all, and whoever was about to start
\* something looks at it under the lock.  SIGKILL must end what it reaches, for it
\* is by its supervisor alone that stop-all finds a service; and the property does
\* not speak of what a service forked whose supervisor got SIGKILL over it.
THEOREM PauseCorrect ==
    ASSUME "group" \notin Unkillable
    PROVE  Spec => []PauseIsFinal
<1>1. IInv /\ Kids => PauseIsFinal
    BY DEF IInv, Kids, Housed, Paused, PauseIsFinal, Runs, IdentityAlive
<1> QED
    BY <1>1, IInvCorrect, KidsCorrect, PTL

\* No service runs twice, on the same terms: the state file names one
\* supervisor, and it is not overwritten while that one lives.
THEOREM DuplicateCorrect ==
    ASSUME "group" \notin Unkillable
    PROVE  Spec => []NoDuplicate
<1>1. IInv /\ Kids => NoDuplicate
  <2> SUFFICES ASSUME IInv, Kids, NEW i \in Spawns \ orphans, NEW j \in Spawns \ orphans,
                      Runs(i), Runs(j), svcOf[i] = svcOf[j]
               PROVE  i = j
      BY DEF NoDuplicate
  <2>1. IdentityAlive(i) /\ IdentityAlive(j)
      BY DEF Kids, Housed, Runs, IdentityAlive
  <2>2. ASSUME NEW p \in Procs, pc[p] \in Starting,
               NEW a \in Spawns \ orphans, IdentityAlive(a), recOf[svcOf[a]] = a,
               svcOf[loc[p].id] = svcOf[a]
        PROVE  loc[p].id = a
    <3>1. loc[p].svc = svcOf[a] /\ Work(p)
        BY <2>2, AtHand
    <3>2. ~Spent(svcOf[a])
        BY <2>2, Distinct DEF Spent
    <3> QED
        BY <2>2, <3>1, <3>2 DEF Work, Starting
  <2>3. ASSUME NEW p \in Procs, pc[p] \in Starting, NEW q \in Procs, pc[q] \in Starting
        PROVE  p = q
      BY <2>3, AtHand
  <2>4. /\ recOf[svcOf[i]] = i \/ \E p \in Procs : pc[p] \in Starting /\ loc[p].id = i
        /\ recOf[svcOf[j]] = j \/ \E p \in Procs : pc[p] \in Starting /\ loc[p].id = j
      BY <2>1 DEF IInv, Known
  <2> QED
      BY <2>1, <2>2, <2>3, <2>4
<1> QED
    BY <1>1, IInvCorrect, KidsCorrect, PTL

==============================================================================
