------------------------ MODULE GatewayControl_proofs ------------------------
(***************************************************************************)
(* Proofs about GatewayControl, for any number of hb processes, of slots   *)
(* in the process table, of requests, of commands and of failures.         *)
(***************************************************************************)
EXTENDS GatewayControl, TLAPS

Cmds == UserCommands \cup {"none", "reconcile", "reload"}

\* A process in a critical section holds its lock.
Holds(p) ==
    /\ pc[p] \in {"recheck", "findGateway", "findCapture", "watch", "spawn", "wait", "stopping"}
          => gateLock = p
    /\ pc[p] \in {"scan", "processed", "retry", "wireConfig", "wireRequest", "unwireRequest"}
          => loadLock = p
    /\ cmd[p] = "reload" /\ pc[p] # "lockReload" => loadLock = p
    /\ pc[p] = "unwireConfig" /\ seen[p] # {} => loadLock = p

\* The parts of the script that belong to one command.
Knows(p) ==
    /\ cmd[p] = "reload" =>
          pc[p] \in {"lockReload", "scan", "lockStop", "stopping", "check", "lockStart",
                     "recheck", "findGateway", "findCapture", "watch", "spawn", "wait",
                     "processed", "retry"}
    /\ pc[p] \in {"lockReload", "scan", "processed", "retry"} => cmd[p] = "reload"
    /\ pc[p] \in {"wireConfig", "wireRequest"} => cmd[p] = "wire"

\* What a process relies on between two steps: nothing has come up since it
\* looked, nothing is outdated since its stop, its own request is still there.
Relies(p) ==
    /\ pc[p] \in {"findGateway", "findCapture", "spawn"} => stopped = {}
    /\ pc[p] = "findCapture" => Live \subseteq Captures \cup astray
    /\ pc[p] = "spawn" => Live \subseteq astray
    /\ cmd[p] = "reload" /\ pc[p] \in {"check", "lockStart", "recheck", "findGateway", "findCapture",
                                      "watch", "spawn", "wait", "retry", "processed"}
          => stale = {} \/ partial
    /\ pc[p] = "unwireConfig" /\ seen[p] # {} =>
          /\ seen[p] \subseteq requests
          /\ stale = {} \/ partial \/ requests \ seen[p] # {}

\* A stop that succeeded still has its marker.
Marked ==
    /\ "quiesced" \in stopped => quiesced
    /\ "disabled" \in stopped => disabled

\* An outdated gateway runs, and its reload is asked for or about to be.
Asked ==
    /\ stale \subseteq Gateways
    /\ stale # {} => requests # {} \/ partial \/ \E p \in Procs : pc[p] = "wireRequest"

\* A launch that no scan can see is waited for or astray, and only the holder of
\* GATEWAY_LOCK waits.
Launched == Forked \subseteq awaited \cup astray
Waits ==
    awaited # {} => \E p \in Procs : gateLock = p /\ pc[p] \in {"watch", "wait"}

IInv ==
    /\ TypeOK
    /\ \A p \in Procs : Holds(p) /\ Knows(p) /\ Relies(p)
    /\ Launched /\ Waits
    /\ Marked /\ StopsAreFinal /\ SingleWriter /\ Asked

-----------------------------------------------------------------------------
(* Where a step leaves the process that takes it.                          *)

\* p is at x, running c, and no other process has moved.
Ctl(p, x, c) ==
    /\ pc' \in [Procs -> Steps] /\ cmd' \in [Procs -> Cmds]
    /\ pc'[p] = x /\ cmd'[p] = c
    /\ \A q \in Procs \ {p} : pc'[q] = pc[q] /\ cmd'[q] = cmd[q]

\* A lock is where it was, or free if p has let go of it.
Kept(lock, new, p) == new = lock \/ (lock = p /\ new = NoProc)

LEMMA ProcsDistinct == NoProc \notin Procs /\ Workload \in Procs /\ Users \subseteq Procs
BY GatewayAssumption DEF GatewayAssumption, Procs

LEMMA GotoIs ==
    ASSUME TypeOK, NEW p \in Procs, NEW x \in Steps, Goto(p, x), UNCHANGED cmd
    PROVE  Ctl(p, x, cmd[p])
BY DEF TypeOK, Goto, Ctl, Cmds

LEMMA BeginIs ==
    ASSUME TypeOK, NEW p \in Procs, NEW x \in Steps, NEW c \in Cmds, Goto(p, x),
           cmd' = [cmd EXCEPT ![p] = c]
    PROVE  Ctl(p, x, c)
BY DEF TypeOK, Goto, Ctl, Cmds

LEMMA ExitIs ==
    ASSUME TypeOK, NEW p \in Procs, Exit(p)
    PROVE  /\ Ctl(p, "idle", "none")
           /\ Kept(gateLock, gateLock', p) /\ Kept(loadLock, loadLock', p)
           /\ gateLock' \in Procs \cup {NoProc} /\ loadLock' \in Procs \cup {NoProc}
BY DEF TypeOK, Exit, Goto, Ctl, Cmds, Kept, Steps

LEMMA ContinueIs ==
    ASSUME TypeOK, NEW p \in Procs, NEW x \in Steps, Continue(p, x)
    PROVE  /\ Ctl(p, x, cmd[p])
           /\ Kept(gateLock, gateLock', p) /\ loadLock' = loadLock
           /\ gateLock' \in Procs \cup {NoProc} /\ loadLock' \in Procs \cup {NoProc}
BY DEF TypeOK, Continue, Goto, Ctl, Cmds, Kept

\* The reload is over; it held its lock.
LEMMA ReloadDoneIs ==
    ASSUME TypeOK, NEW p \in Procs, ReloadDone(p), loadLock = p
    PROVE  /\ Ctl(p, "policy", "reconcile")
           /\ Kept(gateLock, gateLock', p) /\ Kept(loadLock, loadLock', p)
           /\ gateLock' \in Procs \cup {NoProc} /\ loadLock' \in Procs \cup {NoProc}
BY DEF TypeOK, ReloadDone, Goto, Ctl, Cmds, Kept, Steps

\* What follows _start_gateway and _stop_gateway.
StartEnds(p) ==
    \/ Exit(p)
    \/ cmd[p] = "enable" /\ (Continue(p, "lockStop") \/ Continue(p, "undo"))
    \/ cmd[p] = "reload" /\ (Continue(p, "processed") \/ Continue(p, "retry"))
    \/ cmd[p] = "wire" /\ Continue(p, "wireLock")

LEMMA AfterStartIs ==
    ASSUME NEW p \in Procs, NEW st \in {0, 1, 2}, AfterStart(p, st)
    PROVE  StartEnds(p)
BY DEF AfterStart, StartEnds, ReloadFailed

StopEnds(p, ok) ==
    \/ Exit(p)
    \/ cmd[p] = "enable" /\ Continue(p, "undo")
    \/ cmd[p] = "reload" /\ ok /\ Continue(p, "check")

LEMMA AfterStopIs ==
    ASSUME NEW p \in Procs, NEW ok \in BOOLEAN, AfterStop(p, ok)
    PROVE  StopEnds(p, ok)
BY DEF AfterStop, StopEnds

\* In every case the other processes stay where they are.
LEMMA EndsKeep ==
    ASSUME TypeOK, NEW p \in Procs, StartEnds(p) \/ (\E ok \in BOOLEAN : StopEnds(p, ok))
    PROVE  /\ \E x \in Steps, c \in Cmds : Ctl(p, x, c)
           /\ Kept(gateLock, gateLock', p) /\ Kept(loadLock, loadLock', p)
           /\ gateLock' \in Procs \cup {NoProc} /\ loadLock' \in Procs \cup {NoProc}
           /\ gateLock' # p \/ gateLock # p
<1>1. cmd[p] \in Cmds /\ {"idle", "lockStop", "undo", "processed", "retry", "wireLock", "check"}
                            \subseteq Steps /\ "none" \in Cmds
    BY DEF TypeOK, Cmds, Steps
<1>2. CASE Exit(p)
    BY <1>1, <1>2, ExitIs, ProcsDistinct DEF Exit
<1>3. ASSUME NEW x \in Steps, Continue(p, x)
      PROVE  /\ Ctl(p, x, cmd[p])
             /\ Kept(gateLock, gateLock', p) /\ Kept(loadLock, loadLock', p)
             /\ gateLock' \in Procs \cup {NoProc} /\ loadLock' \in Procs \cup {NoProc}
             /\ gateLock' # p \/ gateLock # p
  <2>1. Kept(loadLock, loadLock', p) /\ (gateLock' # p \/ gateLock # p)
      BY <1>3, ProcsDistinct DEF Continue, Kept
  <2> QED
      BY <1>3, <2>1, ContinueIs
<1> QED
    BY <1>1, <1>2, <1>3 DEF StartEnds, StopEnds

-----------------------------------------------------------------------------
(* The processes that do not move.                                         *)

Own(p) == Holds(p) /\ Knows(p) /\ Relies(p)

\* What p's step leaves of the others' control state.
Moves(p) ==
    /\ \E x \in Steps, c \in Cmds : Ctl(p, x, c)
    /\ gateLock' \in Procs \cup {NoProc} /\ loadLock' \in Procs \cup {NoProc}
    /\ seen' \in [Procs -> SUBSET RequestIds]
    /\ commands' \in 0 .. MaxCommands /\ failures' \in 0 .. MaxFailures
    /\ \A q \in Procs \ {p} :
          /\ seen'[q] = seen[q]
          /\ gateLock = q => gateLock' = q
          /\ loadLock = q => loadLock' = q

\* What it may do to the gateway and the requests: nothing that is somebody
\* else's business, unless it holds the lock.
Minds(p) ==
    /\ UNCHANGED <<slot, astray>> \/ gateLock = p
    /\ stopped' \subseteq stopped \/ gateLock = p
    /\ \/ loadLock = p
       \/ /\ stale' \subseteq stale \/ stale' = {} \/ partial'
          /\ partial => partial'
          /\ requests \subseteq requests'

LEMMA OthersKeep ==
    ASSUME IInv, NEW p \in Procs, Moves(p), Minds(p), NEW q \in Procs \ {p}
    PROVE  Own(q)'
<1>1. pc'[q] = pc[q] /\ cmd'[q] = cmd[q] /\ seen'[q] = seen[q]
      /\ (gateLock = q => gateLock' = q) /\ (loadLock = q => loadLock' = q)
    BY DEF Moves, Ctl
<1>2. Own(q)
    BY DEF IInv, Own
<1>3. Holds(q)' /\ Knows(q)'
    BY <1>1, <1>2 DEF Own, Holds, Knows
<1>4. /\ pc'[q] \in {"findGateway", "findCapture", "spawn"} => stopped' = {}
      /\ pc'[q] = "findCapture" => (Live \subseteq Captures \cup astray)'
      /\ pc'[q] = "spawn" => (Live \subseteq astray)'
  <2> SUFFICES ASSUME pc'[q] \in {"findGateway", "findCapture", "spawn"}
               PROVE  /\ stopped' = {}
                      /\ pc'[q] = "findCapture" => (Live \subseteq Captures \cup astray)'
                      /\ pc'[q] = "spawn" => (Live \subseteq astray)'
      OBVIOUS
  <2>1. gateLock = q /\ gateLock # p
      BY <1>1, <1>2 DEF Own, Holds
  <2>2. UNCHANGED <<slot, astray>> /\ stopped' \subseteq stopped
      BY <2>1 DEF Minds
  <2> QED
      BY <1>1, <1>2, <2>2 DEF Own, Relies, Live, Captures
<1>5. loadLock = q =>
          /\ stale' \subseteq stale \/ stale' = {} \/ partial'
          /\ partial => partial'
          /\ requests \subseteq requests'
    BY DEF Minds
<1>6. cmd'[q] = "reload" /\ pc'[q] \in {"check", "lockStart", "recheck", "findGateway", "findCapture",
                                       "watch", "spawn", "wait", "retry", "processed"}
        => stale' = {} \/ partial'
    BY <1>1, <1>2, <1>5 DEF Own, Holds, Relies
<1>7. pc'[q] = "unwireConfig" /\ seen'[q] # {} =>
          /\ seen'[q] \subseteq requests'
          /\ stale' = {} \/ partial' \/ requests' \ seen'[q] # {}
  <2> SUFFICES ASSUME pc'[q] = "unwireConfig", seen'[q] # {}
               PROVE  /\ seen'[q] \subseteq requests'
                      /\ stale' = {} \/ partial' \/ requests' \ seen'[q] # {}
      OBVIOUS
  <2>1. loadLock = q
      BY <1>1, <1>2 DEF Own, Holds
  <2>2. seen[q] \subseteq requests /\ (stale = {} \/ partial \/ requests \ seen[q] # {})
      BY <1>1, <1>2 DEF Own, Relies
  <2>3. requests \subseteq requests' /\ (partial => partial')
        /\ (stale' \subseteq stale \/ stale' = {} \/ partial')
      BY <1>5, <2>1
  <2>4. seen'[q] \subseteq requests'
      BY <1>1, <2>2, <2>3
  <2>5. stale = {} \/ partial => stale' = {} \/ partial'
      BY <2>3
  <2>6. requests \ seen[q] # {} => requests' \ seen'[q] # {}
      BY <1>1, <2>3
  <2> QED
      BY <2>2, <2>4, <2>5, <2>6
<1> QED
    BY <1>3, <1>4, <1>6, <1>7 DEF Own, Relies

\* A step is correct if its process, the gateway and the requests are.
TypeData ==
    /\ quiesced \in BOOLEAN /\ disabled \in BOOLEAN /\ partial \in BOOLEAN
    /\ requests \subseteq RequestIds
    /\ slot \in [Slots -> {"free", "forked", "pending", "up", "orphan"}]
    /\ {awaited, stale, astray} \subseteq SUBSET Slots
    /\ stopped \subseteq {"quiesced", "disabled"}
Good == TypeData /\ Launched /\ Waits /\ Marked /\ StopsAreFinal /\ SingleWriter /\ stale \subseteq Gateways

LEMMA StepKeeps ==
    ASSUME IInv, NEW p \in Procs, Moves(p), Minds(p), Own(p)', Good', Asked'
    PROVE  IInv'
<1>1. \A q \in Procs : Own(q)'
    BY OthersKeep
<1>2. TypeOK'
    BY DEF Moves, Ctl, Good, TypeData, TypeOK, Cmds
<1> QED
    BY <1>1, <1>2 DEF IInv, Own, Good

\* A step that changes neither the gateway nor the markers nor the requests.
Data == <<quiesced, disabled, requests, slot, awaited, stale, astray, stopped, partial>>

\* Whoever else waits goes on waiting.
LEMMA WaitsKept ==
    ASSUME IInv, NEW p \in Procs, Moves(p), UNCHANGED awaited, pc[p] \notin {"watch", "wait"}
    PROVE  Waits'
<1> SUFFICES ASSUME awaited # {}
             PROVE  \E q \in Procs : gateLock' = q /\ pc'[q] \in {"watch", "wait"}
    BY DEF Waits
<1>1. PICK q \in Procs : gateLock = q /\ pc[q] \in {"watch", "wait"}
    BY DEF IInv, Waits
<1>2. gateLock' = q /\ pc'[q] = pc[q]
    BY <1>1 DEF Moves, Ctl
<1> QED
    BY <1>1, <1>2

LEMMA DataKept ==
    ASSUME IInv, NEW p \in Procs, UNCHANGED Data, Moves(p),
           pc[p] # "wireRequest" \/ partial, pc[p] \notin {"watch", "wait"}
    PROVE  Minds(p) /\ Good' /\ Asked'
<1>1. Live' = Live /\ Gateways' = Gateways /\ Forked' = Forked
    BY DEF Data, Live, Gateways, Forked
<1>2. \A q \in Procs \ {p} : pc'[q] = pc[q]
    BY DEF Moves, Ctl
<1>3. Asked'
    BY <1>1, <1>2 DEF Data, IInv, Asked
<1>4. Good'
    BY <1>1, WaitsKept DEF Data, IInv, TypeOK, Good, TypeData, Launched, Marked, StopsAreFinal,
       SingleWriter, Asked
<1> QED
    BY <1>1, <1>3, <1>4 DEF Data, Minds

LEMMA ControlKeeps ==
    ASSUME IInv, NEW p \in Procs, UNCHANGED Data, Moves(p), Own(p)',
           pc[p] # "wireRequest" \/ partial, pc[p] \notin {"watch", "wait"}
    PROVE  IInv'
BY DataKept, StepKeeps

-----------------------------------------------------------------------------
(* Pieces of control flow that several actions share.                      *)

LEMMA BudgetIs ==
    ASSUME IInv
    PROVE  /\ UNCHANGED budget =>
                commands' \in 0 .. MaxCommands /\ failures' \in 0 .. MaxFailures
           /\ Fails => commands' \in 0 .. MaxCommands /\ failures' \in 0 .. MaxFailures
           /\ commands < MaxCommands /\ commands' = commands + 1 /\ UNCHANGED failures =>
                commands' \in 0 .. MaxCommands /\ failures' \in 0 .. MaxFailures
<1>1. commands \in 0 .. MaxCommands /\ failures \in 0 .. MaxFailures
      /\ MaxCommands \in Nat /\ MaxFailures \in Nat
    BY GatewayAssumption DEF GatewayAssumption, IInv, TypeOK
<1> QED
    BY <1>1 DEF budget, Fails

\* The seen requests may change for p alone.
SeenStep(p) ==
    /\ seen' \in [Procs -> SUBSET RequestIds]
    /\ \A q \in Procs \ {p} : seen'[q] = seen[q]

BudgetStep == commands' \in 0 .. MaxCommands /\ failures' \in 0 .. MaxFailures

LEMMA SeenIs ==
    ASSUME IInv, NEW p \in Procs
    PROVE  /\ UNCHANGED seen => SeenStep(p)
           /\ \A R \in SUBSET RequestIds : seen' = [seen EXCEPT ![p] = R] =>
                SeenStep(p) /\ seen'[p] = R
BY DEF IInv, TypeOK, SeenStep

LEMMA MovesBy ==
    ASSUME IInv, NEW p \in Procs, NEW x \in Steps, NEW c \in Cmds, Ctl(p, x, c),
           Kept(gateLock, gateLock', p) \/ gateLock = NoProc,
           Kept(loadLock, loadLock', p) \/ loadLock = NoProc,
           gateLock' \in Procs \cup {NoProc}, loadLock' \in Procs \cup {NoProc},
           SeenStep(p), BudgetStep
    PROVE  Moves(p)
BY ProcsDistinct DEF Moves, Kept, SeenStep, BudgetStep

\* A command ends.
LEMMA ExitKeeps ==
    ASSUME IInv, NEW p \in Procs, Exit(p), SeenStep(p), BudgetStep
    PROVE  Moves(p) /\ Own(p)'
<1>1. Ctl(p, "idle", "none") /\ Kept(gateLock, gateLock', p) /\ Kept(loadLock, loadLock', p)
      /\ gateLock' \in Procs \cup {NoProc} /\ loadLock' \in Procs \cup {NoProc}
    BY ExitIs DEF IInv
<1>2. pc'[p] = "idle" /\ cmd'[p] = "none"
    BY <1>1 DEF Ctl
<1> QED
    BY <1>1, <1>2, MovesBy DEF Own, Holds, Knows, Relies, Steps, Cmds

\* A step without a lock or with the locks it has.
LEMMA ContinueKeeps ==
    ASSUME IInv, NEW p \in Procs, NEW x \in Steps, Continue(p, x), SeenStep(p), BudgetStep
    PROVE  Moves(p) /\ Ctl(p, x, cmd[p]) /\ loadLock' = loadLock
BY ContinueIs, MovesBy DEF IInv, TypeOK, Cmds, Kept

LEMMA GotoKeeps ==
    ASSUME IInv, NEW p \in Procs, NEW x \in Steps, Goto(p, x), UNCHANGED <<cmd, locks>>,
           SeenStep(p), BudgetStep
    PROVE  Moves(p) /\ Ctl(p, x, cmd[p])
BY GotoIs, MovesBy DEF IInv, TypeOK, Cmds, Kept, locks

\* _start_gateway returns to its caller.
LEMMA StartEndsMoves ==
    ASSUME IInv, NEW p \in Procs, NEW st \in {0, 1, 2}, AfterStart(p, st),
           pc[p] \in {"check", "lockStart", "recheck", "findGateway", "findCapture", "watch", "wait"},
           UNCHANGED <<seen, partial>>, stale' \subseteq stale, BudgetStep
    PROVE  Moves(p) /\ Own(p)'
<1>1. SeenStep(p)
    BY SeenIs
<1>2. CASE Exit(p)
    BY <1>1, <1>2, ExitKeeps
<1>3. ASSUME NEW x \in {"lockStop", "undo", "processed", "retry", "wireLock"}, Continue(p, x),
             x \in {"processed", "retry"} <=> cmd[p] = "reload"
      PROVE  Moves(p) /\ Own(p)'
  <2>1. x \in Steps
      BY DEF Steps
  <2>2. Moves(p) /\ pc'[p] = x /\ cmd'[p] = cmd[p] /\ loadLock' = loadLock /\ seen' = seen
      BY <1>1, <1>3, <2>1, ContinueKeeps DEF Ctl
  <2>3. cmd[p] = "reload" => loadLock = p /\ (stale = {} \/ partial)
      BY DEF IInv, Holds, Relies
  <2>4. cmd[p] = "reload" => stale' = {} \/ partial'
      BY <2>3
  <2>5. Own(p)'
      BY <1>3, <2>2, <2>3, <2>4 DEF Own, Holds, Knows, Relies
  <2> QED
      BY <2>2, <2>5
<1> QED
    BY <1>2, <1>3, AfterStartIs DEF StartEnds

LEMMA StartEndsKeeps ==
    ASSUME IInv, NEW p \in Procs, NEW st \in {0, 1, 2}, AfterStart(p, st),
           pc[p] \in {"check", "lockStart", "recheck", "findGateway", "findCapture"},
           UNCHANGED Data, UNCHANGED seen, UNCHANGED budget
    PROVE  IInv'
<1>1. BudgetStep
    BY BudgetIs DEF BudgetStep
<1>2. UNCHANGED <<seen, partial>> /\ stale' \subseteq stale
    BY DEF Data
<1> QED
    BY <1>1, <1>2, StartEndsMoves, ControlKeeps

-----------------------------------------------------------------------------
(* The actions that only move a process.                                   *)

LEMMA BeginKeeps == ASSUME IInv, NEW p \in Procs, Begin(p) PROVE IInv'
<1>1. PICK c \in Commands : cmd' = [cmd EXCEPT ![p] = c] /\ Goto(p, FirstStep(c))
    BY DEF Begin
<1>2. c \in UserCommands /\ c \in Cmds
    BY GatewayAssumption DEF GatewayAssumption, Cmds
<1>3. FirstStep(c) \in {"clear", "mark", "policy", "wireCheck"}
    BY <1>2 DEF FirstStep, UserCommands
<1>4. PICK x \in {"clear", "mark", "policy", "wireCheck"} : x = FirstStep(c)
    BY <1>3
<1>5. x \in Steps /\ Goto(p, x)
    BY <1>1, <1>4 DEF Steps
<1>6. SeenStep(p) /\ BudgetStep /\ UNCHANGED locks /\ UNCHANGED Data
    BY SeenIs, BudgetIs DEF Begin, Data, gateway, history, BudgetStep
<1>7. Ctl(p, x, c)
    BY <1>1, <1>2, <1>5, BeginIs DEF IInv
<1>8. Moves(p)
    BY <1>2, <1>5, <1>6, <1>7, MovesBy DEF Kept, locks, IInv, TypeOK
<1>9. pc'[p] = x /\ cmd'[p] = c /\ c # "reload"
    BY <1>2, <1>7 DEF Ctl, UserCommands
<1>10. Own(p)'
    BY <1>9 DEF Own, Holds, Knows, Relies
<1> QED
    BY <1>6, <1>8, <1>10, ControlKeeps DEF Begin

LEMMA TickKeeps == ASSUME IInv, Tick PROVE IInv'
<1> DEFINE p == Workload
<1>0. p \in Procs
    BY ProcsDistinct
<1>1. SeenStep(p) /\ BudgetStep /\ UNCHANGED locks /\ UNCHANGED Data
    BY <1>0, SeenIs, BudgetIs DEF Tick, Data, gateway, history, BudgetStep
<1>2. CASE UNCHANGED <<cmd, pc>>
  <2>1. Ctl(p, pc[p], cmd[p]) /\ pc[p] \in Steps /\ cmd[p] \in Cmds
      BY <1>0, <1>2 DEF Ctl, IInv, TypeOK, Cmds
  <2>2. Moves(p)
      BY <1>0, <1>1, <2>1, MovesBy DEF Kept, locks, IInv, TypeOK
  <2>3. Own(p)'
      BY <1>0, <1>2, <2>1 DEF Own, Holds, Knows, Relies, Tick, IInv, Ctl
  <2> QED
      BY <1>0, <1>1, <2>2, <2>3, ControlKeeps DEF Tick
<1>3. ASSUME NEW c \in {"reload", "reconcile"}, cmd' = [cmd EXCEPT ![p] = c],
             Goto(p, IF c = "reload" THEN "lockReload" ELSE "policy")
      PROVE  IInv'
  <2>1. PICK x \in {"lockReload", "policy"} : x = IF c = "reload" THEN "lockReload" ELSE "policy"
      OBVIOUS
  <2>2. x \in Steps /\ c \in Cmds /\ Goto(p, x)
      BY <1>3, <2>1 DEF Steps, Cmds
  <2>3. Ctl(p, x, c)
      BY <1>0, <1>3, <2>2, BeginIs DEF IInv
  <2>4. Moves(p)
      BY <1>0, <1>1, <2>2, <2>3, MovesBy DEF Kept, locks, IInv, TypeOK
  <2>5. Own(p)'
      BY <2>1, <2>3 DEF Own, Holds, Knows, Relies, Ctl
  <2> QED
      BY <1>0, <1>1, <2>4, <2>5, ControlKeeps DEF Tick
<1> QED
    BY <1>2, <1>3 DEF Tick

\* A step that goes on to x with the locks it has.
LEMMA GoesOn ==
    ASSUME IInv, NEW p \in Procs, NEW x \in Steps, UNCHANGED Data, SeenStep(p), BudgetStep,
           \/ Goto(p, x) /\ UNCHANGED <<cmd, locks>>
           \/ Continue(p, x),
           x \notin {"recheck", "findGateway", "findCapture", "watch", "spawn", "wait", "stopping",
                     "scan", "lockReload", "processed", "retry", "wireConfig", "wireRequest",
                     "unwireRequest"},
           x = "unwireConfig" => seen'[p] = {},
           cmd[p] = "reload" => /\ x \in {"check", "lockStart"} /\ loadLock = p
                                /\ stale = {} \/ partial,
           pc[p] \notin {"wireRequest", "watch", "wait"}
    PROVE  IInv'
<1>1. Moves(p) /\ pc'[p] = x /\ cmd'[p] = cmd[p] /\ loadLock' = loadLock
    BY GotoKeeps, ContinueKeeps DEF Ctl, locks
<1>2. Own(p)'
    BY <1>1 DEF Own, Holds, Knows, Relies, Data
<1> QED
    BY <1>1, <1>2, ControlKeeps

LEMMA SmallStepsKeep ==
    ASSUME IInv, NEW p \in Procs,
           ExecutorUp(p) \/ CheckPolicy(p) \/ WireCheck(p) \/ UnwireScan(p)
    PROVE  IInv'
<1>1. UNCHANGED Data /\ BudgetStep /\ SeenStep(p)
    BY SeenIs, BudgetIs DEF ExecutorUp, CheckPolicy, WireCheck, UnwireScan, Data,
       gateway, history, BudgetStep, IInv
<1>2. cmd[p] = "reload" => pc[p] \notin {"executor", "wireCheck", "unwireScan"}
    BY DEF IInv, Knows
<1>3. CASE Exit(p) /\ pc[p] \notin {"wireRequest", "watch", "wait"}
    BY <1>1, <1>3, ExitKeeps, ControlKeeps
<1>4. CASE ExecutorUp(p)
    BY <1>1, <1>2, <1>3, <1>4, GoesOn DEF ExecutorUp, Steps, locks
<1>5. CASE CheckPolicy(p)
  <2>1. CASE AfterStart(p, 0)
      BY <1>5, <2>1, StartEndsKeeps DEF CheckPolicy, Data, gateway, history
  <2>2. CASE Continue(p, "lockStart")
    <3>1. cmd[p] = "reload" => loadLock = p /\ (stale = {} \/ partial)
        BY <1>5 DEF IInv, Holds, Relies, CheckPolicy
    <3> QED
        BY <1>1, <1>5, <2>2, <3>1, GoesOn DEF CheckPolicy, Steps
  <2> QED
      BY <1>5, <2>1, <2>2 DEF CheckPolicy
<1>6. CASE WireCheck(p)
  <2>1. CASE cmd[p] = "wire"
      BY <1>1, <1>2, <1>3, <1>6, <2>1, GoesOn DEF WireCheck, Steps
  <2>2. CASE cmd[p] # "wire"
      BY <1>1, <1>2, <1>3, <1>6, <2>2, GoesOn DEF WireCheck, Steps
  <2> QED
      BY <2>1, <2>2
<1>7. CASE UnwireScan(p)
  <2>1. seen'[p] = {}
      BY <1>7, SeenIs DEF UnwireScan
  <2>2. CASE Gateways = {}
      BY <1>1, <1>2, <1>7, <2>1, <2>2, GoesOn DEF UnwireScan, Steps
  <2>3. CASE Gateways # {}
      BY <1>1, <1>2, <1>7, <2>1, <2>3, GoesOn DEF UnwireScan, Steps
  <2> QED
      BY <2>2, <2>3
<1> QED
    BY <1>4, <1>5, <1>6, <1>7

\* A free lock is taken: by whoever goes to the section that it protects.
LEMMA TakesKeep ==
    ASSUME IInv, NEW p \in Procs, NEW x \in Steps, Goto(p, x), UNCHANGED <<cmd, seen, budget>>,
           UNCHANGED Data,
           \/ /\ gateLock = NoProc /\ gateLock' = p /\ UNCHANGED loadLock
              /\ pc[p] \in {"lockStart", "lockStop"} /\ x \in {"recheck", "stopping"}
              /\ x = "recheck" <=> pc[p] = "lockStart"
           \/ /\ loadLock = NoProc /\ loadLock' = p /\ UNCHANGED gateLock
              /\ pc[p] = "lockReload" /\ x = "scan"
           \/ /\ loadLock = NoProc /\ loadLock' = p /\ UNCHANGED gateLock
              /\ pc[p] = "wireLock"
              /\ x = IF cmd[p] = "wire" THEN "wireConfig" ELSE "unwireRequest"
    PROVE  IInv'
<1>1. SeenStep(p) /\ BudgetStep
    BY SeenIs, BudgetIs DEF BudgetStep
<1>2. Ctl(p, x, cmd[p])
    BY GotoIs DEF IInv
<1>3. cmd[p] \in Cmds
    BY DEF IInv, TypeOK, Cmds
<1>4. Moves(p)
    BY <1>1, <1>2, <1>3, MovesBy DEF Kept, IInv, TypeOK
<1>5. pc'[p] = x /\ cmd'[p] = cmd[p]
    BY <1>2 DEF Ctl
<1>6. Holds(p) /\ Knows(p) /\ Relies(p)
    BY DEF IInv
<1>7. Own(p)'
    BY <1>5, <1>6 DEF Own, Holds, Knows, Relies, Data
<1> QED
    BY <1>4, <1>7, ControlKeeps

LEMMA LocksKeep ==
    ASSUME IInv, NEW p \in Procs,
           LockStart(p) \/ LockStop(p) \/ LockReload(p) \/ WireLock(p)
    PROVE  IInv'
<1>1. UNCHANGED Data /\ UNCHANGED seen /\ UNCHANGED budget /\ SeenStep(p) /\ BudgetStep
    BY SeenIs, BudgetIs DEF LockStart, LockStop, LockReload, WireLock, Data, gateway, history,
       BudgetStep
<1>2. CASE Exit(p) /\ pc[p] \notin {"wireRequest", "watch", "wait"}
    BY <1>1, <1>2, ExitKeeps, ControlKeeps
<1>3. CASE LockStart(p)
  <2>1. CASE AfterStart(p, 2)
      BY <1>1, <1>3, <2>1, StartEndsKeeps DEF LockStart
  <2> QED
      BY <1>1, <1>3, <2>1, TakesKeep DEF LockStart, Steps
<1>4. CASE LockStop(p)
  <2>1. CASE AfterStop(p, FALSE)
    <3>1. CASE Continue(p, "undo") /\ cmd[p] = "enable"
        BY <1>1, <1>4, <3>1, GoesOn DEF LockStop, Steps
    <3> QED
        BY <1>2, <1>4, <2>1, <3>1, AfterStopIs DEF LockStop, StopEnds
  <2> QED
      BY <1>1, <1>4, <2>1, TakesKeep DEF LockStop, Steps
<1>5. CASE LockReload(p)
    BY <1>1, <1>2, <1>5, TakesKeep DEF LockReload, Steps
<1>6. CASE WireLock(p)
  <2>1. CASE cmd[p] = "wire"
      BY <1>1, <1>2, <1>6, <2>1, TakesKeep DEF WireLock, Steps
  <2>2. CASE cmd[p] # "wire"
      BY <1>1, <1>2, <1>6, <2>2, TakesKeep DEF WireLock, Steps
  <2> QED
      BY <2>1, <2>2
<1> QED
    BY <1>3, <1>4, <1>5, <1>6

\* Under the lock, and with neither a marker nor a process in the way, the
\* gateway is started.
LEMMA LooksKeep ==
    ASSUME IInv, NEW p \in Procs, NEW x \in {"findGateway", "findCapture", "spawn"},
           Goto(p, x), UNCHANGED <<cmd, locks, seen, budget>>, UNCHANGED Data,
           pc[p] \in {"recheck", "findGateway", "findCapture"}, stopped = {},
           x = "findCapture" => Live \subseteq Captures \cup astray,
           x = "spawn" => Live \subseteq astray
    PROVE  IInv'
<1>1. SeenStep(p) /\ BudgetStep /\ x \in Steps
    BY SeenIs, BudgetIs DEF BudgetStep, Steps
<1>2. Moves(p) /\ pc'[p] = x /\ cmd'[p] = cmd[p]
    BY <1>1, GotoKeeps DEF Ctl
<1>3. gateLock' = p /\ (cmd[p] = "reload" => loadLock' = p)
    BY DEF IInv, Holds, locks
<1>4. cmd[p] = "reload" => stale' = {} \/ partial'
    BY DEF IInv, Relies, Data
<1>5. Live' = Live /\ Captures' = Captures /\ astray' = astray /\ stopped' = stopped
    BY DEF Data, Live, Captures
<1>6. Own(p)'
    BY <1>2, <1>3, <1>4, <1>5 DEF Own, Holds, Knows, Relies
<1> QED
    BY <1>2, <1>6, ControlKeeps

LEMMA RecheckKeeps == ASSUME IInv, NEW p \in Procs, RecheckPolicy(p) PROVE IInv'
<1>1. UNCHANGED Data /\ UNCHANGED seen /\ UNCHANGED budget /\ pc[p] = "recheck"
    BY DEF RecheckPolicy, Data, gateway, history
<1>2. CASE AfterStart(p, 0)
    BY <1>1, <1>2, StartEndsKeeps
<1>3. CASE ~quiesced /\ ~disabled /\ Goto(p, "findGateway") /\ UNCHANGED <<cmd, locks>>
  <2>1. stopped = {}
      BY <1>3 DEF IInv, Marked, TypeOK
  <2> QED
      BY <1>1, <1>3, <2>1, LooksKeep
<1> QED
    BY <1>2, <1>3 DEF RecheckPolicy

LEMMA FindGatewayKeeps == ASSUME IInv, NEW p \in Procs, FindGateway(p) PROVE IInv'
<1>1. UNCHANGED Data /\ UNCHANGED seen /\ UNCHANGED budget /\ pc[p] = "findGateway"
    BY DEF FindGateway, Data, gateway, history
<1>2. CASE AfterStart(p, 0) \/ AfterStart(p, 1)
    BY <1>1, <1>2, StartEndsKeeps
<1>3. CASE Gateways = {} /\ Goto(p, "findCapture") /\ UNCHANGED <<cmd, locks>>
  <2>1. stopped = {} /\ gateLock = p
      BY <1>1 DEF IInv, Relies, Holds
  <2>2. awaited = {}
      BY <1>1, <2>1 DEF IInv, Waits
  <2>3. Live \subseteq Forked \cup Captures
      BY <1>3 DEF Live, Forked, Captures, Gateways, IInv, TypeOK
  <2>4. Live \subseteq Captures \cup astray
      BY <2>2, <2>3 DEF IInv, Launched
  <2> QED
      BY <1>1, <1>3, <2>1, <2>4, LooksKeep
<1> QED
    BY <1>2, <1>3 DEF FindGateway

LEMMA FindCaptureKeeps == ASSUME IInv, NEW p \in Procs, FindCapture(p) PROVE IInv'
<1>1. UNCHANGED <<quiesced, disabled, requests, slot, stale, astray, stopped, partial, seen,
                  budget>> /\ pc[p] = "findCapture"
    BY DEF FindCapture, history
<1>2. stopped = {} /\ gateLock = p /\ Live \subseteq Captures \cup astray
    BY <1>1 DEF IInv, Relies, Holds
<1>3. CASE AfterStart(p, 1) /\ UNCHANGED awaited
    BY <1>1, <1>3, StartEndsKeeps DEF Data
<1>4. CASE Captures = {} /\ Goto(p, "spawn") /\ UNCHANGED <<cmd, locks, awaited>>
    BY <1>1, <1>2, <1>4, LooksKeep DEF Data
<1>5. CASE awaited' = Captures /\ Goto(p, "watch") /\ UNCHANGED <<cmd, locks>>
  <2>1. SeenStep(p) /\ BudgetStep /\ "watch" \in Steps
      BY <1>1, SeenIs, BudgetIs DEF BudgetStep, Steps
  <2>2. Moves(p) /\ pc'[p] = "watch" /\ cmd'[p] = cmd[p] /\ gateLock' = p /\ loadLock' = loadLock
      BY <1>2, <1>5, <2>1, GotoKeeps DEF Ctl, locks
  <2>3. Own(p)'
      BY <1>1, <2>2 DEF IInv, Own, Holds, Knows, Relies
  <2>4. awaited = {}
      BY <1>1, <1>2 DEF IInv, Waits
  <2>5. Live' = Live /\ Gateways' = Gateways /\ Forked' = Forked /\ awaited' \subseteq Slots
      BY <1>1, <1>5 DEF Live, Gateways, Forked, Captures
  <2>6. Launched' /\ Waits'
      BY <1>1, <2>2, <2>4, <2>5 DEF IInv, Launched, Waits
  <2>7. Good'
      BY <1>1, <2>5, <2>6 DEF IInv, TypeOK, Good, TypeData, Marked, StopsAreFinal, SingleWriter, Asked
  <2>8. \A q \in Procs \ {p} : pc'[q] = pc[q]
      BY <2>2 DEF Moves, Ctl
  <2>9. Asked'
      BY <1>1, <2>5, <2>8 DEF IInv, Asked
  <2>10. Minds(p)
      BY <1>1 DEF Minds
  <2> QED
      BY <2>2, <2>3, <2>7, <2>9, <2>10, StepKeeps
<1> QED
    BY <1>3, <1>4, <1>5 DEF FindCapture

\* The end of a wait: what is not to be seen yet is astray, or the launch is ended.
LEMMA WaitedKeeps ==
    ASSUME IInv, NEW p \in Procs, NEW st \in {0, 1, 2}, AfterStart(p, st),
           pc[p] \in {"watch", "wait"}, awaited' = {}, BudgetStep,
           UNCHANGED <<quiesced, disabled, requests, seen, stopped, partial>>,
           slot' \in [Slots -> {"free", "forked", "pending", "up", "orphan"}],
           Live' \subseteq Live, Live' \cap astray \subseteq astray', astray' \subseteq Slots,
           Forked' \subseteq astray', stale' \subseteq stale, stale' \subseteq Gateways'
    PROVE  IInv'
<1>1. gateLock = p
    BY DEF IInv, Holds
<1>2. Moves(p) /\ Own(p)'
    BY StartEndsMoves
<1>3. Launched' /\ Waits'
    BY DEF Launched, Waits
<1>4. Good'
    BY <1>3 DEF IInv, TypeOK, Good, TypeData, Marked, StopsAreFinal, SingleWriter
<1>5. \A q \in Procs \ {p} : pc'[q] = pc[q]
    BY <1>2 DEF Moves, Ctl
<1>6. Asked'
    BY <1>5 DEF IInv, Asked
<1>7. Minds(p)
    BY <1>1 DEF Minds
<1> QED
    BY <1>2, <1>4, <1>6, <1>7, StepKeeps

LEMMA WatchKeeps == ASSUME IInv, NEW p \in Procs, Watch(p) PROVE IInv'
<1>1. UNCHANGED <<quiesced, disabled, requests, slot, stale, stopped, partial, seen, budget>>
      /\ pc[p] = "watch" /\ awaited' = {} /\ astray' = astray \cup (awaited \cap Forked)
    BY DEF Watch, Leave, history
<1>2. PICK st \in {0, 1, 2} : AfterStart(p, st)
    BY DEF Watch
<1>3. BudgetStep
    BY <1>1, BudgetIs DEF BudgetStep
<1>4. Live' = Live /\ Gateways' = Gateways /\ Forked' = Forked /\ Forked \subseteq Slots
    BY <1>1 DEF Live, Gateways, Forked
<1>5. slot \in [Slots -> {"free", "forked", "pending", "up", "orphan"}]
      /\ astray \subseteq Slots /\ stale \subseteq Gateways /\ Forked \subseteq awaited \cup astray
    BY DEF IInv, TypeOK, Asked, Launched
<1> QED
    BY <1>1, <1>2, <1>3, <1>4, <1>5, WaitedKeeps

LEMMA WaitKeeps == ASSUME IInv, NEW p \in Procs, WaitGateway(p) PROVE IInv'
<1>1. UNCHANGED <<quiesced, disabled, requests, stopped, partial, seen>> /\ pc[p] = "wait"
    BY DEF WaitGateway, history
<1>2. BudgetStep
    BY BudgetIs DEF WaitGateway, BudgetStep
<1>3. slot \in [Slots -> {"free", "forked", "pending", "up", "orphan"}]
      /\ astray \subseteq Slots /\ stale \subseteq Gateways /\ Forked \subseteq awaited \cup astray
    BY DEF IInv, TypeOK, Asked, Launched
<1>4. CASE AfterStart(p, 0) /\ Leave /\ UNCHANGED <<slot, stale>>
  <2>1. Live' = Live /\ Gateways' = Gateways /\ Forked' = Forked /\ Forked \subseteq Slots
      BY <1>4 DEF Live, Gateways, Forked
  <2>2. astray' = astray \cup (awaited \cap Forked) /\ awaited' = {}
      BY <1>4 DEF Leave
  <2> QED
      BY <1>1, <1>2, <1>3, <1>4, <2>1, <2>2, WaitedKeeps
<1>5. CASE /\ AfterStart(p, 1)
           /\ slot' = [s \in Slots |->
                         IF s \in awaited /\ slot[s] # "orphan" THEN "free" ELSE slot[s]]
           /\ stale' = stale \cap Live' /\ astray' = astray \cap Live' /\ awaited' = {}
  <2>1. slot' \in [Slots -> {"free", "forked", "pending", "up", "orphan"}]
      BY <1>3, <1>5
  <2>2. Live' \subseteq Live /\ Forked' \subseteq Forked \ awaited /\ Forked' \subseteq Live'
      BY <1>5 DEF Live, Forked
  <2>3. Gateways \cap Live' \subseteq Gateways'
      BY <1>5 DEF Live, Gateways
  <2> QED
      BY <1>1, <1>2, <1>3, <1>5, <2>1, <2>2, <2>3, WaitedKeeps
<1> QED
    BY <1>4, <1>5 DEF WaitGateway

LEMMA RetryKeeps == ASSUME IInv, NEW p \in Procs, RetryStart(p) PROVE IInv'
<1>1. UNCHANGED Data /\ UNCHANGED seen /\ UNCHANGED budget /\ SeenStep(p) /\ BudgetStep
    BY SeenIs, BudgetIs DEF RetryStart, Data, gateway, history, BudgetStep
<1>2. cmd[p] = "reload" /\ loadLock = p /\ (stale = {} \/ partial)
    BY DEF IInv, Holds, Knows, Relies, RetryStart
<1>3. CASE Exit(p)
    BY <1>1, <1>3, ExitKeeps, ControlKeeps DEF RetryStart
<1>4. CASE Continue(p, "check")
    BY <1>1, <1>2, <1>4, GoesOn DEF RetryStart, Steps
<1>5. CASE Continue(p, "processed")
  <2>1. Moves(p) /\ pc'[p] = "processed" /\ cmd'[p] = cmd[p] /\ loadLock' = loadLock
      BY <1>1, <1>5, ContinueKeeps DEF Ctl, Steps
  <2>2. Own(p)'
      BY <1>1, <1>2, <2>1 DEF Own, Holds, Knows, Relies, Data
  <2> QED
      BY <1>1, <2>1, <2>2, ControlKeeps DEF RetryStart
<1> QED
    BY <1>3, <1>4, <1>5 DEF RetryStart, ReloadFailed

-----------------------------------------------------------------------------
(* The actions that change the markers, the gateway or the requests.       *)

LEMMA MarkersKeep ==
    ASSUME IInv, NEW p \in Procs, UNCHANGED <<requests, slot, awaited, stale, astray, partial>>,
           stopped' \subseteq stopped, quiesced' \in BOOLEAN, disabled' \in BOOLEAN, Marked',
           Moves(p), Own(p)', pc[p] \notin {"wireRequest", "watch", "wait"}
    PROVE  IInv'
<1>1. Live' = Live /\ Gateways' = Gateways /\ Forked' = Forked
    BY DEF Live, Gateways, Forked
<1>2. \A q \in Procs \ {p} : pc'[q] = pc[q]
    BY DEF Moves, Ctl
<1>3. Asked'
    BY <1>1, <1>2 DEF IInv, Asked
<1>4. Waits' /\ Launched'
    BY <1>1, WaitsKept DEF IInv, Launched
<1>5. TypeData' /\ stale' \subseteq Gateways'
    BY <1>1 DEF IInv, TypeOK, TypeData, Asked
<1>6. StopsAreFinal' /\ SingleWriter'
    BY <1>1 DEF IInv, StopsAreFinal, SingleWriter
<1> QED
    BY <1>1, <1>3, <1>4, <1>5, <1>6, StepKeeps DEF Minds, Good

LEMMA MarkActionsKeep ==
    ASSUME IInv, NEW p \in Procs, ClearQuiesce(p) \/ Mark(p) \/ Policy(p) \/ Undo(p)
    PROVE  IInv'
<1>1. UNCHANGED <<requests, slot, awaited, stale, astray, partial>> /\ UNCHANGED budget /\ UNCHANGED seen
      /\ SeenStep(p) /\ BudgetStep /\ pc[p] \in {"clear", "mark", "policy", "undo"}
    BY SeenIs, BudgetIs DEF ClearQuiesce, Mark, Policy, Undo, gateway, history, BudgetStep
<1>2. cmd[p] # "reload"
    BY <1>1 DEF IInv, Knows
<1>3. stopped' \subseteq stopped /\ quiesced' \in BOOLEAN /\ disabled' \in BOOLEAN /\ Marked'
    BY DEF ClearQuiesce, Mark, Policy, Undo, Cleared, history, IInv, Marked, TypeOK
<1>4. ASSUME NEW x \in {"executor", "lockStop", "check"}, Goto(p, x), UNCHANGED <<cmd, locks>>
      PROVE  Moves(p) /\ Own(p)'
  <2>1. Moves(p) /\ pc'[p] = x /\ cmd'[p] = cmd[p]
      BY <1>1, <1>4, GotoKeeps DEF Ctl, Steps
  <2> QED
      BY <1>2, <2>1 DEF Own, Holds, Knows, Relies
<1>5. CASE Exit(p)
    BY <1>1, <1>3, <1>5, ExitKeeps, MarkersKeep
<1>6. CASE ClearQuiesce(p)
    BY <1>1, <1>3, <1>4, <1>6, MarkersKeep DEF ClearQuiesce, locks
<1>7. CASE Mark(p)
    BY <1>1, <1>3, <1>4, <1>7, MarkersKeep DEF Mark, locks
<1>8. CASE Policy(p)
  <2>1. PICK x \in {"executor", "check"} : \/ Goto(p, x) /\ UNCHANGED <<cmd, locks>>
                                           \/ Exit(p)
      BY <1>8 DEF Policy
  <2> QED
      BY <1>1, <1>3, <1>4, <1>5, <2>1, MarkersKeep
<1> QED
    BY <1>5, <1>6, <1>7, <1>8 DEF Undo

\* The launch is the only one that is not astray.
LEMMA SpawnKeeps == ASSUME IInv, NEW p \in Procs, Spawn(p) PROVE IInv'
<1>1. Holds(p) /\ Knows(p) /\ Relies(p) /\ pc[p] = "spawn" /\ gateLock = p
    BY DEF IInv, Spawn, Holds
<1>2. SeenStep(p) /\ BudgetStep
    BY SeenIs, BudgetIs DEF Spawn, BudgetStep
<1>3. Moves(p) /\ pc'[p] = "wait" /\ cmd'[p] = cmd[p]
    BY <1>2, GotoKeeps DEF Ctl, Spawn, Steps
<1>4. Live \subseteq astray /\ stopped = {} /\ awaited = {}
    BY <1>1 DEF Relies, IInv, Waits
<1>5. PICK s \in Slots : slot' = [slot EXCEPT ![s] = "forked"] /\ awaited' = {s} /\ s \notin Live
    BY DEF Spawn, FreeSlot, AnyOf
<1>6. slot' \in [Slots -> {"free", "forked", "pending", "up", "orphan"}]
      /\ Live' \subseteq Live \cup {s} /\ Forked' \subseteq Forked \cup {s} /\ Gateways \subseteq Gateways'
    BY <1>5 DEF Live, Forked, Gateways, IInv, TypeOK
<1>7. UNCHANGED <<quiesced, disabled, requests, stale, astray, stopped, partial, seen, locks>>
    BY DEF Spawn, history
<1>8. Own(p)'
    BY <1>1, <1>3, <1>7 DEF Own, Holds, Knows, Relies, locks
<1>9. Launched' /\ Waits'
    BY <1>1, <1>3, <1>4, <1>5, <1>6, <1>7 DEF IInv, Launched, Waits, locks
<1>10. Good'
    BY <1>4, <1>5, <1>6, <1>7, <1>9 DEF IInv, TypeOK, Good, TypeData, Marked, StopsAreFinal,
       SingleWriter, Asked
<1>11. \A q \in Procs \ {p} : pc'[q] = pc[q]
    BY <1>3 DEF Moves, Ctl
<1>12. Asked'
    BY <1>1, <1>6, <1>7, <1>11 DEF IInv, Asked
<1>13. Minds(p)
    BY <1>1, <1>7 DEF Minds
<1> QED
    BY <1>3, <1>8, <1>10, <1>12, <1>13, StepKeeps

\* _stop_gateway returns to its caller.
LEMMA StopEndsKeeps ==
    ASSUME IInv, NEW p \in Procs, NEW ok \in BOOLEAN, AfterStop(p, ok), pc[p] = "stopping",
           UNCHANGED seen, BudgetStep, ok => stale' = {}
    PROVE  Moves(p) /\ Own(p)'
<1>1. SeenStep(p)
    BY SeenIs
<1>2. Holds(p) /\ Knows(p)
    BY DEF IInv
<1>3. CASE Exit(p)
    BY <1>1, <1>3, ExitKeeps
<1>4. ASSUME NEW x \in {"undo", "check"}, Continue(p, x),
             x = "check" => cmd[p] = "reload" /\ stale' = {}, x = "undo" => cmd[p] = "enable"
      PROVE  Moves(p) /\ Own(p)'
  <2>1. Moves(p) /\ pc'[p] = x /\ cmd'[p] = cmd[p] /\ loadLock' = loadLock
      BY <1>1, <1>4, ContinueKeeps DEF Ctl, Steps
  <2> QED
      BY <1>2, <1>4, <2>1 DEF Own, Holds, Knows, Relies
<1> QED
    BY <1>3, <1>4, AfterStopIs DEF StopEnds

\* Under the lock nobody waits for a launch: one that cannot be seen is astray.
LEMMA NobodyWaits ==
    ASSUME IInv, NEW p \in Procs, pc[p] = "stopping"
    PROVE  gateLock = p /\ awaited = {} /\ Forked \subseteq astray
BY DEF IInv, Holds, Waits, Launched

LEMMA StopAllKeeps == ASSUME IInv, NEW p \in Procs, StopAll(p) PROVE IInv'
<1>1. gateLock = p /\ pc[p] = "stopping" /\ awaited = {} /\ Forked \subseteq astray
    BY NobodyWaits DEF StopAll
<1>2. BudgetStep
    BY BudgetIs DEF StopAll, BudgetStep
<1>3. Moves(p) /\ Own(p)'
    BY <1>1, <1>2, StopEndsKeeps DEF StopAll
<1>4. Live' = Forked /\ Forked' = Forked /\ Forked \subseteq Slots
      /\ slot' \in [Slots -> {"free", "forked", "pending", "up", "orphan"}]
    BY DEF StopAll, Live, Forked
<1>5. Marked' /\ stopped' \subseteq {"quiesced", "disabled"}
    BY DEF StopAll, IInv, Marked, TypeOK
<1>6. astray' = astray \cap Forked /\ awaited' = {}
    BY <1>1 DEF StopAll
<1>7. Launched' /\ Waits'
    BY <1>1, <1>4, <1>6 DEF Launched, Waits
<1>8. Good' /\ Asked'
    BY <1>1, <1>4, <1>5, <1>6, <1>7 DEF StopAll, Good, TypeData, IInv, TypeOK, StopsAreFinal,
       SingleWriter, Asked
<1>9. Minds(p)
    BY <1>1 DEF Minds, StopAll
<1> QED
    BY <1>3, <1>8, <1>9, StepKeeps

\* What survives a stop was there before.
LEMMA StopFailsKeeps == ASSUME IInv, NEW p \in Procs, StopFails(p) PROVE IInv'
<1>1. gateLock = p /\ pc[p] = "stopping" /\ awaited = {} /\ Forked \subseteq astray
    BY NobodyWaits DEF StopFails
<1>2. BudgetStep
    BY BudgetIs DEF StopFails, BudgetStep
<1>3. Moves(p) /\ Own(p)'
    BY <1>1, <1>2, StopEndsKeeps DEF StopFails
<1>4. PICK s \in Live :
         slot' = [t \in Slots |-> IF t = s THEN IF s \in Forked THEN "pending" ELSE "orphan"
                                  ELSE IF t \in Forked THEN "forked" ELSE "free"]
    BY DEF StopFails
<1>5. Live' = {s} \cup Forked /\ Forked' = Forked \ {s} /\ s \in Slots /\ Forked \subseteq Slots
      /\ Forked \subseteq Live
    BY <1>4 DEF Live, Forked
<1>6. Gateways \cap Live' \subseteq Gateways'
    BY <1>4 DEF Live, Forked, Gateways
<1>7. slot' \in [Slots -> {"free", "forked", "pending", "up", "orphan"}]
      /\ stale' = stale \cap Live' /\ astray' = astray \cap Live' /\ awaited' = {}
    BY <1>1, <1>4 DEF StopFails
<1>8. UNCHANGED <<quiesced, disabled, requests, stopped, partial>>
    BY DEF StopFails, history
<1>9. \A q \in Procs \ {p} : pc'[q] = pc[q]
    BY <1>3 DEF Moves, Ctl
<1>10. stale' # {} => requests' # {} \/ partial' \/ \E q \in Procs : pc'[q] = "wireRequest"
    BY <1>1, <1>7, <1>8, <1>9 DEF IInv, Asked
<1>11. Live' \subseteq Live /\ Live' \cap astray \subseteq astray'
    BY <1>5, <1>7
<1>12. Launched' /\ Waits'
    BY <1>1, <1>5, <1>7 DEF Launched, Waits
<1>13. stale' \subseteq Gateways'
    BY <1>6, <1>7 DEF IInv, Asked
<1>14. Good'
    BY <1>7, <1>8, <1>11, <1>12, <1>13 DEF IInv, TypeOK, Good, TypeData, Marked, StopsAreFinal,
       SingleWriter
<1>15. Asked'
    BY <1>10, <1>13 DEF Asked
<1>16. Minds(p)
    BY <1>1, <1>7, <1>8 DEF Minds
<1> QED
    BY <1>3, <1>14, <1>15, <1>16, StepKeeps

\* A step that changes requests, what is outdated and what is partial only.
LEMMA RequestsKeep ==
    ASSUME IInv, NEW p \in Procs, UNCHANGED <<quiesced, disabled, slot, stopped>>,
           \/ UNCHANGED <<awaited, astray>> /\ pc[p] \notin {"watch", "wait"}
           \/ gateLock = p /\ Leave,
           requests' \subseteq RequestIds, partial' \in BOOLEAN,
           stale' \subseteq Gateways,
           stale' # {} => requests' # {} \/ partial' \/ \E q \in Procs : pc'[q] = "wireRequest",
           \/ loadLock = p
           \/ /\ stale' \subseteq stale \/ stale' = {} \/ partial'
              /\ partial => partial'
              /\ requests \subseteq requests',
           Moves(p), Own(p)'
    PROVE  IInv'
<1>1. Live' = Live /\ Gateways' = Gateways /\ Forked' = Forked /\ Gateways \subseteq Slots
      /\ Forked \subseteq Slots
    BY DEF Live, Gateways, Forked
<1>2. Launched' /\ Waits' /\ astray \subseteq astray' /\ {awaited', astray'} \subseteq SUBSET Slots
  <2>1. CASE UNCHANGED <<awaited, astray>> /\ pc[p] \notin {"watch", "wait"}
      BY <1>1, <2>1, WaitsKept DEF IInv, TypeOK, Launched
  <2>2. CASE Leave
      BY <1>1, <2>2 DEF IInv, TypeOK, Launched, Waits, Leave
  <2> QED
      BY <2>1, <2>2
<1>3. Good'
    BY <1>1, <1>2 DEF IInv, TypeOK, Good, TypeData, Marked, StopsAreFinal, SingleWriter
<1>4. Asked'
    BY <1>1 DEF Asked
<1>5. Minds(p)
    BY <1>1 DEF Minds
<1> QED
    BY <1>3, <1>4, <1>5, StepKeeps

\* The reload finds its requests: it drops them only where nothing is outdated.
LEMMA ScanKeeps == ASSUME IInv, NEW p \in Procs, ScanRequests(p) PROVE IInv'
<1>1. loadLock = p /\ cmd[p] = "reload" /\ pc[p] = "scan"
    BY DEF IInv, ScanRequests, Holds, Knows
<1>2. requests \subseteq RequestIds
    BY DEF IInv, TypeOK
<1>3. SeenStep(p) /\ BudgetStep
    BY <1>2, SeenIs, BudgetIs DEF ScanRequests, BudgetStep
<1>4. UNCHANGED <<quiesced, disabled, slot, awaited, astray, stopped, stale, partial>>
    BY DEF ScanRequests, gateway, history
<1>5. stale \subseteq Gateways /\ (stale # {} => requests # {} \/ partial)
  <2>1. \A q \in Procs : pc[q] # "wireRequest"
      BY <1>1 DEF IInv, Holds
  <2> QED
      BY <2>1 DEF IInv, Asked
<1>6. CASE Goto(p, "lockStop") /\ UNCHANGED <<requests, cmd, locks>>
  <2>1. Moves(p) /\ pc'[p] = "lockStop" /\ cmd'[p] = cmd[p] /\ loadLock' = loadLock
      BY <1>3, <1>6, GotoKeeps DEF Ctl, Steps, locks
  <2>2. Own(p)'
      BY <1>1, <2>1 DEF Own, Holds, Knows, Relies
  <2> QED
      BY <1>1, <1>2, <1>4, <1>5, <1>6, <2>1, <2>2, RequestsKeep DEF IInv, TypeOK
<1>7. CASE /\ requests = {} \/ Gateways = {}
           /\ requests' = IF Captures = {} THEN {} ELSE requests
           /\ ReloadDone(p)
  <2>1. Moves(p) /\ pc'[p] = "policy" /\ cmd'[p] = "reconcile"
      BY <1>1, <1>3, <1>7, ReloadDoneIs, MovesBy DEF IInv, Ctl, Steps, Cmds
  <2>2. Own(p)'
      BY <2>1 DEF Own, Holds, Knows, Relies
  <2>3. stale' # {} => requests' # {} \/ partial'
      BY <1>4, <1>5, <1>7
  <2> QED
      BY <1>1, <1>2, <1>4, <1>5, <1>7, <2>1, <2>2, <2>3, RequestsKeep DEF IInv, TypeOK
<1> QED
    BY <1>6, <1>7 DEF ScanRequests

LEMMA ProcessedKeeps == ASSUME IInv, NEW p \in Procs, Processed(p) PROVE IInv'
<1>1. loadLock = p /\ (stale = {} \/ partial) /\ pc[p] = "processed"
    BY DEF IInv, Processed, Holds, Knows, Relies
<1>2. SeenStep(p) /\ BudgetStep
    BY SeenIs, BudgetIs DEF Processed, BudgetStep
<1>3. UNCHANGED <<quiesced, disabled, slot, awaited, astray, stopped, stale, partial>>
    BY DEF Processed, gateway, history
<1>4. Moves(p) /\ pc'[p] = "policy" /\ cmd'[p] = "reconcile"
    BY <1>1, <1>2, ReloadDoneIs, MovesBy DEF IInv, Ctl, Steps, Cmds, Processed
<1>5. Own(p)'
    BY <1>4 DEF Own, Holds, Knows, Relies
<1>6. requests' \subseteq RequestIds /\ stale' \subseteq Gateways /\ partial' \in BOOLEAN
    BY <1>3 DEF IInv, TypeOK, Processed, Asked
<1> QED
    BY <1>1, <1>3, <1>4, <1>5, <1>6, RequestsKeep

\* The configuration changes, and the same process asks for the reload.
LEMMA WireConfigKeeps == ASSUME IInv, NEW p \in Procs, WireConfig(p) PROVE IInv'
<1>1. loadLock = p /\ cmd[p] = "wire" /\ pc[p] = "wireConfig"
    BY DEF IInv, WireConfig, Holds, Knows
<1>2. SeenStep(p) /\ BudgetStep
    BY SeenIs, BudgetIs DEF WireConfig, BudgetStep
<1>3. UNCHANGED <<quiesced, disabled, slot, awaited, astray, stopped, requests>> /\ stale' = Gateways
    BY DEF WireConfig
<1>4. CASE Goto(p, "wireRequest") /\ UNCHANGED <<cmd, locks, budget, partial>>
  <2>1. Moves(p) /\ pc'[p] = "wireRequest" /\ cmd'[p] = cmd[p] /\ loadLock' = loadLock
      BY <1>2, <1>4, GotoKeeps DEF Ctl, Steps, locks
  <2>2. Own(p)'
      BY <1>1, <2>1 DEF Own, Holds, Knows, Relies
  <2> QED
      BY <1>1, <1>3, <1>4, <2>1, <2>2, RequestsKeep DEF IInv, TypeOK
<1>5. CASE Exit(p) /\ partial' = TRUE
    BY <1>1, <1>2, <1>3, <1>5, ExitKeeps, RequestsKeep DEF IInv, TypeOK
<1> QED
    BY <1>4, <1>5 DEF WireConfig

LEMMA WireRequestKeeps == ASSUME IInv, NEW p \in Procs, WireRequest(p) PROVE IInv'
<1>1. loadLock = p /\ pc[p] = "wireRequest"
    BY DEF IInv, WireRequest, Holds
<1>2. SeenStep(p) /\ BudgetStep
    BY SeenIs, BudgetIs DEF WireRequest, BudgetStep
<1>3. UNCHANGED <<quiesced, disabled, slot, awaited, astray, stopped, stale>>
    BY DEF WireRequest, gateway
<1>4. stale' \subseteq Gateways /\ requests \subseteq RequestIds
    BY <1>3 DEF IInv, Asked, TypeOK
<1>5. \A r \in FreshRequest : r \in RequestIds
    BY DEF FreshRequest, AnyOf
<1>6. requests' \subseteq RequestIds /\ partial' \in BOOLEAN
      /\ (Gateways # {} => requests' # {} \/ partial')
    BY <1>4, <1>5 DEF WireRequest
<1>7. Moves(p) /\ Own(p)'
    BY <1>2, ExitKeeps DEF WireRequest
<1> QED
    BY <1>1, <1>3, <1>4, <1>6, <1>7, RequestsKeep

\* The request of a wiring that is switched off comes before the change.
LEMMA UnwireRequestKeeps == ASSUME IInv, NEW p \in Procs, UnwireRequest(p) PROVE IInv'
<1>1. loadLock = p /\ pc[p] = "unwireRequest"
    BY DEF IInv, UnwireRequest, Holds
<1>2. BudgetStep
    BY BudgetIs DEF UnwireRequest, BudgetStep
<1>3. UNCHANGED <<quiesced, disabled, slot, awaited, astray, stopped, stale, partial>>
    BY DEF UnwireRequest, gateway, history
<1>4. stale \subseteq Gateways /\ requests \subseteq RequestIds /\ partial \in BOOLEAN
      /\ (stale # {} => requests # {} \/ partial)
  <2>1. \A q \in Procs : pc[q] # "wireRequest"
      BY <1>1 DEF IInv, Holds, UnwireRequest
  <2> QED
      BY <2>1 DEF IInv, Asked, TypeOK
<1>5. CASE Exit(p) /\ UNCHANGED <<requests, seen>>
    BY <1>1, <1>2, <1>3, <1>4, <1>5, SeenIs, ExitKeeps, RequestsKeep
<1>6. ASSUME NEW r \in FreshRequest, requests' = requests \cup {r},
             seen' = [seen EXCEPT ![p] = {r}], Goto(p, "unwireConfig"), UNCHANGED <<cmd, locks>>
      PROVE  IInv'
  <2>1. r \in RequestIds /\ r \notin requests
      BY DEF FreshRequest, AnyOf
  <2>2. SeenStep(p) /\ seen'[p] = {r}
      BY <1>6, <2>1, SeenIs
  <2>3. Moves(p) /\ pc'[p] = "unwireConfig" /\ cmd'[p] = cmd[p] /\ loadLock' = loadLock
      BY <1>2, <1>6, <2>2, GotoKeeps DEF Ctl, Steps, locks
  <2>4. cmd[p] # "reload"
      BY DEF IInv, Knows, UnwireRequest
  <2>5. requests' \ seen'[p] = requests /\ seen'[p] \subseteq requests'
      BY <1>6, <2>1, <2>2
  <2>6. Own(p)'
      BY <1>1, <1>3, <1>4, <2>3, <2>4, <2>5 DEF Own, Holds, Knows, Relies
  <2> QED
      BY <1>1, <1>3, <1>4, <1>6, <2>1, <2>3, <2>6, RequestsKeep
<1> QED
    BY <1>5, <1>6 DEF UnwireRequest

LEMMA UnwireConfigKeeps == ASSUME IInv, NEW p \in Procs, UnwireConfig(p) PROVE IInv'
<1>1. /\ seen[p] # {} => loadLock = p /\ seen[p] \subseteq requests
      /\ seen[p] # {} => stale = {} \/ partial \/ requests \ seen[p] # {}
      /\ requests \subseteq RequestIds /\ partial \in BOOLEAN /\ stale \subseteq Gateways
    BY DEF IInv, UnwireConfig, Holds, Relies, TypeOK, Asked
<1>2. SeenStep(p) /\ BudgetStep
    BY SeenIs, BudgetIs DEF UnwireConfig, BudgetStep
<1>3. UNCHANGED <<quiesced, disabled, slot, awaited, astray, stopped>> /\ pc[p] = "unwireConfig"
    BY DEF UnwireConfig
<1>4. Moves(p) /\ Own(p)'
    BY <1>2, ExitKeeps DEF UnwireConfig
<1>5. \A q \in Procs : pc[q] = "wireRequest" => pc'[q] = "wireRequest"
    BY <1>4 DEF Moves, Ctl, UnwireConfig
<1>6. CASE /\ stale' = Gateways /\ partial' = (partial \/ (seen[p] = {} /\ Gateways # {}))
           /\ UNCHANGED requests
  <2>1. partial' \in BOOLEAN
      BY <1>6
  <2>2. stale' # {} => requests' # {} \/ partial'
      BY <1>1, <1>6
  <2>3. seen[p] = {} => stale' = {} \/ partial'
      BY <1>6
  <2> QED
      BY <1>1, <1>3, <1>4, <1>6, <2>1, <2>2, <2>3, RequestsKeep
<1>7. CASE requests' \in {requests, requests \ seen[p]} /\ UNCHANGED <<stale, partial>>
  <2>1. seen[p] = {} => requests' = requests
      BY <1>7
  <2>2. stale' # {} => requests' # {} \/ partial' \/ \E q \in Procs : pc'[q] = "wireRequest"
      BY <1>1, <1>5, <1>7 DEF IInv, Asked
  <2> QED
      BY <1>1, <1>3, <1>4, <1>7, <2>1, <2>2, RequestsKeep
<1> QED
    BY <1>6, <1>7 DEF UnwireConfig

\* A wiring killed between the change and the request is partial.
LEMMA KillKeeps == ASSUME IInv, NEW p \in Procs, Kill(p) PROVE IInv'
<1>1. SeenStep(p) /\ BudgetStep
    BY SeenIs, BudgetIs DEF Kill, BudgetStep
<1>2. UNCHANGED <<quiesced, disabled, slot, stopped, stale, requests>>
    BY DEF Kill, gateway
<1>3. Moves(p) /\ Own(p)'
    BY <1>1, ExitKeeps DEF Kill
<1>4. pc[p] = "wireRequest" => partial'
    BY DEF Kill, IInv, Knows
<1>5. partial' \in BOOLEAN /\ (partial => partial')
    BY DEF Kill
<1>6. \A q \in Procs : pc[q] = "wireRequest" /\ q # p => pc'[q] = "wireRequest"
    BY <1>3 DEF Moves, Ctl
<1>7. stale' # {} => requests' # {} \/ partial' \/ \E q \in Procs : pc'[q] = "wireRequest"
    BY <1>2, <1>4, <1>5, <1>6 DEF IInv, Asked
<1>8. stale' \subseteq Gateways /\ requests' \subseteq RequestIds
    BY <1>2 DEF IInv, Asked, TypeOK
<1>9. \/ UNCHANGED <<awaited, astray>> /\ pc[p] \notin {"watch", "wait"}
      \/ gateLock = p /\ Leave
    BY DEF Kill, IInv, Holds
<1> QED
    BY <1>2, <1>3, <1>5, <1>7, <1>8, <1>9, RequestsKeep

-----------------------------------------------------------------------------
(* The wrapper, the gateway and the container.                             *)

LEMMA ProcessesKeep ==
    ASSUME IInv, NEW s \in Slots, LaunchProceeds(s) \/ ProcessExits(s)
    PROVE  IInv'
<1>1. UNCHANGED <<quiesced, disabled, requests, awaited, locks, pc, cmd, seen, history>> /\ BudgetStep
    BY BudgetIs DEF LaunchProceeds, ProcessExits, BudgetStep
<1>2. slot \in [Slots -> {"free", "forked", "pending", "up", "orphan"}] /\ stale \subseteq Gateways
      /\ astray \subseteq Slots
    BY DEF IInv, TypeOK, Asked
<1>3. slot' \in [Slots -> {"free", "forked", "pending", "up", "orphan"}]
    BY <1>2 DEF LaunchProceeds, ProcessExits
<1>4. Live' \subseteq Live /\ Forked' \subseteq Forked /\ Forked' \subseteq Live'
    BY <1>2 DEF LaunchProceeds, ProcessExits, Live, Forked
<1>5. stale' \subseteq stale /\ stale' \subseteq Gateways'
    BY <1>2 DEF LaunchProceeds, ProcessExits, Gateways
<1>6. Live' \cap astray \subseteq astray' /\ astray' \subseteq Slots
    BY <1>2 DEF LaunchProceeds, ProcessExits, Live
<1>7. TypeOK'
    BY <1>1, <1>3, <1>5, <1>6 DEF IInv, TypeOK, BudgetStep, locks, history
<1>8. ASSUME NEW p \in Procs, pc[p] = "findCapture"
      PROVE  (Live \subseteq Captures \cup astray)'
  <2>1. Live \subseteq Captures \cup astray
      BY <1>8 DEF IInv, Relies
  <2>2. Live' \cap Captures \subseteq Captures' \cup astray'
      BY <1>2, <1>8 DEF LaunchProceeds, ProcessExits, Live, Captures
  <2> QED
      BY <1>4, <1>6, <2>1, <2>2
<1>9. ASSUME NEW p \in Procs PROVE (Holds(p) /\ Knows(p) /\ Relies(p))'
  <2>1. Holds(p) /\ Knows(p) /\ Relies(p)
      BY DEF IInv
  <2>2. Holds(p)' /\ Knows(p)'
      BY <1>1, <2>1 DEF Holds, Knows, locks
  <2>3. pc'[p] = "spawn" => (Live \subseteq astray)'
      BY <1>1, <1>4, <1>6, <2>1 DEF Relies
  <2>4. Relies(p)'
      BY <1>1, <1>5, <1>8, <2>1, <2>3 DEF Relies, history
  <2> QED
      BY <2>2, <2>4
<1>10. Marked' /\ StopsAreFinal' /\ SingleWriter' /\ Asked'
    BY <1>1, <1>4, <1>5, <1>6 DEF IInv, Marked, StopsAreFinal, SingleWriter, Asked, history
<1>11. Launched' /\ Waits'
    BY <1>1, <1>4, <1>6 DEF IInv, Launched, Waits, locks
<1> QED
    BY <1>7, <1>9, <1>10, <1>11 DEF IInv

LEMMA RestartKeeps == IInv /\ Restart => IInv'
<1> SUFFICES ASSUME IInv, Restart PROVE IInv'
    OBVIOUS
<1>1. BudgetStep
    BY BudgetIs DEF Restart, BudgetStep
<1>2. TypeOK'
    BY <1>1 DEF IInv, TypeOK, Restart, BudgetStep, history, Steps
<1> QED
    BY <1>2 DEF IInv, Restart, Holds, Knows, Relies, Launched, Waits, Marked, StopsAreFinal,
       SingleWriter, Asked, Live, Forked, history

-----------------------------------------------------------------------------
(* The invariant and the theorems.                                         *)

LEMMA IInvInit == Init => IInv
<1> SUFFICES ASSUME Init PROVE IInv
    OBVIOUS
<1>1. TypeOK
  <2>1. 0 \in 0 .. MaxCommands /\ 0 \in 0 .. MaxFailures
      BY GatewayAssumption DEF GatewayAssumption
  <2> QED
      BY <2>1 DEF Init, TypeOK, Steps
<1> QED
    BY <1>1 DEF Init, IInv, Holds, Knows, Relies, Launched, Waits, Marked, StopsAreFinal,
       SingleWriter, Asked, Live, Forked

LEMMA IInvStep == IInv /\ [Next]_vars => IInv'
<1> SUFFICES ASSUME IInv, [Next]_vars PROVE IInv'
    OBVIOUS
<1>1. ASSUME NEW p \in Users, Begin(p) \/ Kill(p) PROVE IInv'
    BY <1>1, BeginKeeps, KillKeeps, ProcsDistinct
<1>2. CASE Tick \/ Restart
    BY <1>2, TickKeeps, RestartKeeps
<1>3. ASSUME NEW p \in Procs, HbStep(p) PROVE IInv'
    BY <1>3, MarkActionsKeep, SmallStepsKeep, LocksKeep, RecheckKeeps, FindGatewayKeeps,
       FindCaptureKeeps, WatchKeeps, SpawnKeeps, WaitKeeps, StopAllKeeps, StopFailsKeeps,
       ScanKeeps, ProcessedKeeps, RetryKeeps, WireConfigKeeps, WireRequestKeeps,
       UnwireRequestKeeps, UnwireConfigKeeps DEF HbStep
<1>4. ASSUME NEW s \in Slots, LaunchProceeds(s) \/ ProcessExits(s) PROVE IInv'
    BY <1>4, ProcessesKeep
<1>5. CASE UNCHANGED vars
    BY <1>5 DEF vars, IInv, TypeOK, Holds, Knows, Relies, Launched, Waits, Marked, StopsAreFinal,
       SingleWriter, Asked, Live, Gateways, Captures, Forked
<1> QED
    BY <1>1, <1>2, <1>3, <1>4, <1>5 DEF Next

LEMMA IInvCorrect == Spec => []IInv
BY IInvInit, IInvStep, PTL DEF Spec

\* Every value of the state is of its kind.
THEOREM TypeCorrect == Spec => []TypeOK
BY IInvCorrect, PTL DEF IInv

\* At most one launch, wrapper or gateway exists besides those that passed unseen,
\* however many hb processes start, stop and reload it at once, and whoever is killed
\* (_start_gateway: check and spawn in one lock).
THEOREM WriterCorrect == Spec => []SingleWriter
BY IInvCorrect, PTL DEF IInv

\* After a stop that reported success nothing runs as long as its marker stays,
\* but a launch that no scan could see, whoever was on the way to a start
\* (_start_gateway reads the markers again).
THEOREM StopsCorrect == Spec => []StopsAreFinal
BY IInvCorrect, PTL DEF IInv

\* A gateway that runs with an outdated configuration has a reload coming,
\* whoever is killed and whichever requests a reload removes
\* (gateway_reload_if_requested removes only those it found).
THEOREM ReloadCorrect == Spec => []NoLostReload
<1>1. IInv => NoLostReload
  <2> SUFFICES ASSUME IInv, Gateways \cap stale # {}
               PROVE  requests # {} \/ loadLock # NoProc \/ partial
      BY DEF NoLostReload
  <2>1. stale # {}
      OBVIOUS
  <2>2. \A p \in Procs : pc[p] = "wireRequest" => loadLock # NoProc
      BY ProcsDistinct DEF IInv, Holds
  <2> QED
      BY <2>1, <2>2 DEF IInv, Asked
<1> QED
    BY <1>1, IInvCorrect, PTL

===============================================================================
