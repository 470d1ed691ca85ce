--------------------------- MODULE GatewayControl ---------------------------
(***************************************************************************)
(* The Hermes gateway inside a running box, as guest/hb and guest/         *)
(* hb-workload control it.                                                 *)
(*                                                                         *)
(* Two durable marker files say what the owner wants (quiesced,            *)
(* gateway-disabled); a directory of request files asks for a reload.      *)
(* Several hb processes act on them at once: the workload loop reconciles  *)
(* every 20 seconds while users run hb up, pause, gateway-enable,          *)
(* gateway-disable and wire-mcp, from inside the box or from the host.     *)
(* They are serialised by two flocks taken with a timeout, around starting *)
(* or stopping the gateway and around reloading it.  The gateway itself is *)
(* a tx9-logs capture wrapper that starts Hermes and restarts it when it   *)
(* exits; a scan of the process table finds it from its exec on.           *)
(***************************************************************************)
EXTENDS Naturals, FiniteSets

CONSTANTS
    Workload,    \* the hb-workload loop
    Users,       \* hb processes users start
    NoProc,      \* a free lock
    Commands,    \* the commands users run, a subset of UserCommands
    Slots,       \* room for wrapper/gateway pairs in the process table
    RequestIds,  \* names mktemp can give reload requests
    MaxCommands, \* bound on commands users run
    MaxFailures, \* bound on what goes wrong: exits, failed calls, restarts,
                 \* launches left unseen
    Timeouts,    \* whether a lock wait may time out
    Kills        \* commands that may be killed half-way

UserCommands == {"up", "pause", "disable", "enable", "wire", "unwire"}

ASSUME GatewayAssumption ==
    /\ Workload \notin Users /\ NoProc \notin Users \cup {Workload}
    /\ Commands \subseteq UserCommands /\ Kills \subseteq UserCommands
    /\ MaxCommands \in Nat /\ MaxFailures \in Nat
    /\ Timeouts \in BOOLEAN

Procs == Users \cup {Workload}

VARIABLES
    quiesced,  \* QUIESCE_FILE exists
    disabled,  \* GATEWAY_DISABLED exists
    requests,  \* files in GATEWAY_RELOAD_REQUESTS
    slot,      \* slot -> "free", "forked" (a subshell that will be the wrapper),
               \*         "pending" (wrapper, no child yet),
               \*         "up" (wrapper and child), "orphan" (child only)
    awaited,   \* the launch that the holder of GATEWAY_LOCK waits for
    stale,     \* slots whose gateway read an older config.yaml
    gateLock,  \* holder of GATEWAY_LOCK
    loadLock,  \* holder of GATEWAY_RELOAD_LOCK
    pc,        \* process -> where it is
    cmd,       \* process -> the hb command it runs
    seen,      \* process -> the requests it found or made itself
    stopped,   \* history: markers under which nothing ran: init's, and those under
               \* which a stop command has succeeded since
    astray,    \* history: launches and gateways that passed unseen: left by their
               \* starter before the exec, or between the two scans of a starter
    partial,   \* history: since the last complete wiring, one failed half-way, or
               \* one was switched off while a gateway started that it had not seen
    commands,  \* commands users have run
    failures   \* what has gone wrong so far

gateway == <<slot, awaited, stale, astray>>
locks   == <<gateLock, loadLock>>
history == <<stopped, partial>>
budget  == <<commands, failures>>
vars    == <<quiesced, disabled, requests, slot, awaited, stale, gateLock, loadLock,
             pc, cmd, seen, stopped, astray, partial, commands, failures>>

Steps == {"idle", "clear", "executor", "check", "lockStart", "recheck",
          "findGateway", "findCapture", "watch", "spawn", "wait",
          "mark", "lockStop", "stopping", "policy", "undo",
          "lockReload", "scan", "processed", "retry",
          "wireCheck", "wireLock", "wireConfig", "wireRequest",
          "unwireScan", "unwireRequest", "unwireConfig"}

TypeOK ==
    /\ quiesced \in BOOLEAN /\ disabled \in BOOLEAN
    /\ requests \subseteq RequestIds
    /\ slot \in [Slots -> {"free", "forked", "pending", "up", "orphan"}]
    /\ {awaited, stale, astray} \subseteq SUBSET Slots
    /\ gateLock \in Procs \cup {NoProc} /\ loadLock \in Procs \cup {NoProc}
    /\ pc \in [Procs -> Steps]
    /\ cmd \in [Procs -> UserCommands \cup {"none", "reconcile", "reload"}]
    /\ seen \in [Procs -> SUBSET RequestIds]
    /\ stopped \subseteq {"quiesced", "disabled"}
    /\ partial \in BOOLEAN
    /\ commands \in 0 .. MaxCommands /\ failures \in 0 .. MaxFailures

\* A fresh box: init wrote the gateway-disabled marker, nothing runs.
Init ==
    /\ quiesced = FALSE /\ disabled = TRUE
    /\ requests = {}
    /\ slot = [s \in Slots |-> "free"] /\ awaited = {} /\ stale = {}
    /\ gateLock = NoProc /\ loadLock = NoProc
    /\ pc = [p \in Procs |-> "idle"]
    /\ cmd = [p \in Procs |-> "none"]
    /\ seen = [p \in Procs |-> {}]
    /\ stopped = {"disabled"} /\ astray = {} /\ partial = FALSE
    /\ commands = 0 /\ failures = 0

-----------------------------------------------------------------------------
(* Process scans and control flow.                                         *)

Live     == {s \in Slots : slot[s] # "free"}
Gateways == {s \in Slots : slot[s] \in {"up", "orphan"}}     \* _gateway_pids
Captures == {s \in Slots : slot[s] \in {"pending", "up"}}    \* _gateway_capture_pids
Forked   == {s \in Slots : slot[s] = "forked"}              \* no scan finds these

\* The names of request files and slots are interchangeable: the choice among
\* the unused ones is fixed, which leaves out only renamings of behaviours.
AnyOf(S) == IF S = {} THEN {} ELSE {CHOOSE x \in S : TRUE}
FreshRequest == AnyOf(RequestIds \ requests)
FreeSlot     == AnyOf(Slots \ Live)

Goto(p, step) == pc' = [pc EXCEPT ![p] = step]

\* A process ends: whatever flock it still holds is released.
Exit(p) ==
    /\ Goto(p, "idle")
    /\ cmd' = [cmd EXCEPT ![p] = "none"]
    /\ gateLock' = IF gateLock = p THEN NoProc ELSE gateLock
    /\ loadLock' = IF loadLock = p THEN NoProc ELSE loadLock

Continue(p, step) ==
    /\ Goto(p, step)
    /\ gateLock' = IF gateLock = p THEN NoProc ELSE gateLock
    /\ UNCHANGED <<cmd, loadLock>>

\* The reload leaves its requests for the next round, or the workload goes on
\* to `hb reconcile` after a reload that succeeded.
ReloadFailed(p) == Exit(p)
ReloadDone(p) ==
    /\ Goto(p, "policy")
    /\ cmd' = [cmd EXCEPT ![p] = "reconcile"]
    /\ loadLock' = NoProc
    /\ gateLock' = IF gateLock = p THEN NoProc ELSE gateLock

\* What each caller of _start_gateway does with its status: 0 done, 1 failed,
\* 2 the lock was busy.
AfterStart(p, status) ==
    CASE cmd[p] = "enable" /\ status = 1 -> Continue(p, "lockStop")
      [] cmd[p] = "enable" /\ status = 2 -> Continue(p, "undo")
      [] cmd[p] = "reload" /\ status = 0 -> Continue(p, "processed")
      [] cmd[p] = "reload" /\ status = 1 -> ReloadFailed(p)
      [] cmd[p] = "reload" /\ status = 2 -> Continue(p, "retry")
      [] cmd[p] = "wire"   /\ status = 0 -> Continue(p, "wireLock")
      [] OTHER -> Exit(p)

\* What each caller of _stop_gateway does: enable ignores the status.
AfterStop(p, ok) ==
    CASE cmd[p] = "enable"          -> Continue(p, "undo")
      [] cmd[p] = "reload" /\ ok    -> Continue(p, "check")
      [] OTHER                      -> Exit(p)

\* A marker is cleared: earlier stops promise nothing any more.
Cleared(marker) == stopped' = stopped \ {marker}

\* Something goes wrong.
Fails ==
    /\ failures < MaxFailures
    /\ failures' = failures + 1
    /\ UNCHANGED commands

-----------------------------------------------------------------------------
(* Commands begin.                                                         *)

FirstStep(c) ==
    CASE c = "up"      -> "clear"
      [] c = "pause"   -> "mark"
      [] c = "disable" -> "mark"
      [] c = "enable"  -> "policy"
      [] OTHER         -> "wireCheck"

Begin(p) ==
    /\ p \in Users /\ pc[p] = "idle"
    /\ commands < MaxCommands
    /\ commands' = commands + 1
    /\ \E c \in Commands :
          /\ cmd' = [cmd EXCEPT ![p] = c]
          /\ Goto(p, FirstStep(c))
    /\ UNCHANGED <<quiesced, disabled, requests, gateway, locks, seen, history, failures>>

\* reconcile_once: nothing for the gateway while quiesced; a pending reload
\* comes before the reconciliation.
Tick ==
    /\ pc[Workload] = "idle"
    /\ \/ quiesced /\ UNCHANGED <<cmd, pc>>
       \/ /\ ~quiesced
          /\ LET c == IF requests # {} THEN "reload" ELSE "reconcile"
             IN  /\ cmd' = [cmd EXCEPT ![Workload] = c]
                 /\ Goto(Workload, IF c = "reload" THEN "lockReload" ELSE "policy")
    /\ UNCHANGED <<quiesced, disabled, requests, gateway, locks, seen, history, budget>>

\* up and resume clear the quiesce marker before they start anything.
ClearQuiesce(p) ==
    /\ pc[p] = "clear"
    /\ quiesced' = FALSE
    /\ Cleared("quiesced")
    /\ Goto(p, "executor")
    /\ UNCHANGED <<disabled, requests, gateway, locks, cmd, seen, partial, budget>>

\* _executor_up comes before the gateway in up and reconcile.
ExecutorUp(p) ==
    /\ pc[p] = "executor"
    /\ \/ Goto(p, "check") /\ UNCHANGED <<cmd, locks, budget>>
       \/ Fails /\ Exit(p)
    /\ UNCHANGED <<quiesced, disabled, requests, gateway, seen, history>>

\* pause and gateway-disable persist their marker before they stop anything.
Mark(p) ==
    /\ pc[p] = "mark"
    /\ quiesced' = (quiesced \/ cmd[p] = "pause")
    /\ disabled' = (disabled \/ cmd[p] = "disable")
    /\ Goto(p, "lockStop")
    /\ UNCHANGED <<requests, gateway, locks, cmd, seen, history, budget>>

\* reconcile stops here on a quiesced box; gateway-enable refuses one, may be
\* refused by the cutover gate, and otherwise removes the disabled marker.
Policy(p) ==
    /\ pc[p] = "policy"
    /\ \/ /\ ~quiesced
          /\ disabled' = (disabled /\ cmd[p] # "enable")
          /\ IF cmd[p] = "enable" THEN Cleared("disabled") ELSE UNCHANGED stopped
          /\ Goto(p, IF cmd[p] = "enable" THEN "check" ELSE "executor")
          /\ UNCHANGED <<cmd, locks>>
       \/ /\ quiesced \/ cmd[p] = "enable"
          /\ Exit(p)
          /\ UNCHANGED <<disabled, stopped>>
    /\ UNCHANGED <<quiesced, requests, gateway, seen, partial, budget>>

-----------------------------------------------------------------------------
(* _start_gateway.                                                         *)

CheckPolicy(p) ==
    /\ pc[p] = "check"
    /\ IF quiesced \/ disabled
       THEN AfterStart(p, 0)
       ELSE Continue(p, "lockStart")
    /\ UNCHANGED <<quiesced, disabled, requests, gateway, seen, history, budget>>

\* Mutant: the starter goes on without the lock.
LockStartUnlocked(p) ==
    /\ pc[p] = "lockStart"
    /\ Goto(p, "recheck")
    /\ UNCHANGED <<quiesced, disabled, requests, gateway, locks, cmd, seen, history, budget>>

LockStart(p) ==
    /\ pc[p] = "lockStart"
    /\ \/ /\ gateLock = NoProc
          /\ gateLock' = p
          /\ Goto(p, "recheck")
          /\ UNCHANGED <<cmd, loadLock>>
       \/ Timeouts /\ gateLock # NoProc /\ AfterStart(p, 2)
    /\ UNCHANGED <<quiesced, disabled, requests, gateway, seen, history, budget>>

\* Mutant: the markers are not read again under the lock.
RecheckBlind(p) ==
    /\ pc[p] = "recheck"
    /\ Goto(p, "findGateway")
    /\ UNCHANGED <<quiesced, disabled, requests, gateway, locks, cmd, seen, history, budget>>

\* Inside the lock: the markers again.
RecheckPolicy(p) ==
    /\ pc[p] = "recheck"
    /\ IF quiesced \/ disabled
       THEN AfterStart(p, 0)
       ELSE Goto(p, "findGateway") /\ UNCHANGED <<cmd, locks>>
    /\ UNCHANGED <<quiesced, disabled, requests, gateway, seen, history, budget>>

\* Then what already runs, in two scans.
FindGateway(p) ==
    /\ pc[p] = "findGateway"
    /\ CASE Cardinality(Gateways) = 1 -> AfterStart(p, 0)
         [] Gateways = {}             -> Goto(p, "findCapture") /\ UNCHANGED <<cmd, locks>>
         [] OTHER                     -> AfterStart(p, 1)
    /\ UNCHANGED <<quiesced, disabled, requests, gateway, seen, history, budget>>

\* A pending wrapper owns its launch and is only waited for.
FindCapture(p) ==
    /\ pc[p] = "findCapture"
    /\ CASE Captures = {}             -> /\ Goto(p, "spawn")
                                         /\ UNCHANGED <<cmd, locks, awaited>>
         [] Cardinality(Captures) = 1 -> /\ awaited' = Captures
                                         /\ Goto(p, "watch")
                                         /\ UNCHANGED <<cmd, locks>>
         [] OTHER                     -> AfterStart(p, 1) /\ UNCHANGED awaited
    /\ UNCHANGED <<quiesced, disabled, requests, slot, stale, astray, seen, history, budget>>

\* A starter goes away from a launch that no scan can see yet.
Leave == astray' = astray \cup (awaited \cap Forked) /\ awaited' = {}

\* One look at the wrapper that was found: it has a child by now, or is alive.
Watch(p) ==
    /\ pc[p] = "watch"
    /\ AfterStart(p, IF \/ Cardinality(Gateways) = 1
                        \/ Gateways = {} /\ awaited \subseteq Captures THEN 0 ELSE 1)
    /\ Leave
    /\ UNCHANGED <<quiesced, disabled, requests, slot, stale, seen, history, budget>>

\* The subshell gets no copy of any lock descriptor that it keeps.
Spawn(p) ==
    /\ pc[p] = "spawn"
    /\ \E s \in FreeSlot : slot' = [slot EXCEPT ![s] = "forked"] /\ awaited' = {s}
    /\ Goto(p, "wait")
    /\ UNCHANGED <<quiesced, disabled, requests, stale, astray, locks, cmd, seen, history, budget>>

\* _wait_gateway_pid: one gateway has appeared, or the launch is still busy when the
\* wait ends, seconds later (both count as started); otherwise the launch is dead or
\* there are several gateways, and what is left of it is ended.
WaitGateway(p) ==
    /\ pc[p] = "wait"
    /\ \/ /\ \/ Cardinality(Gateways) = 1 /\ UNCHANGED budget
             \/ Gateways = {} /\ awaited \subseteq Captures /\ UNCHANGED budget
             \/ Gateways = {} /\ awaited \subseteq Forked /\ Fails
          /\ AfterStart(p, 0) /\ Leave
          /\ UNCHANGED <<slot, stale>>
       \/ /\ \/ Cardinality(Gateways) > 1
             \/ Gateways = {} /\ awaited \cap Live = {}
          /\ AfterStart(p, 1)
          /\ slot' = [s \in Slots |->
                        IF s \in awaited /\ slot[s] # "orphan" THEN "free" ELSE slot[s]]
          /\ stale' = stale \cap Live' /\ astray' = astray \cap Live' /\ awaited' = {}
          /\ UNCHANGED budget
    /\ UNCHANGED <<quiesced, disabled, requests, seen, history>>

-----------------------------------------------------------------------------
(* _stop_gateway.                                                          *)

LockStop(p) ==
    /\ pc[p] = "lockStop"
    /\ \/ /\ gateLock = NoProc
          /\ gateLock' = p
          /\ Goto(p, "stopping")
          /\ UNCHANGED <<cmd, loadLock>>
       \/ Timeouts /\ gateLock # NoProc /\ AfterStop(p, FALSE)
    /\ UNCHANGED <<quiesced, disabled, requests, gateway, seen, history, budget>>

\* TERM, wait, KILL, look again: success means no wrapper and no gateway is to be
\* seen.  A stop command that succeeds under its marker is remembered.
StopAll(p) ==
    /\ pc[p] = "stopping"
    /\ slot' = [s \in Slots |-> IF s \in Forked THEN "forked" ELSE "free"]
    /\ stale' = {} /\ astray' = astray \cap Forked
    /\ AfterStop(p, TRUE)
    /\ stopped' = stopped \cup
          (IF cmd[p] = "pause" /\ quiesced THEN {"quiesced"} ELSE {}) \cup
          (IF cmd[p] = "disable" /\ disabled THEN {"disabled"} ELSE {})
    /\ UNCHANGED <<quiesced, disabled, requests, awaited, seen, partial, budget>>

\* Something survived the KILL, a child forked at that moment or a launch that
\* came to its exec, for instance.
StopFails(p) ==
    /\ pc[p] = "stopping"
    /\ Fails
    /\ \E s \in Live :
          slot' = [t \in Slots |-> IF t = s THEN IF s \in Forked THEN "pending" ELSE "orphan"
                                   ELSE IF t \in Forked THEN "forked" ELSE "free"]
    /\ stale' = stale \cap Live' /\ astray' = astray \cap Live'
    /\ AfterStop(p, FALSE)
    /\ UNCHANGED <<quiesced, disabled, requests, awaited, seen, history>>

\* gateway-enable gives up: the marker comes back.
Undo(p) ==
    /\ pc[p] = "undo"
    /\ disabled' = TRUE
    /\ Exit(p)
    /\ UNCHANGED <<quiesced, requests, gateway, seen, history, budget>>

-----------------------------------------------------------------------------
(* gateway_reload_if_requested, run by the workload.                       *)

LockReload(p) ==
    /\ pc[p] = "lockReload"
    /\ \/ /\ loadLock = NoProc
          /\ loadLock' = p
          /\ Goto(p, "scan")
          /\ UNCHANGED <<cmd, gateLock>>
       \/ Timeouts /\ loadLock # NoProc /\ Exit(p)
    /\ UNCHANGED <<quiesced, disabled, requests, gateway, seen, history, budget>>

\* Mutant: the reload does not remember which requests it found.
ScanUnseen(p) ==
    /\ pc[p] = "scan"
    /\ IF requests # {} /\ Gateways # {}
       THEN Goto(p, "lockStop") /\ UNCHANGED <<requests, cmd, locks>>
       ELSE /\ requests' = IF Captures = {} THEN {} ELSE requests
            /\ ReloadDone(p)
    /\ UNCHANGED <<quiesced, disabled, gateway, seen, history, budget>>

\* With no gateway running the requests are dropped, unless a wrapper is
\* about to start one.
ScanRequests(p) ==
    /\ pc[p] = "scan"
    /\ seen' = [seen EXCEPT ![p] = requests]
    /\ IF requests # {} /\ Gateways # {}
       THEN Goto(p, "lockStop") /\ UNCHANGED <<requests, cmd, locks>>
       ELSE /\ requests' = IF Captures = {} THEN {} ELSE requests
            /\ ReloadDone(p)
    /\ UNCHANGED <<quiesced, disabled, gateway, history, budget>>

\* Only the requests found at the beginning are removed.
Processed(p) ==
    /\ pc[p] = "processed"
    /\ requests' = requests \ seen[p]
    /\ ReloadDone(p)
    /\ UNCHANGED <<quiesced, disabled, gateway, seen, history, budget>>

\* _start_gateway_after_reload: another starter holds the lock.  Its gateway
\* is as good as ours; without one, try again, and give up in the end.
RetryStart(p) ==
    /\ pc[p] = "retry"
    /\ \/ Gateways # {} /\ Continue(p, "processed")
       \/ Gateways = {} /\ Continue(p, "check")
       \/ Gateways = {} /\ ReloadFailed(p)
    /\ UNCHANGED <<quiesced, disabled, requests, gateway, seen, history, budget>>

-----------------------------------------------------------------------------
(* wire_mcp, which login shells run through wire_once.                     *)

WireCheck(p) ==
    /\ pc[p] = "wireCheck"
    /\ IF quiesced THEN Exit(p)
                   ELSE Continue(p, IF cmd[p] = "wire" THEN "clear" ELSE "unwireScan")
    /\ UNCHANGED <<quiesced, disabled, requests, gateway, seen, history, budget>>

WireLock(p) ==
    /\ pc[p] = "wireLock"
    /\ \/ /\ loadLock = NoProc
          /\ loadLock' = p
          /\ Goto(p, IF cmd[p] = "wire" THEN "wireConfig" ELSE "unwireRequest")
          /\ UNCHANGED <<cmd, gateLock>>
       \/ Timeouts /\ loadLock # NoProc /\ Exit(p)
    /\ UNCHANGED <<quiesced, disabled, requests, gateway, seen, history, budget>>

\* config.yaml changes: what already runs has read the old one.  A client
\* that cannot be configured ends the command here, without a request.
WireConfig(p) ==
    /\ pc[p] = "wireConfig"
    /\ stale' = Gateways
    /\ \/ Goto(p, "wireRequest") /\ UNCHANGED <<cmd, locks, budget, partial>>
       \/ Fails /\ Exit(p) /\ partial' = TRUE
    /\ UNCHANGED <<quiesced, disabled, requests, slot, awaited, astray, seen, stopped>>

\* Mutant: the wrapper is looked for instead of the gateway.
RequestIfCaptured(p) ==
    /\ pc[p] = "wireRequest"
    /\ \/ Captures = {} /\ UNCHANGED requests
       \/ /\ Captures # {}
          /\ \E r \in FreshRequest : requests' = requests \cup {r}
    /\ partial' = FALSE
    /\ Exit(p)
    /\ UNCHANGED <<quiesced, disabled, gateway, seen, stopped, budget>>

\* A reload is requested if a gateway is running; mktemp may fail.
WireRequest(p) ==
    /\ pc[p] = "wireRequest"
    /\ \/ Gateways = {} /\ partial' = FALSE /\ UNCHANGED <<requests, budget>>
       \/ /\ Gateways # {}
          /\ \E r \in FreshRequest : requests' = requests \cup {r}
          /\ partial' = FALSE
          /\ UNCHANGED budget
       \/ Gateways # {} /\ Fails /\ partial' = TRUE /\ UNCHANGED requests
    /\ Exit(p)
    /\ UNCHANGED <<quiesced, disabled, gateway, seen, stopped>>

\* Wiring is switched off: the lock and the write-ahead request are for a
\* gateway that runs now.
UnwireScan(p) ==
    /\ pc[p] = "unwireScan"
    /\ Continue(p, IF Gateways = {} THEN "unwireConfig" ELSE "wireLock")
    /\ seen' = [seen EXCEPT ![p] = {}]
    /\ UNCHANGED <<quiesced, disabled, requests, gateway, history, budget>>

UnwireRequest(p) ==
    /\ pc[p] = "unwireRequest"
    /\ \/ /\ \E r \in FreshRequest :
                /\ requests' = requests \cup {r}
                /\ seen' = [seen EXCEPT ![p] = {r}]
          /\ Goto(p, "unwireConfig")
          /\ UNCHANGED <<cmd, locks, budget>>
       \/ Fails /\ Exit(p) /\ UNCHANGED <<requests, seen>>
    /\ UNCHANGED <<quiesced, disabled, gateway, history>>

\* The removal changes config.yaml, whether or not it then reports an error;
\* or it does not, and the request goes if the fingerprints can tell.
UnwireConfig(p) ==
    /\ pc[p] = "unwireConfig"
    /\ \/ /\ stale' = Gateways
          /\ partial' = (partial \/ (seen[p] = {} /\ Gateways # {}))
          /\ UNCHANGED requests
       \/ requests' \in {requests, requests \ seen[p]} /\ UNCHANGED <<stale, partial>>
    /\ Exit(p)
    /\ UNCHANGED <<quiesced, disabled, slot, awaited, astray, seen, stopped, budget>>

-----------------------------------------------------------------------------
(* The wrapper, the gateway, and processes being killed.                   *)

\* The subshell becomes the wrapper; the wrapper starts Hermes, which reads the
\* current config.yaml.
LaunchProceeds(s) ==
    /\ \/ slot[s] = "forked" /\ slot' = [slot EXCEPT ![s] = "pending"]
       \/ slot[s] = "pending" /\ slot' = [slot EXCEPT ![s] = "up"]
    /\ UNCHANGED <<quiesced, disabled, requests, awaited, stale, astray, locks, pc, cmd, seen,
                   history, budget>>

\* Hermes exits (the wrapper will restart it), the wrapper dies, or what has no
\* wrapper or no child exits.  A gateway that loses its wrapper between the two
\* scans of a starter may have been seen by neither.
ProcessExits(s) ==
    /\ Fails
    /\ \/ /\ slot[s] = "up" /\ slot' = [slot EXCEPT ![s] = "pending"]
          /\ stale' = stale \ {s} /\ UNCHANGED astray
       \/ /\ slot[s] = "up" /\ slot' = [slot EXCEPT ![s] = "orphan"]
          /\ astray' = IF \E p \in Procs : pc[p] = "findCapture" THEN astray \cup {s} ELSE astray
          /\ UNCHANGED stale
       \/ /\ slot[s] \in {"forked", "pending", "orphan"}
          /\ slot' = [slot EXCEPT ![s] = "free"]
          /\ stale' = stale \ {s} /\ astray' = astray \ {s}
    /\ UNCHANGED <<quiesced, disabled, requests, awaited, locks, pc, cmd, seen, history>>

\* An hb process is killed; the kernel releases its locks.  (The kills that leave
\* a launch unseen are bounded.)
Kill(p) ==
    /\ cmd[p] \in Kills
    /\ Exit(p)
    /\ IF pc[p] = "wait" /\ awaited \subseteq Forked THEN Fails ELSE UNCHANGED budget
    /\ partial' = (partial \/ (cmd[p] = "wire" /\ pc[p] = "wireRequest"))
    /\ IF pc[p] \in {"watch", "wait"} THEN Leave ELSE UNCHANGED <<awaited, astray>>
    /\ UNCHANGED <<quiesced, disabled, requests, slot, stale, seen, stopped>>

\* The container restarts: files stay, processes and their locks do not.
Restart ==
    /\ Fails
    /\ pc' = [p \in Procs |-> "idle"]
    /\ cmd' = [p \in Procs |-> "none"]
    /\ gateLock' = NoProc /\ loadLock' = NoProc
    /\ slot' = [s \in Slots |-> "free"] /\ awaited' = {} /\ stale' = {} /\ astray' = {}
    /\ UNCHANGED <<quiesced, disabled, requests, seen, history>>

-----------------------------------------------------------------------------
HbStep(p) ==
    \/ ClearQuiesce(p) \/ ExecutorUp(p) \/ Mark(p) \/ Policy(p)
    \/ CheckPolicy(p) \/ LockStart(p) \/ RecheckPolicy(p) \/ FindGateway(p) \/ FindCapture(p)
    \/ Watch(p) \/ Spawn(p) \/ WaitGateway(p)
    \/ LockStop(p) \/ StopAll(p) \/ StopFails(p) \/ Undo(p)
    \/ LockReload(p) \/ ScanRequests(p) \/ Processed(p) \/ RetryStart(p)
    \/ WireCheck(p) \/ WireLock(p) \/ WireConfig(p) \/ WireRequest(p)
    \/ UnwireScan(p) \/ UnwireRequest(p) \/ UnwireConfig(p)

Next ==
    \/ \E p \in Users : Begin(p) \/ Kill(p)
    \/ Tick \/ Restart
    \/ \E p \in Procs : HbStep(p)
    \/ \E s \in Slots : LaunchProceeds(s) \/ ProcessExits(s)

\* The loop ticks for ever, every process runs, a launch proceeds.
Fairness ==
    /\ WF_vars(Tick)
    /\ \A p \in Procs : WF_vars(HbStep(p))
    /\ \A s \in Slots : WF_vars(LaunchProceeds(s))

Spec == Init /\ [][Next]_vars /\ Fairness

-----------------------------------------------------------------------------
(* Properties.                                                             *)

\* Single writer: however starts, stops and reloads overlap, at most one launch,
\* wrapper or gateway exists, besides those that passed unseen (_start_gateway's
\* check and spawn in one lock).
SingleWriter == \A s, t \in Live \ astray : s = t

\* Once hb pause or hb gateway-disable has reported success, and as long as
\* nobody has cleared its marker, nothing of the gateway runs but what passed unseen:
\* no queued or half-way starter brings it back.
StopsAreFinal == stopped # {} => Live \subseteq astray

\* A gateway that runs with an outdated config.yaml has a reload coming: a
\* request file, or the process that is changing or reloading it right now.
\* (A wiring that fails leaves the gateway alone, on purpose; one that was
\* switched off asks only for a gateway it saw before.  Both are partial.)
NoLostReload ==
    Gateways \cap stale # {} => requests # {} \/ loadLock # NoProc \/ partial

\* Once the users have run their commands and nothing fails any more, the
\* markers decide.  Without one a gateway runs for good, one besides what passed
\* unseen, with the current configuration unless the last wiring is partial.  Under
\* one nothing runs, if a command that set one of those that are set has succeeded;
\* what a stop that failed or was killed left, or what ran when gateway-enable put
\* its marker back, the loop leaves running.
Converges ==
    <>[](IF quiesced \/ disabled
         THEN stopped = {} \/ Live \subseteq astray
         ELSE /\ Gateways # {} /\ Cardinality(Gateways \ astray) <= 1
              /\ partial \/ Gateways \cap stale = {})

=============================================================================
