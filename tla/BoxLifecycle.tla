---------------------------- MODULE BoxLifecycle ----------------------------
(***************************************************************************)
(* The host side of tx9: every CLI command that changes one box.           *)
(*                                                                         *)
(* A box is five Docker objects with names derived from the box name, plus *)
(* one env file under ~/.tx9/boxes.  Commands are separate operating       *)
(* system processes; each takes the non-blocking per-box flock, makes its  *)
(* Docker calls one after the other and returns.  Every Docker call and    *)
(* every env-file write is one step here, each may fail, and a process may *)
(* be killed between any two of them.  Outside the lock, operators run     *)
(* `docker rm` and `docker volume rm`, other software takes names, and the *)
(* box's user runs `hb pause` and `hb resume`.                             *)
(***************************************************************************)

CONSTANTS
    Procs,       \* CLI processes that may run at the same time
    NoProc,      \* "nobody holds the lock"
    Commands,    \* the commands users run, a subset of AllCommands
    Tokens,      \* Executor bearer tokens
    NoToken,     \* EXECUTOR_MCP_TOKEN missing from the env file
    Targets,     \* container paths of agent mounts
    Sources,     \* host paths of agent mounts
    NoSource,    \* no mount configured at a target
    Crashes,     \* whether a CLI process may be killed
    Outsiders    \* whether operators remove and other software creates objects

AllCommands == {"create", "import", "upgrade", "delete", "start", "stop",
                "mount", "prune"}

ASSUME ConstantsAssumption ==
    /\ NoProc \notin Procs
    /\ NoToken \notin Tokens
    /\ NoSource \notin Sources
    /\ Commands \subseteq AllCommands
    /\ Crashes \in BOOLEAN
    /\ Outsiders \in BOOLEAN

Containers == {"agent", "executor"}
Volumes    == {"agentVol", "execVol"}
Objects    == Containers \cup Volumes \cup {"network"}

\* A configured mount set: which host source, if any, sits at each target.
MountSets == [Targets -> Sources \cup {NoSource}]
NoMounts  == [t \in Targets |-> NoSource]

\* ReadBoxEnv reads a missing file as an empty map.
EmptyEnv == [token |-> NoToken, mounts |-> NoMounts]

VARIABLES
    own,       \* object -> "absent", "box" (labelled for this box), "foreign"
    running,   \* container -> is it running
    ctok,      \* container -> the token in its environment
    cmounts,   \* the mounts of the agent container
    quiesced,  \* the quiesce marker on the agent volume
    env,       \* the box's env file
    lock,      \* holder of the box's flock
    pc,        \* process -> where it is
    loc,       \* process -> its local variables
    raced      \* history: volumes that came under their name while a command
               \* was between its look at the name and its use of it

docker == <<own, running, ctok, cmounts, raced>>
vars   == <<own, running, ctok, cmounts, quiesced, env, lock, pc, loc, raced>>

\* Steps of the operations, in program order within each line.
Unlocked == {"idle", "snapshot", "acquire"}
Locked   == {"fresh", "saveConfig", "saveMounts", "saveResources", "image",
             "prepareMounts", "network", "makeNetwork", "agentVol", "makeAgentVol",
             "execVol", "makeExecVol", "createAgent", "createExecutor", "removeLeaked", "restore",
             "startExecutor", "startAgent", "prepareRuntime",
             "get", "preflight", "inspect", "stopAgent", "stopExecutor",
             "rmAgent", "rmExecutor", "rmNetwork", "rmAgentVol", "dropAgentVol",
             "rmExecVol", "dropExecVol", "rmEnv", "removed", "reStop", "reRemove",
             "reCreate", "reStart", "reSave", "askQuiesced", "recheck"}

Idle == [cmd     |-> "none",      \* the command
         tok     |-> NoToken,     \* its token
         mounts  |-> NoMounts,    \* the mounts it wants the agent to have
         targets |-> {},          \* objects its ownership preflight found
         errs    |-> FALSE,       \* a removal failed
         was     |-> FALSE,       \* the agent ran when inspected
         made    |-> FALSE,       \* history: it created the agent volume
         ran     |-> FALSE,       \* history of mount: the agent ran when it locked
         held    |-> FALSE]       \* history of mount: quiesced when it asked, and since

Locals == [cmd : AllCommands \cup {"none"}, tok : Tokens \cup {NoToken},
           mounts : MountSets, targets : SUBSET Objects, errs : BOOLEAN,
           was : BOOLEAN, made : BOOLEAN, ran : BOOLEAN, held : BOOLEAN]

TypeOK ==
    /\ own \in [Objects -> {"absent", "box", "foreign"}]
    /\ running \in [Containers -> BOOLEAN]
    /\ ctok \in [Containers -> Tokens \cup {NoToken}]
    /\ cmounts \in MountSets
    /\ quiesced \in BOOLEAN
    /\ env \in [token : Tokens \cup {NoToken}, mounts : MountSets]
    /\ lock \in Procs \cup {NoProc}
    /\ pc \in [Procs -> Unlocked \cup Locked]
    /\ loc \in [Procs -> Locals]
    /\ raced \in SUBSET Volumes

Init ==
    /\ own = [o \in Objects |-> "absent"]
    /\ running = [c \in Containers |-> FALSE]
    /\ ctok = [c \in Containers |-> NoToken]
    /\ cmounts = NoMounts
    /\ quiesced = FALSE
    /\ env = EmptyEnv
    /\ lock = NoProc
    /\ pc = [p \in Procs |-> "idle"]
    /\ loc = [p \in Procs |-> Idle]
    /\ raced = {}

-----------------------------------------------------------------------------
(* What the code reads.                                                    *)

\* box.Exists / box.Get: some container carries the box's labels.
BoxExists == \E c \in Containers : own[c] = "box"

\* PreflightFreshObjects: no object of a derived name, whoever owns it.
AllFree == \A o \in Objects : own[o] = "absent"

\* inspectDestroyTargets: refuses as soon as one object is foreign.
NoneForeign == \A o \in Objects : own[o] # "foreign"
OwnedObjects == {o \in Objects : own[o] = "box"}

\* boxStateInUse: a labelled container, or any volume or network at all.
StateInUse == BoxExists \/ \E o \in Volumes \cup {"network"} : own[o] # "absent"

Goto(p, step) == pc' = [pc EXCEPT ![p] = step]

\* The command returns: its locals die and the deferred release runs.
Return(p) ==
    /\ pc' = [pc EXCEPT ![p] = "idle"]
    /\ loc' = [loc EXCEPT ![p] = Idle]
    /\ lock' = IF lock = p THEN NoProc ELSE lock

Cmd(p) == loc[p].cmd

-----------------------------------------------------------------------------
(* Starting a command and taking the lock.                                 *)

\* A user runs a command.  prune lists boxes and state files before locking.
Begin(p) ==
    /\ pc[p] = "idle"
    /\ \E c \in Commands :
          /\ loc' = [loc EXCEPT ![p].cmd = c]
          /\ Goto(p, IF c = "prune" THEN "snapshot" ELSE "acquire")
    /\ UNCHANGED <<docker, quiesced, env, lock>>

\* pruneStateFiles: only a state file whose box is not listed is a candidate.
PruneSnapshot(p) ==
    /\ pc[p] = "snapshot"
    /\ \/ /\ ~BoxExists /\ env # EmptyEnv
          /\ Goto(p, "acquire")
          /\ UNCHANGED <<loc, lock>>
       \/ Return(p)
    /\ UNCHANGED <<docker, quiesced, env>>

FirstStep(c) ==
    CASE c \in {"create", "import"} -> "fresh"
      [] c = "prune"                -> "recheck"
      [] OTHER                      -> "get"

\* lock.Acquire fails fast: a busy box ends the command.
Acquire(p) ==
    /\ pc[p] = "acquire"
    /\ \/ /\ lock = NoProc
          /\ lock' = p
          /\ Goto(p, FirstStep(Cmd(p)))
          /\ loc' = [loc EXCEPT ![p].ran = (Cmd(p) = "mount" /\ running["agent"]),
                                ![p].held = (Cmd(p) = "mount" /\ quiesced)]
       \/ lock # NoProc /\ Return(p)
    /\ UNCHANGED <<docker, quiesced, env>>

-----------------------------------------------------------------------------
(* create and import: admission and the env file.                          *)

\* Mutant: admission looks for the box's containers only.
CheckNoContainers(p) ==
    /\ pc[p] = "fresh"
    /\ \/ ~BoxExists /\ Goto(p, "saveConfig") /\ UNCHANGED <<loc, lock>>
       \/ Return(p)
    /\ UNCHANGED <<docker, quiesced, env>>

\* Exists and PreflightFreshObjects under the lock; then the image build
\* (create) or the extraction and validation of the archive (import).
CheckFresh(p) ==
    /\ pc[p] = "fresh"
    /\ \/ AllFree /\ Goto(p, "saveConfig") /\ UNCHANGED <<loc, lock>>
       \/ Return(p)
    /\ UNCHANGED <<docker, quiesced, env>>

\* Tokens in use anywhere; a minted token is 256 random bits, so a new one.
UsedTokens == {env.token} \cup {ctok[c] : c \in Containers}
                          \cup {loc[p].tok : p \in Procs}

\* SaveExecutorConfig: a fresh token for create and import, the box's own
\* token for upgrade; unknown keys of an older file survive.
SaveConfig(p) ==
    /\ pc[p] = "saveConfig"
    /\ \/ \E t \in Tokens :
             /\ IF Cmd(p) = "upgrade" THEN t = loc[p].tok
                                      ELSE t \notin UsedTokens
             /\ env' = [env EXCEPT !.token = t]
             /\ loc' = [loc EXCEPT ![p].tok = t]
             /\ Goto(p, IF Cmd(p) = "upgrade" THEN "saveResources"
                                              ELSE "saveMounts")
             /\ UNCHANGED lock
       \/ Return(p) /\ UNCHANGED env
    /\ UNCHANGED <<docker, quiesced>>

\* Mutant: a stale env file keeps its mounts.
KeepStaleMounts(p) ==
    /\ pc[p] = "saveMounts"
    /\ Goto(p, "saveResources")
    /\ UNCHANGED <<docker, quiesced, env, loc, lock>>

\* create and import never inherit the mounts of a stale env file.
SaveNoMounts(p) ==
    /\ pc[p] = "saveMounts"
    /\ \/ /\ env' = [env EXCEPT !.mounts = NoMounts]
          /\ Goto(p, "saveResources")
          /\ UNCHANGED <<loc, lock>>
       \/ Return(p) /\ UNCHANGED env
    /\ UNCHANGED <<docker, quiesced>>

\* SaveResources (the limits themselves are module ResourceTxn's).
SaveResources(p) ==
    /\ pc[p] = "saveResources"
    /\ \/ /\ Goto(p, CASE Cmd(p) = "create"  -> "prepareMounts"
                       [] Cmd(p) = "import"  -> "image"
                       [] OTHER              -> "rmAgent")
          /\ UNCHANGED <<loc, lock>>
       \/ Return(p)
    /\ UNCHANGED <<docker, quiesced, env>>

\* import builds its image only after the env file is written.
EnsureImage(p) ==
    /\ pc[p] = "image"
    /\ \/ Goto(p, "prepareMounts") /\ UNCHANGED <<loc, lock>>
       \/ Return(p)
    /\ UNCHANGED <<docker, quiesced, env>>

-----------------------------------------------------------------------------
(* box.Create, shared by create, import and upgrade.                       *)

\* What an error of box.Create, of the restore or of a start leads to:
\* create and import call box.Destroy, upgrade and start just return.
GiveUp(p) ==
    IF Cmd(p) \in {"create", "import"}
    THEN Goto(p, "inspect") /\ UNCHANGED <<loc, lock>>
    ELSE Return(p)

PrepareAgentMounts(p) ==
    /\ pc[p] = "prepareMounts"
    /\ \/ Goto(p, "network") /\ UNCHANGED <<loc, lock>>
       \/ GiveUp(p)
    /\ UNCHANGED <<docker, quiesced, env>>

\* Mutant: an existing object is reused, whoever owns it.
FindAnyOwner(p, o, make, next) ==
    /\ \/ own[o] # "absent" /\ Goto(p, next) /\ UNCHANGED <<loc, lock>>
       \/ own[o] = "absent" /\ Goto(p, make) /\ UNCHANGED <<loc, lock>>
       \/ GiveUp(p)
    /\ UNCHANGED <<docker, quiesced, env>>

\* The first half of ensureNetwork and ensureVolume: an owned object is reused,
\* a foreign one refused, an absent one is about to be created.
Find(p, o, make, next) ==
    /\ \/ own[o] = "box" /\ Goto(p, next) /\ UNCHANGED <<loc, lock>>
       \/ own[o] = "absent" /\ Goto(p, make) /\ UNCHANGED <<loc, lock>>
       \/ GiveUp(p)
    /\ UNCHANGED <<docker, quiesced, env>>

\* Docker creates no second network of a name.
MakeNetwork ==
    /\ own["network"] = "absent"
    /\ own' = [own EXCEPT !["network"] = "box"]
    /\ UNCHANGED <<running, ctok, cmounts, raced>>

\* Docker answers the creation of a volume that exists as if it had made it; its
\* labels are not looked at again.
MakeVolume(v) ==
    /\ own' = IF own[v] = "absent" THEN [own EXCEPT ![v] = "box"] ELSE own
    /\ UNCHANGED <<running, ctok, cmounts, raced>>

\* RecreateAgent goes on with the container it replaces.
AfterAgentVolume(p) ==
    IF Cmd(p) # "mount" THEN "execVol"
                        ELSE IF loc[p].was THEN "reStop" ELSE "reRemove"

FindNetwork(p) ==
    /\ pc[p] = "network"
    /\ Find(p, "network", "makeNetwork", "agentVol")

CreateNetwork(p) ==
    /\ pc[p] = "makeNetwork"
    /\ \/ MakeNetwork /\ Goto(p, "agentVol") /\ UNCHANGED <<loc, lock>>
       \/ GiveUp(p) /\ UNCHANGED docker
    /\ UNCHANGED <<quiesced, env>>

FindAgentVolume(p) ==
    /\ pc[p] = "agentVol"
    /\ Find(p, "agentVol", "makeAgentVol", AfterAgentVolume(p))

CreateAgentVolume(p) ==
    /\ pc[p] = "makeAgentVol"
    /\ \/ /\ MakeVolume("agentVol")
          /\ Goto(p, AfterAgentVolume(p))
          /\ loc' = [loc EXCEPT ![p].made = (own["agentVol"] = "absent")]
          /\ UNCHANGED lock
       \/ GiveUp(p) /\ UNCHANGED docker
    /\ UNCHANGED <<quiesced, env>>

FindExecVolume(p) ==
    /\ pc[p] = "execVol"
    /\ Find(p, "execVol", "makeExecVol", "createAgent")

CreateExecVolume(p) ==
    /\ pc[p] = "makeExecVol"
    /\ \/ MakeVolume("execVol") /\ Goto(p, "createAgent") /\ UNCHANGED <<loc, lock>>
       \/ GiveUp(p) /\ UNCHANGED docker
    /\ UNCHANGED <<quiesced, env>>

\* The volume a container sits on.
VolumeOf(c) == IF c = "agent" THEN "agentVol" ELSE "execVol"

\* A container that binds a volume which is gone gets a new one of that name,
\* without labels.
BindVolume(v, objects) ==
    /\ own' = IF own[v] = "absent" THEN [objects EXCEPT ![v] = "foreign"] ELSE objects
    /\ raced' = IF own[v] = "absent" THEN raced \cup {v} ELSE raced

\* Docker refuses a name that is taken.
CreateContainer(p, c) ==
    /\ own[c] = "absent"
    /\ BindVolume(VolumeOf(c), [own EXCEPT ![c] = "box"])
    /\ running' = [running EXCEPT ![c] = FALSE]
    /\ ctok' = [ctok EXCEPT ![c] = loc[p].tok]
    /\ cmounts' = IF c = "agent" THEN loc[p].mounts ELSE cmounts

CreateAgent(p) ==
    /\ pc[p] = "createAgent"
    /\ \/ CreateContainer(p, "agent") /\ Goto(p, "createExecutor")
          /\ UNCHANGED <<loc, lock>>
       \/ GiveUp(p) /\ UNCHANGED docker
    /\ UNCHANGED <<quiesced, env>>

CreateExecutor(p) ==
    /\ pc[p] = "createExecutor"
    /\ \/ /\ CreateContainer(p, "executor")
          /\ Goto(p, IF Cmd(p) = "import" THEN "restore" ELSE "startExecutor")
       \/ Goto(p, "removeLeaked") /\ UNCHANGED docker
    /\ UNCHANGED <<quiesced, env, loc, lock>>

\* Force-removal of a container by ID.
RemoveContainer(c) ==
    /\ own' = [own EXCEPT ![c] = "absent"]
    /\ running' = [running EXCEPT ![c] = FALSE]
    /\ ctok' = [ctok EXCEPT ![c] = NoToken]
    /\ cmounts' = IF c = "agent" THEN NoMounts ELSE cmounts
    /\ UNCHANGED raced

\* The executor could not be created: the agent must not leak.
RemoveLeakedAgent(p) ==
    /\ pc[p] = "removeLeaked"
    /\ \/ own["agent"] = "box" /\ RemoveContainer("agent")
       \/ UNCHANGED docker
    /\ GiveUp(p)
    /\ UNCHANGED <<quiesced, env>>

\* restoreStageScript in a throwaway container (module HelperRun): the volume
\* is wiped, and the archive's tree is promoted with the quiesce marker or not
\* at all.  The import goes on with a script that failed as well, whose exit
\* code RunEphemeral does not see, and gives up when the call itself fails.
Restore(p) ==
    /\ pc[p] = "restore"
    /\ quiesced' \in BOOLEAN
    /\ BindVolume("agentVol", own) \/ UNCHANGED <<own, raced>>
    /\ \/ Goto(p, "startExecutor") /\ UNCHANGED <<loc, lock>>
       \/ GiveUp(p)
    /\ UNCHANGED <<running, ctok, cmounts, env>>

-----------------------------------------------------------------------------
(* Starting, stopping and preparing the runtime.                           *)

\* A container starts only on the network it was created with.
StartContainer(c) ==
    /\ own[c] = "box"
    /\ own["network"] = "box"
    /\ running' = [running EXCEPT ![c] = TRUE]
    /\ UNCHANGED <<own, ctok, cmounts, raced>>

StartExecutor(p) ==
    /\ pc[p] = "startExecutor"
    /\ \/ StartContainer("executor") /\ Goto(p, "startAgent")
          /\ UNCHANGED <<loc, lock>>
       \/ GiveUp(p) /\ UNCHANGED docker
    /\ UNCHANGED <<quiesced, env>>

\* import and start are done once the agent runs (import's verify-state can
\* only warn); create and upgrade go on to PrepareRuntime.
StartAgent(p) ==
    /\ pc[p] = "startAgent"
    /\ \/ /\ StartContainer("agent")
          /\ IF Cmd(p) \in {"create", "upgrade"}
             THEN Goto(p, "prepareRuntime") /\ UNCHANGED <<loc, lock>>
             ELSE Return(p)
       \/ GiveUp(p) /\ UNCHANGED docker
    /\ UNCHANGED <<quiesced, env>>

\* PrepareRuntime: `hb up` clears the quiesce marker first, whether or not
\* it, wire-once or doctor succeed afterwards.
PrepareRuntime(p) ==
    /\ pc[p] = "prepareRuntime"
    /\ \/ /\ own["agent"] = "box" /\ running["agent"]
          /\ quiesced' = FALSE
          /\ (Return(p) \/ GiveUp(p))
       \/ GiveUp(p) /\ UNCHANGED quiesced
    /\ UNCHANGED <<docker, env>>

\* Stop: agent first, errors collected, a missing container is skipped.
StopContainer(c) ==
    \/ /\ own[c] = "box"
       /\ running' = [running EXCEPT ![c] = FALSE]
       /\ UNCHANGED <<own, ctok, cmounts, raced>>
    \/ UNCHANGED docker

StopAgent(p) ==
    /\ pc[p] = "stopAgent"
    /\ StopContainer("agent")
    /\ Goto(p, "stopExecutor")
    /\ UNCHANGED <<quiesced, env, loc, lock>>

StopExecutor(p) ==
    /\ pc[p] = "stopExecutor"
    /\ StopContainer("executor")
    /\ Return(p)
    /\ UNCHANGED <<quiesced, env>>

-----------------------------------------------------------------------------
(* Commands on an existing box: box.Get, then each command's own checks.   *)

\* ErrNotFound, a Docker error, or a later check that refuses the command.
GetFails(p) ==
    /\ pc[p] = "get"
    /\ Return(p)
    /\ UNCHANGED <<docker, quiesced, env>>

GetForDelete(p) ==
    /\ pc[p] = "get" /\ Cmd(p) = "delete"
    /\ BoxExists
    /\ Goto(p, "inspect")
    /\ UNCHANGED <<docker, quiesced, env, loc, lock>>

\* Start needs both containers, Stop takes what is there.
GetForStart(p) ==
    /\ pc[p] = "get" /\ Cmd(p) = "start"
    /\ \A c \in Containers : own[c] = "box"
    /\ Goto(p, "startExecutor")
    /\ UNCHANGED <<docker, quiesced, env, loc, lock>>

GetForStop(p) ==
    /\ pc[p] = "get" /\ Cmd(p) = "stop"
    /\ BoxExists
    /\ Goto(p, "stopAgent")
    /\ UNCHANGED <<docker, quiesced, env, loc, lock>>

\* upgrade loads the saved mounts and builds the image, which takes minutes.
GetForUpgrade(p) ==
    /\ pc[p] = "get" /\ Cmd(p) = "upgrade"
    /\ BoxExists
    /\ loc' = [loc EXCEPT ![p].mounts = env.mounts]
    /\ Goto(p, "preflight")
    /\ UNCHANGED <<docker, quiesced, env, lock>>

\* PreflightAgentMounts, PreflightExistingObjects and Token.
PreflightUpgrade(p) ==
    /\ pc[p] = "preflight"
    /\ \/ /\ NoneForeign
          /\ env.token # NoToken
          /\ loc' = [loc EXCEPT ![p].tok = env.token,
                                ![p].targets = OwnedObjects \cap Containers]
          /\ Goto(p, "saveConfig")
          /\ UNCHANGED lock
       \/ Return(p)
    /\ UNCHANGED <<docker, quiesced, env>>

\* mount add takes a free target and mount remove a used one; anything else is
\* a no-op or an error.
MountAdds(t, s)    == env.mounts[t] = NoSource /\ s \in Sources
MountRemoves(t, s) == env.mounts[t] # NoSource /\ s = NoSource

\* applyAgentMounts reads the token, RecreateAgent the agent it will replace.
GetForMount(p) ==
    /\ pc[p] = "get" /\ Cmd(p) = "mount"
    /\ own["agent"] = "box"
    /\ env.token # NoToken
    /\ \E t \in Targets, s \in Sources \cup {NoSource} :
          /\ MountAdds(t, s) \/ MountRemoves(t, s)
          /\ loc' = [loc EXCEPT ![p].tok = env.token,
                                ![p].mounts = [env.mounts EXCEPT ![t] = s],
                                ![p].was = running["agent"]]
    /\ Goto(p, "network")
    /\ UNCHANGED <<docker, quiesced, env, lock>>

-----------------------------------------------------------------------------
(* box.Destroy, and the container removal of upgrade.                      *)

\* Ownership of every target is verified before anything is removed.
InspectTargets(p) ==
    /\ pc[p] = "inspect"
    /\ \/ /\ NoneForeign
          /\ loc' = [loc EXCEPT ![p].targets = OwnedObjects]
          /\ Goto(p, "rmAgent")
          /\ UNCHANGED lock
       \/ Return(p)
    /\ UNCHANGED <<docker, quiesced, env>>

\* Containers are removed by ID: a foreign one that took the name is safe.
\* For Destroy a container that is gone is no error, for upgrade it is.
\* upgrade stops before it removes, so a failed removal may leave it stopped.
RemoveTarget(p, c) ==
    IF c \notin loc[p].targets
    THEN UNCHANGED <<docker, loc>>
    ELSE \/ own[c] = "box" /\ RemoveContainer(c) /\ UNCHANGED loc
         \/ own[c] # "box" /\ Cmd(p) # "upgrade" /\ UNCHANGED <<docker, loc>>
         \/ /\ loc' = [loc EXCEPT ![p].errs = TRUE]
            /\ IF Cmd(p) = "upgrade" THEN StopContainer(c) ELSE UNCHANGED docker

RemoveAgent(p) ==
    /\ pc[p] = "rmAgent"
    /\ RemoveTarget(p, "agent")
    /\ Goto(p, "rmExecutor")
    /\ UNCHANGED <<quiesced, env, lock>>

RemoveExecutor(p) ==
    /\ pc[p] = "rmExecutor"
    /\ RemoveTarget(p, "executor")
    /\ Goto(p, IF Cmd(p) = "upgrade" THEN "removed" ELSE "rmNetwork")
    /\ UNCHANGED <<quiesced, env, lock>>

\* upgrade goes on to box.Create only if every container was removed.
ContainersRemoved(p) ==
    /\ pc[p] = "removed"
    /\ IF loc[p].errs THEN Return(p)
                      ELSE Goto(p, "prepareMounts") /\ UNCHANGED <<loc, lock>>
    /\ UNCHANGED <<docker, quiesced, env>>

\* Docker keeps a network a running container is attached to.
RemoveNetwork(p) ==
    /\ pc[p] = "rmNetwork"
    /\ \/ /\ "network" \notin loc[p].targets
          /\ UNCHANGED <<docker, loc>>
       \/ /\ "network" \in loc[p].targets
          /\ \A c \in Containers : ~running[c]
          /\ own' = [own EXCEPT !["network"] = "absent"]
          /\ UNCHANGED <<running, ctok, cmounts, raced, loc>>
       \/ /\ "network" \in loc[p].targets
          /\ loc' = [loc EXCEPT ![p].errs = TRUE]
          /\ UNCHANGED docker
    /\ Goto(p, "rmAgentVol")
    /\ UNCHANGED <<quiesced, env, lock>>

\* Mutant: the ownership is not checked again before a removal by name.
DropUnchecked(p, v, drop, next) ==
    /\ Goto(p, IF v \in loc[p].targets THEN drop ELSE next)
    /\ UNCHANGED <<docker, quiesced, loc>>

\* Just before a volume is removed by name its ownership is checked again.
RecheckVolume(p, v, drop, next) ==
    /\ \/ /\ v \notin loc[p].targets \/ own[v] = "absent"
          /\ Goto(p, next) /\ UNCHANGED loc
       \/ /\ v \in loc[p].targets /\ own[v] = "box"
          /\ Goto(p, drop) /\ UNCHANGED loc
       \/ /\ v \in loc[p].targets
          /\ loc' = [loc EXCEPT ![p].errs = TRUE]
          /\ Goto(p, next)
    /\ UNCHANGED <<docker, quiesced>>

\* The removal itself takes whatever has the name by then.  Docker keeps a volume
\* that any container, even a stopped one, refers to.
DropVolume(p, v, user) ==
    \/ /\ own[v] = "absent"
       /\ UNCHANGED <<docker, quiesced, loc>>
    \/ /\ own[v] # "absent" /\ own[user] # "box"
       /\ own' = [own EXCEPT ![v] = "absent"]
       /\ raced' = raced \ {v}
       /\ quiesced' = (quiesced /\ v # "agentVol")
       /\ UNCHANGED <<running, ctok, cmounts, loc>>
    \/ /\ loc' = [loc EXCEPT ![p].errs = TRUE]
       /\ UNCHANGED <<docker, quiesced>>

RecheckAgentVol(p) ==
    /\ pc[p] = "rmAgentVol"
    /\ RecheckVolume(p, "agentVol", "dropAgentVol", "rmExecVol")
    /\ UNCHANGED <<env, lock>>

RemoveAgentVol(p) ==
    /\ pc[p] = "dropAgentVol"
    /\ DropVolume(p, "agentVol", "agent")
    /\ Goto(p, "rmExecVol")
    /\ UNCHANGED <<env, lock>>

RecheckExecVol(p) ==
    /\ pc[p] = "rmExecVol"
    /\ RecheckVolume(p, "execVol", "dropExecVol", "rmEnv")
    /\ UNCHANGED <<env, lock>>

RemoveExecVol(p) ==
    /\ pc[p] = "dropExecVol"
    /\ DropVolume(p, "execVol", "executor")
    /\ Goto(p, "rmEnv")
    /\ UNCHANGED <<env, lock>>

\* Mutant: the env file goes even if a removal failed.
RemoveEnvAnyway(p) ==
    /\ pc[p] = "rmEnv"
    /\ env' = EmptyEnv
    /\ Return(p)
    /\ UNCHANGED <<docker, quiesced>>

\* The token goes last, and only if every removal above succeeded.
RemoveBoxEnv(p) ==
    /\ pc[p] = "rmEnv"
    /\ \/ ~loc[p].errs /\ env' = EmptyEnv
       \/ UNCHANGED env
    /\ Return(p)
    /\ UNCHANGED <<docker, quiesced>>

-----------------------------------------------------------------------------
(* mount add and mount remove: RecreateAgent, whose network and volume come *)
(* from the steps above, then persist.                                     *)

RecreateStop(p) ==
    /\ pc[p] = "reStop"
    /\ \/ /\ own["agent"] = "box"
          /\ running' = [running EXCEPT !["agent"] = FALSE]
          /\ Goto(p, "reRemove")
          /\ UNCHANGED <<own, ctok, cmounts, raced, loc, lock>>
       \/ Return(p) /\ UNCHANGED docker
    /\ UNCHANGED <<quiesced, env>>

RecreateRemove(p) ==
    /\ pc[p] = "reRemove"
    /\ \/ /\ own["agent"] = "box"
          /\ RemoveContainer("agent")
          /\ Goto(p, "reCreate")
          /\ UNCHANGED <<loc, lock>>
       \/ Return(p) /\ UNCHANGED docker
    /\ UNCHANGED <<quiesced, env>>

RecreateCreate(p) ==
    /\ pc[p] = "reCreate"
    /\ \/ /\ CreateContainer(p, "agent")
          /\ Goto(p, IF loc[p].was THEN "reStart" ELSE "reSave")
          /\ UNCHANGED <<loc, lock>>
       \/ Return(p) /\ UNCHANGED docker
    /\ UNCHANGED <<quiesced, env>>

\* On an old image the group setup after the start may fail as well.
RecreateStart(p) ==
    /\ pc[p] = "reStart"
    /\ \/ /\ StartContainer("agent")
          /\ \/ Goto(p, "reSave") /\ UNCHANGED <<loc, lock>>
             \/ Return(p)
       \/ Return(p) /\ UNCHANGED docker
    /\ UNCHANGED <<quiesced, env>>

\* Only now are the mounts persisted; a stopped box needs nothing more.
PersistMounts(p) ==
    /\ pc[p] = "reSave"
    /\ \/ /\ env' = [env EXCEPT !.mounts = loc[p].mounts]
          /\ IF loc[p].was THEN Goto(p, "askQuiesced") /\ UNCHANGED <<loc, lock>>
                           ELSE Return(p)
       \/ Return(p) /\ UNCHANGED env
    /\ UNCHANGED <<docker, quiesced>>

\* Mutant: the quiesce marker is not consulted.
PrepareAnyway(p) ==
    /\ pc[p] = "askQuiesced"
    /\ own["agent"] = "box" /\ running["agent"]
    /\ Goto(p, "prepareRuntime")
    /\ UNCHANGED <<docker, quiesced, env, loc, lock>>

\* AgentQuiesced: only a definite "active" goes on to PrepareRuntime.
AskQuiesced(p) ==
    /\ pc[p] = "askQuiesced"
    /\ \/ /\ own["agent"] = "box" /\ running["agent"] /\ ~quiesced
          /\ Goto(p, "prepareRuntime")
          /\ UNCHANGED <<loc, lock>>
       \/ Return(p)
    /\ UNCHANGED <<docker, quiesced, env>>

-----------------------------------------------------------------------------
(* prune, and what happens around the CLI.                                 *)

\* The earlier snapshot is stale: everything is checked again under the lock.
PruneStateFile(p) ==
    /\ pc[p] = "recheck"
    /\ \/ ~StateInUse /\ env' = EmptyEnv
       \/ UNCHANGED env
    /\ Return(p)
    /\ UNCHANGED <<docker, quiesced>>

\* The process is killed; the kernel drops its flock.
Crash(p) ==
    /\ Crashes
    /\ pc[p] # "idle"
    /\ Return(p)
    /\ UNCHANGED <<docker, quiesced, env>>

\* An operator runs `docker rm -f` on one of the box's containers.
DockerRm(c) ==
    /\ Outsiders
    /\ own[c] = "box"
    /\ RemoveContainer(c)
    /\ UNCHANGED <<quiesced, env, lock, pc, loc>>

\* The steps at which a command has looked at a volume's name and will yet use it.
Window(v) ==
    CASE v = "agentVol" -> {"makeAgentVol", "execVol", "makeExecVol", "createAgent",
                            "createExecutor", "restore", "reStop", "reRemove", "reCreate",
                            "dropAgentVol"}
      [] v = "execVol"  -> {"makeExecVol", "createAgent", "createExecutor", "dropExecVol"}

Races(o) == o \in Volumes /\ \E p \in Procs : pc[p] \in Window(o)

\* Other software creates an object of that name, without the box's labels.
TakeName(o) ==
    /\ Outsiders
    /\ own[o] = "absent"
    /\ own' = [own EXCEPT ![o] = "foreign"]
    /\ raced' = IF Races(o) THEN raced \cup {o} ELSE raced
    /\ UNCHANGED <<running, ctok, cmounts, quiesced, env, lock, pc, loc>>

\* A box that is not quiesced, or no longer, is none that mount has to leave alone.
Release(procs) == loc' = [p \in Procs |-> IF p \in procs THEN [loc[p] EXCEPT !.held = FALSE]
                                                         ELSE loc[p]]

\* An operator removes a volume that no container of the box refers to.
DockerVolumeRm(v) ==
    /\ Outsiders
    /\ own[v] = "box"
    /\ \A c \in Containers : VolumeOf(c) = v => own[c] # "box"
    /\ own' = [own EXCEPT ![v] = "absent"]
    /\ quiesced' = (quiesced /\ v # "agentVol")
    /\ Release(IF v = "agentVol" THEN Procs ELSE {})
    /\ UNCHANGED <<running, ctok, cmounts, raced, env, lock, pc>>

\* The user of a running box runs `hb pause` (tx9 enter takes no lock).
HbPause ==
    /\ own["agent"] = "box" /\ running["agent"]
    /\ quiesced' = TRUE
    /\ loc' = [p \in Procs |->
                 IF Cmd(p) = "mount" /\ pc[p] \in Locked \ {"prepareRuntime"}
                 THEN [loc[p] EXCEPT !.held = TRUE] ELSE loc[p]]
    /\ UNCHANGED <<docker, env, lock, pc>>

HbResume ==
    /\ own["agent"] = "box" /\ running["agent"]
    /\ quiesced' = FALSE
    /\ Release(Procs)
    /\ UNCHANGED <<docker, env, lock, pc>>

-----------------------------------------------------------------------------
Step(p) ==
    \/ Begin(p) \/ PruneSnapshot(p) \/ Acquire(p) \/ Crash(p)
    \/ CheckFresh(p) \/ SaveConfig(p) \/ SaveNoMounts(p) \/ SaveResources(p)
    \/ EnsureImage(p) \/ PrepareAgentMounts(p)
    \/ FindNetwork(p) \/ FindAgentVolume(p) \/ FindExecVolume(p)
    \/ CreateNetwork(p) \/ CreateAgentVolume(p) \/ CreateExecVolume(p)
    \/ CreateAgent(p) \/ CreateExecutor(p) \/ RemoveLeakedAgent(p) \/ Restore(p)
    \/ StartExecutor(p) \/ StartAgent(p) \/ PrepareRuntime(p)
    \/ StopAgent(p) \/ StopExecutor(p)
    \/ GetFails(p) \/ GetForDelete(p) \/ GetForStart(p) \/ GetForStop(p)
    \/ GetForUpgrade(p) \/ PreflightUpgrade(p) \/ GetForMount(p)
    \/ InspectTargets(p) \/ RemoveAgent(p) \/ RemoveExecutor(p)
    \/ ContainersRemoved(p) \/ RemoveNetwork(p) \/ RecheckAgentVol(p)
    \/ RemoveAgentVol(p) \/ RecheckExecVol(p) \/ RemoveExecVol(p) \/ RemoveBoxEnv(p)
    \/ RecreateStop(p) \/ RecreateRemove(p) \/ RecreateCreate(p) \/ RecreateStart(p)
    \/ PersistMounts(p) \/ AskQuiesced(p) \/ PruneStateFile(p)

Next ==
    \/ \E p \in Procs : Step(p)
    \/ \E c \in Containers : DockerRm(c)
    \/ \E o \in Objects : TakeName(o)
    \/ \E v \in Volumes : DockerVolumeRm(v)
    \/ HbPause
    \/ HbResume

Spec == Init /\ [][Next]_vars

-----------------------------------------------------------------------------
(* Properties.                                                             *)

\* As long as one Docker object of the box is left, whatever failed or was
\* killed, the env file still holds its token, and both containers were given
\* that token (Destroy's order and error collection, pruneStateFile's
\* recheck, SaveExecutorConfig before box.Create).
EnvDescribesBox ==
    /\ OwnedObjects # {} => env.token # NoToken
    /\ \A c \in Containers : own[c] = "box" => ctok[c] = env.token

\* A container of the box sits on a volume of the box, so `hb` and the restore
\* script do not write to somebody else's data, except where Docker leaves no way
\* to tell: the volume came under its name between a command's look at the name
\* and its use (ensureVolume's refusal, Destroy's order).
VolumesBacked ==
    \A c \in Containers :
        own[c] = "box" => own[VolumeOf(c)] = "box" \/ VolumeOf(c) \in raced

\* What is about to be wiped or removed as the agent volume is the box's durable
\* identity only for delete, or for the very create or import that made it, and
\* somebody else's data only if that came under the name since the command last
\* looked (PreflightFreshObjects under the lock; Destroy after a failed create).
DurableDataSafe ==
    \A p \in Procs : pc[p] \in {"restore", "dropAgentVol"} =>
        /\ own["agentVol"] = "box" => Cmd(p) = "delete" \/ loc[p].made
        /\ own["agentVol"] = "foreign" => "agentVol" \in raced

\* Whatever the operators do meanwhile, tx9 removes or relabels an object that is
\* not its own in one case only: the removal of a volume by name, when that volume
\* came under the name after the ownership was checked again (inspectDestroyTargets,
\* removal by ID, Destroy's recheck and its comment on the window that is left).
ForeignUntouched ==
    [][\A o \in Objects : own[o] = "foreign" /\ own'[o] # "foreign" =>
          /\ o \in raced
          /\ \E p \in Procs : pc[p] \in {"dropAgentVol", "dropExecVol"}]_vars

\* The agent container and the saved mount set differ in at most one target:
\* the one the interrupted mount command was changing, so that repeating the
\* command is never skipped as a no-op (applyAgentMounts, SaveAgentMounts(nil)
\* in create and import).
MountsDivergeByOne ==
    own["agent"] = "box" =>
        \A t, u \in Targets : cmounts[t] # env.mounts[t] /\ cmounts[u] # env.mounts[u]
                               => t = u

\* mount leaves a stopped box stopped, and quiesced a box that is quiesced when
\* it asks, however it came to be so since the command began; a pause that takes
\* effect after the answer is undone (RecreateAgent's wasRunning, applyAgentMounts'
\* AgentQuiesced).
MountKeepsBoxAtRest ==
    [][\A p \in Procs : Cmd(p) = "mount" /\ pc[p] \in Locked /\ pc'[p] # pc[p] =>
          /\ running'["agent"] /\ ~running["agent"] => loc[p].ran
          /\ quiesced /\ ~quiesced' => ~loc[p].held]_vars

\* What cmdUpgrade's comment and its two error messages promise: a box whose
\* upgrade fails is still one that `tx9 upgrade` finds, so the upgrade can be
\* run again without manual cleanup.
UpgradeRetryable ==
    [][\A p \in Procs : Cmd(p) = "upgrade" /\ pc[p] \in Locked /\ pc'[p] = "idle"
                        /\ pc[p] # "get" => BoxExists']_vars

=============================================================================
