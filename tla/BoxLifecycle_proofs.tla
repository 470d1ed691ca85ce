------------------------ MODULE BoxLifecycle_proofs ------------------------
(***************************************************************************)
(* Proofs about BoxLifecycle, for any number of processes, tokens, mounts  *)
(* and any set of commands.                                                *)
(***************************************************************************)
EXTENDS BoxLifecycle, TLAPS

-----------------------------------------------------------------------------
(* Type correctness.                                                       *)

\* What Goto and Return do to the types of the variables they assign.
LEMMA GotoType ==
    ASSUME TypeOK, NEW p \in Procs, NEW step \in Unlocked \cup Locked, Goto(p, step)
    PROVE  pc' \in [Procs -> Unlocked \cup Locked]
BY DEF TypeOK, Goto

LEMMA NoMountsType == NoMounts \in MountSets
BY DEF NoMounts, MountSets

LEMMA IdleType == Idle \in Locals
BY NoMountsType DEF Idle, Locals

LEMMA ReturnType ==
    ASSUME TypeOK, NEW p \in Procs, Return(p)
    PROVE  /\ pc' \in [Procs -> Unlocked \cup Locked]
           /\ loc' \in [Procs -> Locals]
           /\ lock' \in Procs \cup {NoProc}
BY IdleType DEF TypeOK, Return, Unlocked

LEMMA GiveUpType ==
    ASSUME TypeOK, NEW p \in Procs, GiveUp(p)
    PROVE  /\ pc' \in [Procs -> Unlocked \cup Locked]
           /\ loc' \in [Procs -> Locals]
           /\ lock' \in Procs \cup {NoProc}
BY ReturnType, GotoType DEF TypeOK, GiveUp, Locked

\* The types of each group of variables.
DockerType ==
    /\ own \in [Objects -> {"absent", "box", "foreign"}]
    /\ running \in [Containers -> BOOLEAN]
    /\ ctok \in [Containers -> Tokens \cup {NoToken}]
    /\ cmounts \in MountSets
    /\ raced \in SUBSET Volumes
ControlType ==
    /\ lock \in Procs \cup {NoProc}
    /\ pc \in [Procs -> Unlocked \cup Locked]
    /\ loc \in [Procs -> Locals]

LEMMA LocType ==
    ASSUME TypeOK, NEW p \in Procs
    PROVE  /\ loc[p] \in Locals
           /\ loc[p].tok \in Tokens \cup {NoToken}
           /\ loc[p].mounts \in MountSets
           /\ loc[p].cmd \in AllCommands \cup {"none"}
BY DEF TypeOK, Locals

LEMMA LocUpdates ==
    ASSUME TypeOK, NEW p \in Procs
    PROVE  /\ \A x \in AllCommands : [loc EXCEPT ![p].cmd = x] \in [Procs -> Locals]
           /\ \A x \in Tokens \cup {NoToken} : [loc EXCEPT ![p].tok = x] \in [Procs -> Locals]
           /\ \A x \in MountSets : [loc EXCEPT ![p].mounts = x] \in [Procs -> Locals]
           /\ \A x \in SUBSET Objects : [loc EXCEPT ![p].targets = x] \in [Procs -> Locals]
           /\ \A x \in BOOLEAN : [loc EXCEPT ![p].errs = x] \in [Procs -> Locals]
           /\ \A x \in BOOLEAN : [loc EXCEPT ![p].made = x] \in [Procs -> Locals]
BY DEF TypeOK, Locals

\* What each Docker call does to the types of the Docker objects.
LEMMA UnchangedDockerType ==
    ASSUME TypeOK, UNCHANGED docker
    PROVE  DockerType'
BY DEF TypeOK, DockerType, docker

LEMMA MakeVolumeType ==
    ASSUME TypeOK, NEW v \in Volumes, MakeVolume(v)
    PROVE  DockerType'
BY DEF TypeOK, DockerType, MakeVolume

LEMMA MakeNetworkType ==
    ASSUME TypeOK, MakeNetwork
    PROVE  DockerType'
BY DEF TypeOK, DockerType, MakeNetwork

LEMMA BindVolumeType ==
    ASSUME TypeOK, NEW v \in Volumes, BindVolume(v, own)
    PROVE  /\ own' \in [Objects -> {"absent", "box", "foreign"}]
           /\ raced' \in SUBSET Volumes
BY DEF TypeOK, BindVolume

LEMMA CreateContainerType ==
    ASSUME TypeOK, NEW p \in Procs, NEW c \in Containers, CreateContainer(p, c)
    PROVE  DockerType'
<1>1. loc[p].tok \in Tokens \cup {NoToken} /\ loc[p].mounts \in MountSets
    BY LocType
<1>2. c \in Objects /\ VolumeOf(c) \in Volumes
    BY DEF Objects, VolumeOf, Volumes
<1>3. BindVolume(VolumeOf(c), [own EXCEPT ![c] = "box"])
    BY DEF CreateContainer
<1>4. [own EXCEPT ![c] = "box"] \in [Objects -> {"absent", "box", "foreign"}]
    BY <1>2 DEF TypeOK
<1>5. own' \in [Objects -> {"absent", "box", "foreign"}] /\ raced' \in SUBSET Volumes
    BY <1>2, <1>3, <1>4 DEF BindVolume, TypeOK
<1> QED
    BY <1>1, <1>5 DEF TypeOK, DockerType, CreateContainer

LEMMA RemoveContainerType ==
    ASSUME TypeOK, NEW c \in Containers, RemoveContainer(c)
    PROVE  DockerType'
<1>1. c \in Objects
    BY DEF Objects
<1> QED
    BY <1>1, NoMountsType DEF TypeOK, DockerType, RemoveContainer

LEMMA StartContainerType ==
    ASSUME TypeOK, NEW c \in Containers, StartContainer(c)
    PROVE  DockerType'
BY DEF TypeOK, DockerType, StartContainer

LEMMA StopContainerType ==
    ASSUME TypeOK, NEW c \in Containers, StopContainer(c)
    PROVE  DockerType'
BY UnchangedDockerType DEF TypeOK, DockerType, StopContainer

LEMMA RemoveTargetType ==
    ASSUME TypeOK, NEW p \in Procs, NEW c \in Containers, RemoveTarget(p, c)
    PROVE  DockerType' /\ loc' \in [Procs -> Locals]
<1>1. UNCHANGED docker => DockerType'
    BY UnchangedDockerType
<1>2. RemoveContainer(c) => DockerType'
    BY RemoveContainerType
<1>3. StopContainer(c) => DockerType'
    BY StopContainerType
<1>4. loc' = loc => loc' \in [Procs -> Locals]
    BY DEF TypeOK
<1>5. [loc EXCEPT ![p].errs = TRUE] \in [Procs -> Locals]
    BY LocUpdates
<1> QED
    BY <1>1, <1>2, <1>3, <1>4, <1>5 DEF RemoveTarget

LEMMA DropVolumeType ==
    ASSUME TypeOK, NEW p \in Procs, NEW v \in Volumes, NEW c \in Containers,
           DropVolume(p, v, c)
    PROVE  DockerType' /\ loc' \in [Procs -> Locals] /\ quiesced' \in BOOLEAN
<1>1. UNCHANGED docker => DockerType'
    BY UnchangedDockerType
<1>2. (loc' = loc => loc' \in [Procs -> Locals]) /\ quiesced \in BOOLEAN
    BY DEF TypeOK
<1>3. [loc EXCEPT ![p].errs = TRUE] \in [Procs -> Locals]
    BY LocUpdates
<1>5. own' = [own EXCEPT ![v] = "absent"] /\ raced' = raced \ {v}
      /\ UNCHANGED <<running, ctok, cmounts>> => DockerType'
    BY DEF TypeOK, DockerType
<1> QED
    BY <1>1, <1>2, <1>3, <1>5 DEF DropVolume

\* The three groups of variables make up TypeOK.
LEMMA TypeGroups ==
    ASSUME DockerType', ControlType', quiesced' \in BOOLEAN,
           env' \in [token : Tokens \cup {NoToken}, mounts : MountSets]
    PROVE  TypeOK'
BY DEF TypeOK, DockerType, ControlType

\* Goto with the locals and the lock left alone, or a return, or giving up.
LEMMA ControlMoves ==
    ASSUME TypeOK, NEW p \in Procs
    PROVE  /\ \A step \in Unlocked \cup Locked :
                 Goto(p, step) /\ UNCHANGED <<loc, lock>> => ControlType'
           /\ \A step \in Unlocked \cup Locked :
                 Goto(p, step) /\ UNCHANGED lock /\ loc' \in [Procs -> Locals]
                    => ControlType'
           /\ Return(p) => ControlType'
           /\ GiveUp(p) => ControlType'
BY GotoType, ReturnType, GiveUpType DEF TypeOK, ControlType

\* The steps that leave Docker, the markers and the env file alone and keep
\* their locals.
LEMMA ControlOnlyType ==
    ASSUME TypeOK, NEW p \in Procs,
           \/ PruneSnapshot(p) \/ CheckFresh(p) \/ SaveResources(p) \/ EnsureImage(p)
           \/ PrepareAgentMounts(p) \/ ContainersRemoved(p) \/ AskQuiesced(p)
           \/ GetFails(p) \/ Crash(p) \/ GetForDelete(p) \/ GetForStart(p) \/ GetForStop(p)
           \/ FindNetwork(p) \/ FindAgentVolume(p) \/ FindExecVolume(p)
    PROVE  TypeOK'
<1>a. AfterAgentVolume(p) \in Unlocked \cup Locked
    BY DEF AfterAgentVolume, Locked
<1>1. ControlType'
    BY <1>a, ControlMoves DEF FindNetwork, FindAgentVolume, FindExecVolume, Find, PruneSnapshot, CheckFresh, SaveResources, EnsureImage,
       PrepareAgentMounts, ContainersRemoved, AskQuiesced, GetFails, Crash, GetForDelete,
       GetForStart, GetForStop, Unlocked, Locked
<1>2. UNCHANGED <<docker, quiesced, env>>
    BY DEF FindNetwork, FindAgentVolume, FindExecVolume, Find, PruneSnapshot, CheckFresh, SaveResources, EnsureImage,
       PrepareAgentMounts, ContainersRemoved, AskQuiesced, GetFails, Crash, GetForDelete,
       GetForStart, GetForStop
<1> QED
    BY <1>1, <1>2, UnchangedDockerType, TypeGroups DEF TypeOK

\* The steps that make one Docker call.
LEMMA DockerStepType ==
    ASSUME TypeOK, NEW p \in Procs,
           \/ CreateNetwork(p) \/ CreateExecVolume(p) \/ CreateAgent(p) \/ CreateExecutor(p)
           \/ RemoveLeakedAgent(p) \/ StartExecutor(p) \/ StartAgent(p)
           \/ StopAgent(p) \/ StopExecutor(p) \/ RecreateStop(p)
           \/ RecreateRemove(p) \/ RecreateCreate(p) \/ RecreateStart(p)
    PROVE  TypeOK'
<1> USE DEF Unlocked, Locked
<1>o. "execVol" \in Volumes /\ {"agent", "executor"} \subseteq Containers
    BY DEF Volumes, Containers
<1>s. own' = own /\ ctok' = ctok /\ cmounts' = cmounts /\ raced' = raced
      /\ running' = [running EXCEPT !["agent"] = FALSE] => DockerType'
    BY DEF TypeOK, DockerType
<1>1. DockerType'
    BY <1>o, <1>s, UnchangedDockerType, MakeVolumeType, MakeNetworkType, CreateContainerType, RemoveContainerType,
       StartContainerType, StopContainerType
       DEF CreateNetwork, CreateExecVolume, CreateAgent, CreateExecutor, RemoveLeakedAgent,
           StartExecutor, StartAgent, StopAgent, StopExecutor, RecreateStop,
           RecreateRemove, RecreateCreate, RecreateStart
<1>2. ControlType'
    BY ControlMoves
       DEF CreateNetwork, CreateExecVolume, CreateAgent, CreateExecutor, RemoveLeakedAgent,
           StartExecutor, StartAgent, StopAgent, StopExecutor, RecreateStop,
           RecreateRemove, RecreateCreate, RecreateStart
<1>3. UNCHANGED <<quiesced, env>>
    BY DEF CreateNetwork, CreateExecVolume, CreateAgent, CreateExecutor, RemoveLeakedAgent,
           StartExecutor, StartAgent, StopAgent, StopExecutor, RecreateStop,
           RecreateRemove, RecreateCreate, RecreateStart
<1> QED
    BY <1>1, <1>2, <1>3, TypeGroups DEF TypeOK

\* The steps of box.Destroy and of the container removal of upgrade.
LEMMA RemovalType ==
    ASSUME TypeOK, NEW p \in Procs,
           \/ InspectTargets(p) \/ RemoveAgent(p) \/ RemoveExecutor(p) \/ RemoveNetwork(p)
           \/ RecheckAgentVol(p) \/ RemoveAgentVol(p) \/ RecheckExecVol(p) \/ RemoveExecVol(p)
           \/ RemoveBoxEnv(p) \/ PruneStateFile(p)
    PROVE  TypeOK'
<1> USE DEF Unlocked, Locked
<1>e. env \in [token : Tokens \cup {NoToken}, mounts : MountSets] /\ quiesced \in BOOLEAN
    BY DEF TypeOK
<1>1. CASE InspectTargets(p)
  <2>1. OwnedObjects \in SUBSET Objects
      BY DEF OwnedObjects
  <2>3. [loc EXCEPT ![p].targets = OwnedObjects] \in [Procs -> Locals]
      BY <2>1, LocUpdates
  <2>2. ControlType'
      BY <1>1, <2>3, ControlMoves DEF InspectTargets
  <2> QED
      BY <1>1, <1>e, <2>2, UnchangedDockerType, TypeGroups DEF InspectTargets
<1>2. CASE RemoveAgent(p) \/ RemoveExecutor(p)
  <2>1. DockerType' /\ loc' \in [Procs -> Locals]
      BY <1>2, RemoveTargetType DEF RemoveAgent, RemoveExecutor, Containers
  <2>2. ControlType'
      BY <1>2, <2>1, ControlMoves DEF RemoveAgent, RemoveExecutor
  <2> QED
      BY <1>2, <1>e, <2>1, <2>2, TypeGroups DEF RemoveAgent, RemoveExecutor
<1>3. CASE RemoveNetwork(p)
  <2>1. DockerType'
      BY <1>3, UnchangedDockerType DEF RemoveNetwork, TypeOK, DockerType, Objects
  <2>4. [loc EXCEPT ![p].errs = TRUE] \in [Procs -> Locals] /\ loc \in [Procs -> Locals]
      BY LocUpdates DEF TypeOK
  <2>2. loc' \in [Procs -> Locals]
      BY <1>3, <2>4 DEF RemoveNetwork
  <2>3. ControlType'
      BY <1>3, <2>2, ControlMoves DEF RemoveNetwork
  <2> QED
      BY <1>3, <1>e, <2>1, <2>3, TypeGroups DEF RemoveNetwork
<1>4. CASE RemoveAgentVol(p) \/ RemoveExecVol(p)
  <2>1. DockerType' /\ loc' \in [Procs -> Locals] /\ quiesced' \in BOOLEAN
      BY <1>4, DropVolumeType DEF RemoveAgentVol, RemoveExecVol, Containers, Volumes
  <2>2. ControlType'
      BY <1>4, <2>1, ControlMoves DEF RemoveAgentVol, RemoveExecVol
  <2> QED
      BY <1>4, <1>e, <2>1, <2>2, TypeGroups DEF RemoveAgentVol, RemoveExecVol
<1>5. CASE RemoveBoxEnv(p) \/ PruneStateFile(p)
  <2>1. EmptyEnv \in [token : Tokens \cup {NoToken}, mounts : MountSets]
      BY NoMountsType DEF EmptyEnv
  <2>2. ControlType'
      BY <1>5, ControlMoves DEF RemoveBoxEnv, PruneStateFile
  <2> QED
      BY <1>5, <1>e, <2>1, <2>2, UnchangedDockerType, TypeGroups DEF RemoveBoxEnv, PruneStateFile
<1>6. CASE RecheckAgentVol(p) \/ RecheckExecVol(p)
  <2>1. UNCHANGED docker /\ UNCHANGED <<quiesced, env, lock>>
      BY <1>6 DEF RecheckAgentVol, RecheckExecVol, RecheckVolume
  <2>2. [loc EXCEPT ![p].errs = TRUE] \in [Procs -> Locals] /\ loc \in [Procs -> Locals]
      BY LocUpdates DEF TypeOK
  <2>3. loc' \in [Procs -> Locals]
      BY <1>6, <2>2 DEF RecheckAgentVol, RecheckExecVol, RecheckVolume
  <2>4. PICK step \in Locked : Goto(p, step)
      BY <1>6 DEF RecheckAgentVol, RecheckExecVol, RecheckVolume
  <2>5. ControlType'
      BY <2>1, <2>3, <2>4, ControlMoves
  <2> QED
      BY <1>e, <2>1, <2>5, UnchangedDockerType, TypeGroups
<1> QED
    BY <1>1, <1>2, <1>3, <1>4, <1>5, <1>6

\* The steps that assign locals, the env file or the quiesce marker.
LEMMA DataStepType ==
    ASSUME TypeOK, NEW p \in Procs,
           \/ Begin(p) \/ Acquire(p) \/ SaveConfig(p) \/ SaveNoMounts(p)
           \/ CreateAgentVolume(p) \/ Restore(p) \/ PrepareRuntime(p) \/ GetForUpgrade(p)
           \/ PreflightUpgrade(p) \/ GetForMount(p) \/ PersistMounts(p)
    PROVE  TypeOK'
<1> USE DEF Unlocked, Locked
<1>e. env \in [token : Tokens \cup {NoToken}, mounts : MountSets] /\ quiesced \in BOOLEAN
    BY DEF TypeOK
<1>d. UNCHANGED docker => DockerType'
    BY UnchangedDockerType
<1>l. loc \in [Procs -> Locals] /\ loc[p] \in Locals /\ loc[p].mounts \in MountSets
    BY LocType DEF TypeOK
<1>v. "agentVol" \in Volumes /\ "agent" \in Containers
    BY DEF Volumes, Containers
<1>1. CASE Begin(p)
  <2>1. PICK c \in Commands : /\ loc' = [loc EXCEPT ![p].cmd = c]
                              /\ Goto(p, IF c = "prune" THEN "snapshot" ELSE "acquire")
      BY <1>1 DEF Begin
  <2>2. c \in AllCommands
      BY ConstantsAssumption
  <2>3. [loc EXCEPT ![p].cmd = c] \in [Procs -> Locals]
      BY <2>2, LocUpdates
  <2>4. ControlType'
      BY <1>1, <2>1, <2>3, ControlMoves DEF Begin
  <2> QED
      BY <1>1, <1>d, <1>e, <2>4, TypeGroups DEF Begin
<1>2. CASE Acquire(p)
  <2>1. running["agent"] \in BOOLEAN
      BY <1>v DEF TypeOK
  <2>2. [loc EXCEPT ![p].ran = (Cmd(p) = "mount" /\ running["agent"]),
                    ![p].held = (Cmd(p) = "mount" /\ quiesced)] \in [Procs -> Locals]
      BY <2>1, <1>e, <1>l DEF Locals
  <2>3. FirstStep(Cmd(p)) \in Locked
      BY DEF FirstStep
  <2>4. ASSUME lock = NoProc, lock' = p, Goto(p, FirstStep(Cmd(p))),
               loc' = [loc EXCEPT ![p].ran = (Cmd(p) = "mount" /\ running["agent"]),
                                  ![p].held = (Cmd(p) = "mount" /\ quiesced)]
        PROVE  ControlType'
      BY <2>2, <2>3, <2>4, GotoType DEF ControlType
  <2>5. ControlType'
      BY <1>2, <2>4, ControlMoves DEF Acquire
  <2> QED
      BY <1>2, <1>d, <1>e, <2>5, TypeGroups DEF Acquire
<1>3. CASE SaveConfig(p)
  <2>1. ASSUME NEW t \in Tokens
        PROVE  [env EXCEPT !.token = t] \in [token : Tokens \cup {NoToken}, mounts : MountSets]
      BY <1>e
  <2>2. ASSUME NEW t \in Tokens
        PROVE  [loc EXCEPT ![p].tok = t] \in [Procs -> Locals]
      BY LocUpdates
  <2>3. ControlType'
      BY <1>3, <2>2, ControlMoves DEF SaveConfig
  <2>4. env' \in [token : Tokens \cup {NoToken}, mounts : MountSets]
      BY <1>3, <1>e, <2>1 DEF SaveConfig
  <2> QED
      BY <1>3, <1>d, <1>e, <2>3, <2>4, TypeGroups DEF SaveConfig
<1>4. CASE SaveNoMounts(p)
  <2>1. env' \in [token : Tokens \cup {NoToken}, mounts : MountSets]
      BY <1>4, <1>e, NoMountsType DEF SaveNoMounts
  <2>2. ControlType'
      BY <1>4, ControlMoves DEF SaveNoMounts
  <2> QED
      BY <1>4, <1>d, <1>e, <2>1, <2>2, TypeGroups DEF SaveNoMounts
<1>5. CASE CreateAgentVolume(p)
  <2>1. [loc EXCEPT ![p].made = (own["agentVol"] = "absent")] \in [Procs -> Locals]
      BY LocUpdates
  <2>a. AfterAgentVolume(p) \in Locked
      BY DEF AfterAgentVolume
  <2>2. ControlType'
      BY <1>5, <2>1, <2>a, ControlMoves DEF CreateAgentVolume
  <2>3. DockerType'
      BY <1>5, <1>d, <1>v, MakeVolumeType DEF CreateAgentVolume
  <2> QED
      BY <1>5, <1>e, <2>2, <2>3, TypeGroups DEF CreateAgentVolume
<1>6. CASE Restore(p) \/ PrepareRuntime(p)
  <2>1. ControlType'
      BY <1>6, ControlMoves DEF Restore, PrepareRuntime
  <2>2. quiesced' \in BOOLEAN
      BY <1>6, <1>e DEF Restore, PrepareRuntime
  <2>3. DockerType'
      BY <1>6, <1>d, <1>v, BindVolumeType DEF Restore, PrepareRuntime, TypeOK, DockerType
  <2> QED
      BY <1>6, <1>e, <2>1, <2>2, <2>3, TypeGroups DEF Restore, PrepareRuntime
<1>7. CASE GetForUpgrade(p)
  <2>1. [loc EXCEPT ![p].mounts = env.mounts] \in [Procs -> Locals]
      BY <1>e, LocUpdates
  <2>2. ControlType'
      BY <1>7, <2>1, ControlMoves DEF GetForUpgrade
  <2> QED
      BY <1>7, <1>d, <1>e, <2>2, TypeGroups DEF GetForUpgrade
<1>8. CASE PreflightUpgrade(p)
  <2>1. OwnedObjects \cap Containers \in SUBSET Objects
      BY DEF OwnedObjects
  <2>2. [loc EXCEPT ![p].tok = env.token, ![p].targets = OwnedObjects \cap Containers]
            \in [Procs -> Locals]
      BY <1>e, <1>l, <2>1 DEF Locals
  <2>3. ControlType'
      BY <1>8, <2>2, ControlMoves DEF PreflightUpgrade
  <2> QED
      BY <1>8, <1>d, <1>e, <2>3, TypeGroups DEF PreflightUpgrade
<1>9. CASE GetForMount(p)
  <2>1. PICK t \in Targets, s \in Sources \cup {NoSource} :
            loc' = [loc EXCEPT ![p].tok = env.token,
                               ![p].mounts = [env.mounts EXCEPT ![t] = s],
                               ![p].was = running["agent"]]
      BY <1>9 DEF GetForMount
  <2>2. [env.mounts EXCEPT ![t] = s] \in MountSets /\ running["agent"] \in BOOLEAN
      BY <1>e, <1>v DEF MountSets, TypeOK
  <2>3. loc' \in [Procs -> Locals]
      BY <1>e, <1>l, <2>1, <2>2 DEF Locals
  <2>4. ControlType'
      BY <1>9, <2>3, ControlMoves DEF GetForMount
  <2> QED
      BY <1>9, <1>d, <1>e, <2>4, TypeGroups DEF GetForMount
<1>10. CASE PersistMounts(p)
  <2>1. env' \in [token : Tokens \cup {NoToken}, mounts : MountSets]
      BY <1>10, <1>e, <1>l DEF PersistMounts
  <2>2. ControlType'
      BY <1>10, ControlMoves DEF PersistMounts
  <2> QED
      BY <1>10, <1>d, <1>e, <2>1, <2>2, TypeGroups DEF PersistMounts
<1> QED
    BY <1>1, <1>2, <1>3, <1>4, <1>5, <1>6, <1>7, <1>8, <1>9, <1>10

\* What happens around the CLI.
LEMMA OutsideType ==
    ASSUME TypeOK,
           \/ \E c \in Containers : DockerRm(c)
           \/ \E o \in Objects : TakeName(o)
           \/ \E v \in Volumes : DockerVolumeRm(v)
           \/ HbPause \/ HbResume
    PROVE  TypeOK'
<1>e. env \in [token : Tokens \cup {NoToken}, mounts : MountSets] /\ quiesced \in BOOLEAN
      /\ ControlType /\ DockerType
    BY DEF TypeOK, ControlType, DockerType
<1>r. \A q \in Procs : loc[q] \in Locals /\ [loc[q] EXCEPT !.held = FALSE] \in Locals
                       /\ [loc[q] EXCEPT !.held = TRUE] \in Locals
    BY <1>e DEF ControlType, Locals
<1>l. ASSUME NEW procs, Release(procs) PROVE loc' \in [Procs -> Locals]
    BY <1>r, <1>l DEF Release
<1>1. CASE \E c \in Containers : DockerRm(c)
    BY <1>1, <1>e, RemoveContainerType, TypeGroups DEF DockerRm, ControlType
<1>2. CASE \E o \in Objects : TakeName(o)
    BY <1>2, <1>e, TypeGroups DEF TakeName, ControlType, DockerType, Races
<1>3. CASE HbPause
  <2>1. loc' \in [Procs -> Locals]
      BY <1>3, <1>r DEF HbPause
  <2> QED
      BY <1>3, <1>e, <2>1, UnchangedDockerType, TypeGroups DEF HbPause, ControlType
<1>4. CASE HbResume
    BY <1>4, <1>e, <1>l, UnchangedDockerType, TypeGroups DEF HbResume, ControlType
<1>5. CASE \E v \in Volumes : DockerVolumeRm(v)
  <2>1. PICK v \in Volumes : DockerVolumeRm(v)
      BY <1>5
  <2>2. loc' \in [Procs -> Locals]
      BY <1>l, <2>1 DEF DockerVolumeRm
  <2>3. DockerType'
      BY <1>e, <2>1 DEF DockerVolumeRm, DockerType
  <2> QED
      BY <1>e, <2>1, <2>2, <2>3, TypeGroups DEF DockerVolumeRm, ControlType
<1> QED
    BY <1>1, <1>2, <1>3, <1>4, <1>5

LEMMA TypeStep == TypeOK /\ [Next]_vars => TypeOK'
<1> SUFFICES ASSUME TypeOK, [Next]_vars PROVE TypeOK'
    OBVIOUS
<1>1. CASE \E p \in Procs : Step(p)
    BY <1>1, ControlOnlyType, DockerStepType, RemovalType, DataStepType DEF Step
<1>2. CASE UNCHANGED vars
    BY <1>2 DEF vars, TypeOK
<1> QED
    BY <1>1, <1>2, OutsideType DEF Next

LEMMA TypeInit == Init => TypeOK
<1> SUFFICES ASSUME Init PROVE TypeOK
    OBVIOUS
<1>1. EmptyEnv \in [token : Tokens \cup {NoToken}, mounts : MountSets]
    BY NoMountsType DEF EmptyEnv
<1> QED
    BY <1>1, NoMountsType, IdleType DEF Init, TypeOK, Unlocked

\* Every variable keeps its type, whatever fails, crashes or interferes: in
\* particular no command ever reaches a step that does not exist.
THEOREM TypeCorrect == Spec => []TypeOK
BY TypeInit, TypeStep, PTL DEF Spec

-----------------------------------------------------------------------------
(* The inductive invariant.                                                *)

Fresh == {"create", "import"}

\* Which commands can be at which step.
Flow(p) ==
    /\ pc[p] \in {"fresh", "saveMounts", "image", "restore"} => Cmd(p) \in Fresh
    /\ pc[p] \in {"saveConfig", "saveResources", "prepareMounts", "execVol", "makeExecVol",
                  "createAgent", "createExecutor", "removeLeaked"}
           => Cmd(p) \in Fresh \cup {"upgrade"}
    /\ pc[p] \in {"network", "makeNetwork", "agentVol", "makeAgentVol"}
           => Cmd(p) \in Fresh \cup {"upgrade", "mount"}
    /\ pc[p] \in {"removed", "preflight"} => Cmd(p) = "upgrade"
    /\ pc[p] \in {"inspect", "rmNetwork", "rmAgentVol", "dropAgentVol", "rmExecVol",
                  "dropExecVol", "rmEnv"} => Cmd(p) \in Fresh \cup {"delete"}
    /\ pc[p] \in {"rmAgent", "rmExecutor"} => Cmd(p) \in Fresh \cup {"upgrade", "delete"}
    /\ pc[p] \in {"reStop", "reRemove", "reCreate", "reStart", "reSave", "askQuiesced"}
           => Cmd(p) = "mount"
    /\ pc[p] = "get" => Cmd(p) \notin Fresh

\* Only the holder of the lock is past the acquisition.
Exclusive(p) == pc[p] \in Locked => lock = p

\* A create or import has found nothing and made nothing yet.
StillFresh(p) ==
    Cmd(p) \in Fresh =>
        /\ pc[p] \in {"saveConfig", "saveMounts", "saveResources", "image", "prepareMounts",
                      "network", "makeNetwork"} => \A o \in Objects : own[o] # "box"
        /\ pc[p] \in {"agentVol", "makeAgentVol"} => own["agentVol"] # "box"

\* From the moment a command has its token, it is the one in the env file.
TokenSaved(p) ==
    \/ pc[p] \in {"saveMounts", "saveResources", "image", "prepareMounts", "network",
                  "makeNetwork", "agentVol", "makeAgentVol", "execVol", "makeExecVol",
                  "createAgent", "createExecutor", "reStop", "reRemove", "reCreate", "removed"}
    \/ Cmd(p) = "upgrade" /\ pc[p] \in {"saveConfig", "rmAgent", "rmExecutor"}
    => loc[p].tok = env.token /\ env.token # NoToken

\* What a command found not to be somebody else's is so still, or was raced.
WindowKnown(p) ==
    /\ pc[p] \in Window("agentVol") /\ own["agentVol"] = "foreign" => "agentVol" \in raced
    /\ pc[p] \in Window("execVol") /\ own["execVol"] = "foreign" => "execVol" \in raced

\* A create or import that has an agent volume made it.
MadeIt(p) ==
    Cmd(p) \in Fresh =>
        /\ pc[p] \in {"execVol", "makeExecVol", "createAgent", "createExecutor",
                      "removeLeaked", "restore", "startExecutor", "startAgent",
                      "prepareRuntime", "inspect"}
              /\ own["agentVol"] = "box" => loc[p].made
        /\ pc[p] \in {"rmAgent", "rmExecutor", "rmNetwork", "rmAgentVol"}
           /\ "agentVol" \in loc[p].targets => loc[p].made
        /\ pc[p] = "dropAgentVol" => loc[p].made

\* What Destroy has found and not yet removed is all there is, unless a
\* removal failed.
Left(step) ==
    CASE step = "rmAgent"    -> Objects
      [] step = "rmExecutor" -> Objects \ {"agent"}
      [] step = "rmNetwork"  -> Volumes \cup {"network"}
      [] step \in {"rmAgentVol", "dropAgentVol"} -> Volumes
      [] step \in {"rmExecVol", "dropExecVol"}   -> {"execVol"}
      [] OTHER               -> {}

DestroySteps == {"rmAgent", "rmExecutor", "rmNetwork", "rmAgentVol", "dropAgentVol",
                 "rmExecVol", "dropExecVol", "rmEnv"}

TargetsCover(p) ==
    Cmd(p) # "upgrade" =>
        /\ pc[p] \in DestroySteps
              => \A o \in Objects : own[o] = "box" =>
                    o \in loc[p].targets /\ (loc[p].errs \/ o \in Left(pc[p]))
        /\ pc[p] \in {"rmAgent", "rmExecutor", "rmNetwork"} /\ "network" \in loc[p].targets
              => own["network"] = "box"

ProcInv(p) ==
    /\ Flow(p) /\ Exclusive(p) /\ StillFresh(p) /\ TokenSaved(p)
    /\ WindowKnown(p) /\ MadeIt(p) /\ TargetsCover(p)

IInv ==
    /\ TypeOK
    /\ \A p \in Procs : ProcInv(p)
    /\ EnvDescribesBox
    /\ VolumesBacked

-----------------------------------------------------------------------------
(* IInv is inductive.                                                      *)

\* A process that holds no lock satisfies everything said of processes.
LEMMA UnlockedInv ==
    ASSUME NEW q \in Procs, pc[q] \in Unlocked
    PROVE  ProcInv(q)
BY DEF Unlocked, Locked, ProcInv, Flow, Exclusive, StillFresh, TokenSaved, WindowKnown, Window,
       MadeIt, TargetsCover, DestroySteps

\* A process that returns holds nothing.
LEMMA ReturnInv ==
    ASSUME TypeOK, NEW p \in Procs, Return(p)
    PROVE  ProcInv(p)'
BY DEF Return, TypeOK, ProcInv, Flow, Exclusive, StillFresh, TokenSaved, WindowKnown, Window,
       MadeIt, TargetsCover, DestroySteps, Locked

\* A create or import that gives up goes on to Destroy.
LEMMA GiveUpInv ==
    ASSUME TypeOK, NEW p \in Procs, ProcInv(p), pc[p] \in Locked, GiveUp(p),
           Cmd(p) \in Fresh => (own["agentVol"]' = "box" => loc[p].made)
    PROVE  ProcInv(p)'
<1>1. CASE Cmd(p) \in Fresh
  <2>1. pc'[p] = "inspect" /\ loc' = loc /\ lock' = lock
      BY <1>1 DEF GiveUp, Goto, Fresh, TypeOK
  <2> QED
      BY <1>1, <2>1 DEF ProcInv, Flow, Exclusive, StillFresh, TokenSaved, WindowKnown, Window,
         MadeIt, TargetsCover, DestroySteps, Cmd
<1>2. CASE Cmd(p) \notin Fresh
    BY <1>2, ReturnInv DEF GiveUp, Fresh
<1> QED
    BY <1>1, <1>2

\* While one process is past the acquisition, no other one is.
LEMMA OthersUnlocked ==
    ASSUME IInv, NEW p \in Procs, pc[p] \in Locked,
           NEW q \in Procs, q # p
    PROVE  pc[q] \in Unlocked /\ Flow(q)
BY DEF IInv, ProcInv, Exclusive, TypeOK

\* So a step of the lock holder has to be checked for the holder only.
LEMMA HolderStep ==
    ASSUME IInv, TypeOK', NEW p \in Procs, pc[p] \in Locked,
           \A q \in Procs \ {p} : pc'[q] = pc[q] /\ loc'[q] = loc[q],
           ProcInv(p)', EnvDescribesBox', VolumesBacked'
    PROVE  IInv'
<1>1. ASSUME NEW q \in Procs, q # p PROVE ProcInv(q)'
  <2>1. pc[q] \in Unlocked /\ Flow(q)
      BY <1>1, OthersUnlocked
  <2>2. pc'[q] = pc[q] /\ loc'[q] = loc[q]
      BY <1>1
  <2> QED
      BY <2>1, <2>2 DEF Unlocked, Locked, ProcInv, Flow, Exclusive, StillFresh, TokenSaved,
         WindowKnown, Window, MadeIt, TargetsCover, DestroySteps, Cmd
<1> QED
    BY <1>1 DEF IInv

\* Steps touch the control state and the locals of their own process only.
LEMMA OthersSame ==
    ASSUME TypeOK, NEW p \in Procs, Step(p), NEW q \in Procs, q # p
    PROVE  pc'[q] = pc[q] /\ loc'[q] = loc[q]
<1>1. \A step : Goto(p, step) => pc'[q] = pc[q]
    BY DEF Goto, TypeOK
<1>2. Return(p) => pc'[q] = pc[q] /\ loc'[q] = loc[q]
    BY DEF Return, TypeOK
<1>3. GiveUp(p) => pc'[q] = pc[q] /\ loc'[q] = loc[q]
    BY <1>1, <1>2 DEF GiveUp
<1>4. \A c \in Containers : RemoveTarget(p, c) => loc'[q] = loc[q]
    BY DEF RemoveTarget, TypeOK
<1>5. \A v, c : DropVolume(p, v, c) => loc'[q] = loc[q]
    BY DEF DropVolume, TypeOK
<1>f. \A o, make, next : Find(p, o, make, next) => pc'[q] = pc[q] /\ loc'[q] = loc[q]
    BY <1>1, <1>3 DEF Find
<1>v. \A v, drop, next : RecheckVolume(p, v, drop, next) => pc'[q] = pc[q] /\ loc'[q] = loc[q]
    BY <1>1 DEF RecheckVolume, TypeOK
<1>l. loc \in [Procs -> Locals]
    BY DEF TypeOK
<1> USE <1>1, <1>2, <1>3
<1>6. CASE \/ PruneSnapshot(p) \/ Crash(p) \/ CheckFresh(p) \/ SaveNoMounts(p)
           \/ SaveResources(p) \/ EnsureImage(p) \/ PrepareAgentMounts(p)
           \/ CreateNetwork(p) \/ CreateExecVolume(p) \/ CreateAgent(p)
           \/ CreateExecutor(p) \/ RemoveLeakedAgent(p) \/ Restore(p)
           \/ StartExecutor(p) \/ StartAgent(p) \/ PrepareRuntime(p)
           \/ StopAgent(p) \/ StopExecutor(p) \/ GetFails(p) \/ GetForDelete(p)
           \/ GetForStart(p) \/ GetForStop(p) \/ ContainersRemoved(p) \/ RemoveBoxEnv(p)
           \/ RecreateStop(p)
           \/ RecreateRemove(p) \/ RecreateCreate(p) \/ RecreateStart(p)
           \/ PersistMounts(p) \/ AskQuiesced(p) \/ PruneStateFile(p)
    BY <1>6
       DEF PruneSnapshot, Crash, CheckFresh, SaveNoMounts, SaveResources, EnsureImage,
           PrepareAgentMounts, CreateNetwork, CreateExecVolume, CreateAgent, CreateExecutor,
           RemoveLeakedAgent, Restore, StartExecutor, StartAgent, PrepareRuntime, StopAgent,
           StopExecutor, GetFails, GetForDelete, GetForStart, GetForStop, ContainersRemoved,
           RemoveBoxEnv, RecreateStop, RecreateRemove, RecreateCreate, RecreateStart, PersistMounts, AskQuiesced, PruneStateFile
<1>7. CASE RemoveAgent(p) \/ RemoveExecutor(p)
    BY <1>4, <1>7 DEF RemoveAgent, RemoveExecutor, Containers
<1>8. CASE RemoveAgentVol(p) \/ RemoveExecVol(p)
    BY <1>5, <1>8 DEF RemoveAgentVol, RemoveExecVol
<1>9. CASE RemoveNetwork(p) \/ InspectTargets(p)
    BY <1>9, <1>l DEF RemoveNetwork, InspectTargets
<1>10. CASE Begin(p) \/ Acquire(p)
    BY <1>10, <1>l DEF Begin, Acquire
<1>11. CASE SaveConfig(p) \/ CreateAgentVolume(p)
    BY <1>11, <1>l DEF SaveConfig, CreateAgentVolume
<1>12. CASE GetForUpgrade(p) \/ PreflightUpgrade(p)
    BY <1>12, <1>l DEF GetForUpgrade, PreflightUpgrade
<1>13. CASE GetForMount(p)
    BY <1>13, <1>l DEF GetForMount
<1>14. CASE FindNetwork(p) \/ FindAgentVolume(p) \/ FindExecVolume(p)
    BY <1>f, <1>14 DEF FindNetwork, FindAgentVolume, FindExecVolume
<1>15. CASE RecheckAgentVol(p) \/ RecheckExecVol(p)
    BY <1>v, <1>15 DEF RecheckAgentVol, RecheckExecVol
<1> QED
    BY <1>6, <1>7, <1>8, <1>9, <1>10, <1>11, <1>12, <1>13, <1>14, <1>15 DEF Step

\* What is said of the box alone survives a step that changes no ownership, no
\* token and not the env file.
LEMMA BoxFrame ==
    ASSUME EnvDescribesBox, VolumesBacked, UNCHANGED <<own, ctok, raced>>,
           env'.token = env.token
    PROVE  EnvDescribesBox' /\ VolumesBacked'
BY DEF EnvDescribesBox, VolumesBacked, OwnedObjects

\* Admission and the env file, up to the first object.
LEMMA AdmissionInv ==
    ASSUME IInv, NEW p \in Procs, pc[p] \in Locked,
           \/ CheckFresh(p) \/ SaveNoMounts(p) \/ SaveResources(p) \/ EnsureImage(p)
           \/ PrepareAgentMounts(p) \/ ContainersRemoved(p)
    PROVE  ProcInv(p)' /\ EnvDescribesBox' /\ VolumesBacked'
<1>t. TypeOK /\ ProcInv(p)
    BY DEF IInv
<1>b. EnvDescribesBox' /\ VolumesBacked'
  <2>1. UNCHANGED <<own, ctok, raced>> /\ env'.token = env.token
      BY <1>t DEF CheckFresh, SaveNoMounts, SaveResources, EnsureImage, PrepareAgentMounts,
         ContainersRemoved, docker, TypeOK
  <2> QED
      BY <2>1, BoxFrame DEF IInv
<1> USE <1>t, ReturnInv
<1>1. CASE Return(p)
    BY <1>1, <1>b
<1>2. CASE GiveUp(p) /\ PrepareAgentMounts(p)
  <2>1. Cmd(p) \in Fresh => own["agentVol"]' # "box"
      BY <1>2 DEF ProcInv, StillFresh, PrepareAgentMounts, docker, Objects, Volumes
  <2> QED
      BY <1>2, <1>b, <2>1, GiveUpInv
<1> USE DEF ProcInv, Flow, Exclusive, StillFresh, TokenSaved, WindowKnown, Window, MadeIt,
            TargetsCover, DestroySteps, Cmd, Fresh, Goto, TypeOK, docker
<1>3. CASE CheckFresh(p) /\ ~Return(p)
    BY <1>3, <1>b DEF CheckFresh, AllFree
<1>4. CASE SaveNoMounts(p) /\ ~Return(p)
    BY <1>4, <1>b DEF SaveNoMounts
<1>5. CASE SaveResources(p) /\ ~Return(p)
    BY <1>5, <1>b DEF SaveResources
<1>6. CASE EnsureImage(p) /\ ~Return(p)
    BY <1>6, <1>b DEF EnsureImage
<1>7. CASE PrepareAgentMounts(p) /\ ~GiveUp(p)
    BY <1>7, <1>b DEF PrepareAgentMounts
<1>8. CASE ContainersRemoved(p) /\ ~Return(p)
    BY <1>8, <1>b DEF ContainersRemoved
<1> QED
    BY <1>1, <1>2, <1>3, <1>4, <1>5, <1>6, <1>7, <1>8

\* The env file is written: by a fresh box, or by an upgrade with what it holds.
LEMMA SaveConfigInv ==
    ASSUME IInv, NEW p \in Procs, pc[p] \in Locked, SaveConfig(p)
    PROVE  ProcInv(p)' /\ EnvDescribesBox' /\ VolumesBacked'
<1>t. TypeOK /\ ProcInv(p) /\ EnvDescribesBox /\ VolumesBacked
    BY DEF IInv
<1>1. CASE Return(p) /\ UNCHANGED env
    BY <1>t, <1>1, ReturnInv, BoxFrame DEF SaveConfig, docker
<1>2. CASE ~(Return(p) /\ UNCHANGED env)
  <2>1. PICK t \in Tokens :
            /\ IF Cmd(p) = "upgrade" THEN t = loc[p].tok ELSE t \notin UsedTokens
            /\ env' = [env EXCEPT !.token = t]
            /\ loc' = [loc EXCEPT ![p].tok = t]
            /\ Goto(p, IF Cmd(p) = "upgrade" THEN "saveResources" ELSE "saveMounts")
            /\ UNCHANGED lock
      BY <1>2 DEF SaveConfig
  <2>2. env'.token = t /\ t # NoToken /\ loc'[p].tok = t /\ loc'[p].cmd = loc[p].cmd
      BY <1>t, <2>1, ConstantsAssumption DEF TypeOK, Locals
  <2>3. UNCHANGED <<own, ctok, raced, lock>> /\ pc[p] = "saveConfig"
        /\ pc'[p] = IF Cmd(p) = "upgrade" THEN "saveResources" ELSE "saveMounts"
      BY <1>t, <2>1 DEF SaveConfig, docker, Goto, TypeOK
  <2>4. ProcInv(p)'
      BY <1>t, <2>2, <2>3 DEF ProcInv, Flow, Exclusive, StillFresh, TokenSaved, WindowKnown, Window,
         MadeIt, TargetsCover, DestroySteps, Cmd, Fresh
  <2>5. CASE Cmd(p) = "upgrade"
    <3>1. env'.token = env.token
        BY <1>t, <2>1, <2>2, <2>3, <2>5 DEF ProcInv, TokenSaved
    <3> QED
        BY <1>t, <2>3, <2>4, <3>1, BoxFrame
  <2>6. CASE Cmd(p) # "upgrade"
    <3>1. \A o \in Objects : own[o] # "box"
        BY <1>t, <2>3, <2>6 DEF ProcInv, Flow, StillFresh
    <3> QED
        BY <2>3, <2>4, <3>1 DEF EnvDescribesBox, VolumesBacked, OwnedObjects, Objects,
           Containers, Volumes
  <2> QED
      BY <2>5, <2>6
<1> QED
    BY <1>1, <1>2

\* An object or a container is added while the token is the env file's.
LEMMA MakeBox ==
    ASSUME TypeOK, EnvDescribesBox, VolumesBacked, env' = env, env.token # NoToken,
           MakeNetwork \/ \E v \in Volumes : MakeVolume(v)
    PROVE  EnvDescribesBox' /\ VolumesBacked'
<1>1. /\ \A c \in Containers : own'[c] = own[c]
      /\ \A v \in Volumes : own[v] = "box" => own'[v] = "box"
      /\ ctok' = ctok /\ raced' = raced
    BY DEF TypeOK, MakeNetwork, MakeVolume, Objects, Containers, Volumes
<1>2. \A c \in Containers : VolumeOf(c) \in Volumes
    BY DEF VolumeOf, Volumes
<1> QED
    BY <1>1, <1>2 DEF EnvDescribesBox, VolumesBacked

LEMMA CreateBox ==
    ASSUME TypeOK, EnvDescribesBox, VolumesBacked, NEW p \in Procs, NEW c \in Containers,
           CreateContainer(p, c), env' = env, env.token # NoToken, loc[p].tok = env.token,
           own[VolumeOf(c)] = "foreign" => VolumeOf(c) \in raced
    PROVE  EnvDescribesBox' /\ VolumesBacked'
<1>1. /\ c \in Objects /\ VolumeOf(c) \in Objects /\ c # VolumeOf(c)
      /\ \A d \in Containers : d \in Objects /\ VolumeOf(d) \in Volumes /\ d # VolumeOf(c)
      /\ \A v \in Volumes : v \in Objects /\ v # c
    BY DEF Objects, Containers, Volumes, VolumeOf
<1>2. own \in [Objects -> {"absent", "box", "foreign"}]
    BY DEF TypeOK
<1>3. BindVolume(VolumeOf(c), [own EXCEPT ![c] = "box"])
    BY DEF CreateContainer
<1>4. /\ \A d \in Containers \ {c} : own'[d] = own[d]
      /\ \A v \in Volumes : own[v] = "box" => own'[v] = "box"
      /\ raced \subseteq raced'
      /\ own'[VolumeOf(c)] = "box" \/ VolumeOf(c) \in raced'
    BY <1>1, <1>2, <1>3 DEF BindVolume
<1>5. ctok' = [ctok EXCEPT ![c] = env.token] /\ ctok \in [Containers -> Tokens \cup {NoToken}]
    BY DEF CreateContainer, TypeOK
<1>6. EnvDescribesBox'
    BY <1>4, <1>5 DEF EnvDescribesBox
<1>7. ASSUME NEW d \in Containers, own'[d] = "box"
      PROVE  own'[VolumeOf(d)] = "box" \/ VolumeOf(d) \in raced'
    BY <1>1, <1>4, <1>7 DEF VolumesBacked
<1> QED
    BY <1>6, <1>7 DEF VolumesBacked

LEMMA RemoveBox ==
    ASSUME TypeOK, EnvDescribesBox, VolumesBacked, NEW c \in Containers,
           RemoveContainer(c), env' = env
    PROVE  EnvDescribesBox' /\ VolumesBacked'
<1>1. /\ own'[c] = "absent" /\ \A o \in Objects \ {c} : own'[o] = own[o]
      /\ \A d \in Containers \ {c} : ctok'[d] = ctok[d]
      /\ raced' = raced
    BY DEF TypeOK, RemoveContainer, Objects
<1>2. /\ \A d \in Containers : d \in Objects /\ VolumeOf(d) \in Objects \ {c}
    BY DEF Objects, Containers, Volumes, VolumeOf
<1> QED
    BY <1>1, <1>2 DEF EnvDescribesBox, VolumesBacked, OwnedObjects

\* Looking for the network or a volume of the box.
LEMMA FindInv ==
    ASSUME IInv, NEW p \in Procs, pc[p] \in Locked,
           FindNetwork(p) \/ FindAgentVolume(p) \/ FindExecVolume(p)
    PROVE  ProcInv(p)' /\ EnvDescribesBox' /\ VolumesBacked'
<1>t. TypeOK /\ ProcInv(p) /\ EnvDescribesBox /\ VolumesBacked
    BY DEF IInv
<1>o. Volumes \subseteq Objects /\ {"agentVol", "execVol"} \subseteq Volumes
      /\ "network" \in Objects
    BY DEF Objects, Volumes
<1>u. UNCHANGED <<own, ctok, raced, env>>
    BY DEF FindNetwork, FindAgentVolume, FindExecVolume, Find, docker
<1>b. EnvDescribesBox' /\ VolumesBacked'
    BY <1>t, <1>u, BoxFrame
<1>1. CASE GiveUp(p)
  <2>1. Cmd(p) \in Fresh => (own["agentVol"]' = "box" => loc[p].made)
      BY <1>t, <1>u, <1>o DEF ProcInv, StillFresh, MadeIt, FindNetwork, FindAgentVolume,
         FindExecVolume
  <2> QED
      BY <1>t, <1>b, <1>1, <2>1, GiveUpInv
<1>2. CASE ~GiveUp(p)
  <2>1. /\ UNCHANGED <<loc, lock>>
        /\ \/ /\ pc[p] = "network"
              /\ \/ pc'[p] = "agentVol"
                 \/ pc'[p] = "makeNetwork"
           \/ /\ pc[p] = "agentVol" /\ own["agentVol"] # "foreign"
              /\ \/ pc'[p] = AfterAgentVolume(p) /\ own["agentVol"] = "box"
                 \/ pc'[p] = "makeAgentVol"
           \/ /\ pc[p] = "execVol" /\ own["execVol"] # "foreign"
              /\ pc'[p] \in {"createAgent", "makeExecVol"}
      BY <1>t, <1>2 DEF FindNetwork, FindAgentVolume, FindExecVolume, Find, Goto, TypeOK
  <2>2. CASE pc[p] = "network"
      BY <1>t, <1>b, <1>u, <1>o, <2>1, <2>2 DEF ProcInv, Flow, Exclusive, StillFresh, TokenSaved,
         WindowKnown, Window, MadeIt, TargetsCover, DestroySteps, Cmd, Fresh, Locked
  <2>3. CASE pc[p] = "agentVol"
    <3>1. CASE pc'[p] = "makeAgentVol"
        BY <1>t, <1>b, <1>u, <1>o, <2>1, <2>3, <3>1 DEF ProcInv, Flow, Exclusive, StillFresh,
           TokenSaved, WindowKnown, Window, MadeIt, TargetsCover, DestroySteps, Cmd, Fresh
    <3>2. CASE pc'[p] = AfterAgentVolume(p) /\ own["agentVol"] = "box"
      <4>1. Cmd(p) \notin Fresh
          BY <1>t, <2>3, <3>2 DEF ProcInv, StillFresh
      <4>2. pc'[p] \in {"execVol", "reStop", "reRemove"}
            /\ (pc'[p] = "execVol" <=> Cmd(p) # "mount")
          BY <3>2 DEF AfterAgentVolume
      <4> QED
          BY <1>t, <1>b, <1>u, <1>o, <2>1, <2>3, <3>2, <4>1, <4>2 DEF ProcInv, Flow, Exclusive,
             StillFresh, TokenSaved, WindowKnown, Window, MadeIt, TargetsCover, DestroySteps,
             Cmd, Fresh
    <3> QED
        BY <2>1, <2>3, <3>1, <3>2
  <2>4. CASE pc[p] = "execVol"
      BY <1>t, <1>b, <1>u, <1>o, <2>1, <2>4 DEF ProcInv, Flow, Exclusive, StillFresh, TokenSaved,
         WindowKnown, Window, MadeIt, TargetsCover, DestroySteps, Cmd, Fresh
  <2> QED
      BY <2>1, <2>2, <2>3, <2>4
<1> QED
    BY <1>1, <1>2

\* Making what was not found.
LEMMA MakeInv ==
    ASSUME IInv, NEW p \in Procs, pc[p] \in Locked,
           CreateNetwork(p) \/ CreateAgentVolume(p) \/ CreateExecVolume(p)
    PROVE  ProcInv(p)' /\ EnvDescribesBox' /\ VolumesBacked'
<1>t. TypeOK /\ ProcInv(p) /\ EnvDescribesBox /\ VolumesBacked
    BY DEF IInv
<1>o. {"agentVol", "execVol"} \subseteq Volumes /\ Volumes \subseteq Objects
      /\ "network" \in Objects
    BY DEF Objects, Volumes
<1>k. loc[p].tok = env.token /\ env.token # NoToken /\ env' = env
    BY <1>t DEF CreateNetwork, CreateAgentVolume, CreateExecVolume, ProcInv, TokenSaved
<1>g. ASSUME GiveUp(p), UNCHANGED docker
      PROVE  ProcInv(p)' /\ EnvDescribesBox' /\ VolumesBacked'
  <2>1. Cmd(p) \in Fresh => (own["agentVol"]' = "box" => loc[p].made)
      BY <1>t, <1>g, <1>o DEF ProcInv, StillFresh, MadeIt, docker, CreateNetwork,
         CreateAgentVolume, CreateExecVolume
  <2> QED
      BY <1>t, <1>k, <1>g, <2>1, BoxFrame, GiveUpInv DEF docker
<1>1. CASE CreateNetwork(p) /\ ~(GiveUp(p) /\ UNCHANGED docker)
  <2>1. /\ pc[p] = "makeNetwork" /\ pc'[p] = "agentVol" /\ UNCHANGED <<loc, lock, raced>>
        /\ \A v \in Volumes : own'[v] = own[v]
      BY <1>1, <1>t, <1>o DEF CreateNetwork, MakeNetwork, Goto, TypeOK, Volumes
  <2>2. EnvDescribesBox' /\ VolumesBacked'
      BY <1>1, <1>t, <1>k, MakeBox DEF CreateNetwork
  <2> QED
      BY <1>t, <1>k, <1>o, <2>1, <2>2 DEF ProcInv, Flow, Exclusive, StillFresh, TokenSaved,
         WindowKnown, Window, MadeIt, TargetsCover, DestroySteps, Cmd
<1>2. CASE CreateAgentVolume(p) /\ ~(GiveUp(p) /\ UNCHANGED docker)
  <2>1. /\ pc[p] = "makeAgentVol" /\ pc'[p] = AfterAgentVolume(p) /\ UNCHANGED <<lock, raced>>
        /\ loc' = [loc EXCEPT ![p].made = (own["agentVol"] = "absent")]
        /\ own["agentVol"] = "foreign" => own'["agentVol"] = "foreign"
        /\ own["agentVol"] # "foreign" => own'["agentVol"] = "box"
        /\ own'["execVol"] = own["execVol"]
      BY <1>2, <1>t, <1>o DEF CreateAgentVolume, MakeVolume, Goto, TypeOK, Volumes
  <2>2. loc'[p].cmd = loc[p].cmd /\ loc'[p].tok = loc[p].tok
        /\ loc'[p].made = (own["agentVol"] = "absent")
      BY <1>t, <2>1 DEF TypeOK, Locals
  <2>3. EnvDescribesBox' /\ VolumesBacked'
      BY <1>2, <1>t, <1>o, <1>k, MakeBox DEF CreateAgentVolume
  <2>4. pc'[p] \in {"execVol", "reStop", "reRemove"} /\ (pc'[p] = "execVol" <=> Cmd(p) # "mount")
      BY <2>1 DEF AfterAgentVolume
  <2>5. own \in [Objects -> {"absent", "box", "foreign"}]
      BY <1>t DEF TypeOK
  <2>6. Cmd(p) \in Fresh => own["agentVol"] # "box"
      BY <1>t, <2>1 DEF ProcInv, StillFresh
  <2>7. Flow(p)' /\ MadeIt(p)' /\ WindowKnown(p)'
      BY <1>t, <1>o, <2>1, <2>2, <2>4, <2>5, <2>6 DEF ProcInv, Flow, WindowKnown, Window,
         MadeIt, Cmd, Fresh
  <2> QED
      BY <1>t, <1>k, <2>1, <2>2, <2>3, <2>4, <2>7 DEF ProcInv, Exclusive, StillFresh,
         TokenSaved, TargetsCover, DestroySteps, Cmd
<1>3. CASE CreateExecVolume(p) /\ ~(GiveUp(p) /\ UNCHANGED docker)
  <2>1. /\ pc[p] = "makeExecVol" /\ pc'[p] = "createAgent" /\ UNCHANGED <<loc, lock, raced>>
        /\ own["execVol"] = "foreign" <=> own'["execVol"] = "foreign"
        /\ own'["agentVol"] = own["agentVol"]
      BY <1>3, <1>t, <1>o DEF CreateExecVolume, MakeVolume, Goto, TypeOK, Volumes
  <2>2. EnvDescribesBox' /\ VolumesBacked'
      BY <1>3, <1>t, <1>o, <1>k, MakeBox DEF CreateExecVolume
  <2> QED
      BY <1>t, <1>k, <1>o, <2>1, <2>2 DEF ProcInv, Flow, Exclusive, StillFresh, TokenSaved,
         WindowKnown, Window, MadeIt, TargetsCover, DestroySteps, Cmd
<1> QED
    BY <1>1, <1>2, <1>3, <1>g

\* Binding a volume that is gone makes one that is nobody's, and says so.
LEMMA BindKnown ==
    ASSUME TypeOK, NEW v \in Volumes, NEW c \in Containers \cup {"none"},
           BindVolume(v, IF c = "none" THEN own ELSE [own EXCEPT ![c] = "box"])
    PROVE  /\ \A u \in Volumes : own'[u] = "foreign" => own[u] = "foreign" \/ u \in raced'
           /\ \A u \in Volumes : own'[u] = "box" => own[u] = "box"
           /\ \A u \in Volumes : own[u] = "box" => own'[u] = "box"
           /\ raced \subseteq raced'
           /\ \A d \in Containers \ {c} : own'[d] = own[d]
<1>1. \A u \in Volumes : u \in Objects /\ u # c /\ u # "none"
    BY DEF Objects, Containers, Volumes
<1>2. \A d \in Containers : d \in Objects /\ d # v /\ d # "none"
    BY DEF Objects, Containers, Volumes
<1>3. own \in [Objects -> {"absent", "box", "foreign"}]
    BY DEF TypeOK
<1>4. CASE c = "none"
    BY <1>1, <1>2, <1>3, <1>4 DEF BindVolume
<1>5. CASE c # "none"
    BY <1>1, <1>2, <1>3, <1>5 DEF BindVolume
<1> QED
    BY <1>4, <1>5

\* Creating the containers of box.Create.
LEMMA CreationInv ==
    ASSUME IInv, NEW p \in Procs, pc[p] \in Locked,
           CreateAgent(p) \/ CreateExecutor(p) \/ RemoveLeakedAgent(p)
    PROVE  ProcInv(p)' /\ EnvDescribesBox' /\ VolumesBacked'
<1>t. TypeOK /\ ProcInv(p) /\ EnvDescribesBox /\ VolumesBacked
    BY DEF IInv
<1>b. UNCHANGED <<docker, env>> => EnvDescribesBox' /\ VolumesBacked'
    BY <1>t, BoxFrame DEF docker
<1>o. {"agent", "executor"} \subseteq Containers /\ {"agentVol", "execVol"} \subseteq Volumes
      /\ Containers \subseteq Objects /\ Volumes \subseteq Objects /\ "network" \in Objects
      /\ VolumeOf("agent") = "agentVol" /\ VolumeOf("executor") = "execVol"
    BY DEF Objects, Containers, Volumes, VolumeOf
<1>c. ASSUME NEW c \in Containers, CreateContainer(p, c)
      PROVE  /\ \A u \in Volumes : own'[u] = "foreign" => own[u] = "foreign" \/ u \in raced'
             /\ \A u \in Volumes : own'[u] = "box" => own[u] = "box"
             /\ raced \subseteq raced'
  <2>1. BindVolume(VolumeOf(c), [own EXCEPT ![c] = "box"]) /\ VolumeOf(c) \in Volumes
      BY <1>c DEF CreateContainer, VolumeOf, Volumes
  <2>2. c # "none"
      BY DEF Containers
  <2> QED
      BY <1>t, <2>1, <2>2, BindKnown
<1>4. CASE CreateAgent(p)
  <2>0. pc[p] = "createAgent" /\ env' = env
      BY <1>4 DEF CreateAgent
  <2>1. CASE CreateContainer(p, "agent") /\ Goto(p, "createExecutor") /\ UNCHANGED <<loc, lock>>
    <3>1. env.token # NoToken /\ loc[p].tok = env.token
          /\ (own["agentVol"] = "foreign" => "agentVol" \in raced)
        BY <2>0, <1>t DEF ProcInv, TokenSaved, WindowKnown, Window
    <3>2. EnvDescribesBox' /\ VolumesBacked'
        BY <1>t, <1>o, <2>0, <2>1, <3>1, CreateBox
    <3>3. pc'[p] = "createExecutor"
        BY <1>t, <2>1 DEF Goto, TypeOK
    <3>4. WindowKnown(p)'
        BY <1>t, <1>o, <1>c, <2>0, <2>1, <3>3 DEF ProcInv, WindowKnown, Window
    <3>5. MadeIt(p)'
        BY <1>t, <1>o, <1>c, <2>0, <2>1, <3>3 DEF ProcInv, MadeIt, Cmd
    <3> QED
        BY <1>t, <1>o, <2>0, <2>1, <3>1, <3>2, <3>3, <3>4, <3>5 DEF ProcInv, Flow, Exclusive,
           StillFresh, TokenSaved, TargetsCover, DestroySteps, Cmd
  <2>2. CASE GiveUp(p) /\ UNCHANGED docker
    <3>1. Cmd(p) \in Fresh => (own["agentVol"]' = "box" => loc[p].made)
        BY <1>t, <2>0, <2>2, <1>o DEF ProcInv, MadeIt, docker
    <3> QED
        BY <1>t, <1>b, <2>0, <2>2, <3>1, GiveUpInv
  <2> QED
      BY <1>4, <2>1, <2>2 DEF CreateAgent
<1>5. CASE CreateExecutor(p)
  <2>0. pc[p] = "createExecutor" /\ loc' = loc /\ lock' = lock /\ env' = env
      BY <1>5 DEF CreateExecutor
  <2>1. \/ CreateContainer(p, "executor") /\ pc'[p] \in {"restore", "startExecutor"}
           /\ (pc'[p] = "restore" => Cmd(p) = "import")
        \/ UNCHANGED docker /\ pc'[p] = "removeLeaked"
      BY <1>5, <1>t DEF CreateExecutor, Goto, TypeOK
  <2>2. /\ \A u \in Volumes : own'[u] = "foreign" => own[u] = "foreign" \/ u \in raced'
        /\ \A u \in Volumes : own'[u] = "box" => own[u] = "box"
        /\ raced \subseteq raced'
      BY <1>c, <1>o, <2>1 DEF docker
  <2>3. WindowKnown(p)'
      BY <1>t, <1>o, <2>0, <2>1, <2>2 DEF ProcInv, WindowKnown, Window
  <2>4. MadeIt(p)'
      BY <1>t, <1>o, <2>0, <2>1, <2>2 DEF ProcInv, MadeIt, Cmd
  <2>5. ProcInv(p)'
      BY <1>t, <2>0, <2>1, <2>3, <2>4 DEF ProcInv, Flow, Exclusive, StillFresh,
         TokenSaved, TargetsCover, DestroySteps, Cmd, Fresh
  <2>6. CASE CreateContainer(p, "executor")
    <3>1. env.token # NoToken /\ loc[p].tok = env.token
          /\ (own["execVol"] = "foreign" => "execVol" \in raced)
        BY <1>t, <2>0 DEF ProcInv, TokenSaved, WindowKnown, Window
    <3> QED
        BY <1>t, <1>o, <2>0, <2>5, <2>6, <3>1, CreateBox
  <2> QED
      BY <1>b, <2>0, <2>1, <2>5, <2>6
<1>6. CASE RemoveLeakedAgent(p)
  <2>1. pc[p] = "removeLeaked" /\ GiveUp(p) /\ env' = env
      BY <1>6 DEF RemoveLeakedAgent
  <2>2. own'["agentVol"] = own["agentVol"]
      BY <1>6, <1>t, <1>o DEF RemoveLeakedAgent, RemoveContainer, docker, TypeOK
  <2>3. Cmd(p) \in Fresh => (own'["agentVol"] = "box" => loc[p].made)
      BY <1>t, <2>1, <2>2 DEF ProcInv, MadeIt
  <2>4. ProcInv(p)'
      BY <1>t, <2>1, <2>3, GiveUpInv
  <2> QED
      BY <1>t, <1>6, <1>b, <1>o, <2>1, <2>4, RemoveBox DEF RemoveLeakedAgent
<1> QED
    BY <1>4, <1>5, <1>6

\* The restore binds the agent volume by its name.
LEMMA RestoreInv ==
    ASSUME IInv, NEW p \in Procs, pc[p] \in Locked, Restore(p)
    PROVE  ProcInv(p)' /\ EnvDescribesBox' /\ VolumesBacked'
<1>t. TypeOK /\ ProcInv(p) /\ EnvDescribesBox /\ VolumesBacked
    BY DEF IInv
<1>o. "agentVol" \in Volumes /\ "execVol" \in Volumes
    BY DEF Volumes
<1>1. /\ \A u \in Volumes : own'[u] = "foreign" => own[u] = "foreign" \/ u \in raced'
      /\ \A u \in Volumes : own'[u] = "box" => own[u] = "box"
      /\ \A u \in Volumes : own[u] = "box" => own'[u] = "box"
      /\ raced \subseteq raced'
      /\ \A d \in Containers : own'[d] = own[d]
  <2>1. CASE BindVolume("agentVol", own)
    <3>1. "none" \notin Containers
        BY DEF Containers
    <3> QED
        BY <1>t, <1>o, <2>1, <3>1, BindKnown
  <2>2. CASE UNCHANGED <<own, raced>>
      BY <2>2
  <2> QED
      BY <2>1, <2>2 DEF Restore
<1>2. pc[p] = "restore" /\ UNCHANGED <<ctok, env>>
    BY DEF Restore
<1>3. VolumesBacked'
  <2>1. \A c \in Containers : VolumeOf(c) \in Volumes
      BY DEF VolumeOf, Volumes
  <2> QED
      BY <1>t, <1>1, <2>1 DEF VolumesBacked
<1>4. EnvDescribesBox'
  <2>1. env.token # NoToken \/ OwnedObjects = {}
      BY <1>t DEF EnvDescribesBox
  <2>2. CASE env.token # NoToken
      BY <1>t, <1>1, <1>2, <2>2 DEF EnvDescribesBox
  <2>3. CASE OwnedObjects = {}
    <3>1. \A o \in Objects : own[o] # "box"
        BY <2>3 DEF OwnedObjects
    <3>2. \A o \in Objects : own'[o] # "box"
      <4>1. \A o \in Objects : o \in Volumes \/ o \in Containers \/ o = "network"
          BY DEF Objects
      <4>2. own'["network"] = own["network"]
          BY <1>t DEF Restore, BindVolume, TypeOK, Objects, Volumes
      <4>3. Volumes \subseteq Objects /\ Containers \subseteq Objects /\ "network" \in Objects
          BY DEF Objects
      <4> QED
          BY <1>1, <3>1, <4>1, <4>2, <4>3
    <3> QED
        BY <3>2 DEF EnvDescribesBox, OwnedObjects, Objects
  <2> QED
      BY <2>1, <2>2, <2>3
<1>5. Cmd(p) \in Fresh /\ (own["agentVol"] = "box" => loc[p].made)
    BY <1>t, <1>2 DEF ProcInv, Flow, MadeIt
<1>6. CASE GiveUp(p)
    BY <1>t, <1>o, <1>1, <1>3, <1>4, <1>5, <1>6, GiveUpInv
<1>7. CASE ~GiveUp(p)
  <2>1. pc'[p] = "startExecutor" /\ UNCHANGED <<loc, lock>>
      BY <1>t, <1>7 DEF Restore, Goto, TypeOK
  <2> QED
      BY <1>t, <1>o, <1>1, <1>2, <1>3, <1>4, <1>5, <2>1 DEF ProcInv, Flow, Exclusive, StillFresh,
         TokenSaved, WindowKnown, Window, MadeIt, TargetsCover, DestroySteps, Cmd
<1> QED
    BY <1>6, <1>7

\* Starting, stopping, the checks of each command, and a crash: no
\* object comes or goes and the token stays.
LEMMA RunningInv ==
    ASSUME IInv, NEW p \in Procs, pc[p] \in Locked,
           \/ StartExecutor(p) \/ StartAgent(p) \/ PrepareRuntime(p)
           \/ StopAgent(p) \/ StopExecutor(p) \/ GetFails(p) \/ GetForDelete(p)
           \/ GetForStart(p) \/ GetForStop(p) \/ GetForUpgrade(p) \/ RecreateStop(p)
           \/ RecreateStart(p) \/ PersistMounts(p) \/ AskQuiesced(p) \/ Crash(p)
    PROVE  ProcInv(p)' /\ EnvDescribesBox' /\ VolumesBacked'
<1>t. TypeOK /\ ProcInv(p) /\ EnvDescribesBox /\ VolumesBacked
    BY DEF IInv
<1>u. UNCHANGED <<own, ctok, raced>> /\ env'.token = env.token
    BY <1>t DEF StartExecutor, StartAgent, PrepareRuntime, StopAgent, StopExecutor,
       GetFails, GetForDelete, GetForStart, GetForStop, GetForUpgrade, RecreateStop,
       RecreateStart, PersistMounts, AskQuiesced, Crash, StartContainer, StopContainer,
       docker, TypeOK
<1>b. EnvDescribesBox' /\ VolumesBacked'
    BY <1>t, <1>u, BoxFrame
<1>r. Return(p) => ProcInv(p)'
    BY <1>t, ReturnInv
<1>g. GiveUp(p) /\ pc[p] \in {"startExecutor", "startAgent", "prepareRuntime"}
        => ProcInv(p)'
    BY <1>t, <1>u, GiveUpInv DEF ProcInv, MadeIt
<1>m. ASSUME NEW step \in Locked, Goto(p, step), lock' = lock, Cmd(p)' = Cmd(p),
             loc'[p].made = loc[p].made, loc'[p].tok = loc[p].tok,
             \/ pc[p] = "startExecutor" /\ step = "startAgent"
             \/ pc[p] = "startAgent" /\ step = "prepareRuntime"
             \/ step \in {"stopAgent", "stopExecutor"}
             \/ pc[p] \in {"reStart", "reSave"} /\ step \in {"reSave", "askQuiesced"}
             \/ pc[p] = "get" /\ step = "startExecutor"
             \/ pc[p] = "askQuiesced" /\ step = "prepareRuntime"
             \/ Cmd(p) = "delete" /\ step = "inspect"
             \/ Cmd(p) = "upgrade" /\ step = "preflight"
             \/ pc[p] = "reStop" /\ step = "reRemove"
      PROVE  ProcInv(p)'
  <2>1. pc'[p] = step
      BY <1>t, <1>m DEF Goto, TypeOK
  <2> QED
      BY <1>t, <1>u, <1>m, <2>1 DEF ProcInv, Flow, Exclusive, StillFresh, TokenSaved,
         WindowKnown, Window, MadeIt, TargetsCover, DestroySteps, Cmd, Fresh
<1>1. CASE StartExecutor(p) \/ StartAgent(p)
    BY <1>1, <1>b, <1>r, <1>g, <1>m DEF StartExecutor, StartAgent, Cmd, Locked
<1>2. CASE PrepareRuntime(p) \/ GetFails(p) \/ Crash(p)
    BY <1>2, <1>b, <1>r, <1>g DEF PrepareRuntime, GetFails, Crash
<1>3. CASE \/ StopAgent(p) \/ StopExecutor(p) \/ RecreateStop(p) \/ RecreateStart(p)
           \/ PersistMounts(p)
    BY <1>3, <1>b, <1>r, <1>m
       DEF StopAgent, StopExecutor, RecreateStop, RecreateStart, PersistMounts, Cmd, Locked
<1>4. CASE GetForDelete(p) \/ GetForStart(p) \/ GetForStop(p)
    BY <1>4, <1>b, <1>m DEF GetForDelete, GetForStart, GetForStop, Cmd, Locked
<1>5. CASE GetForUpgrade(p)
  <2>1. loc'[p].cmd = loc[p].cmd /\ loc'[p].made = loc[p].made /\ loc'[p].tok = loc[p].tok
      BY <1>5, <1>t DEF GetForUpgrade, TypeOK, Locals
  <2> QED
      BY <1>5, <1>b, <1>m, <2>1 DEF GetForUpgrade, Cmd, Locked
<1>6. CASE AskQuiesced(p)
    BY <1>6, <1>b, <1>r, <1>m DEF AskQuiesced, Cmd, Locked
<1> QED
    BY <1>1, <1>2, <1>3, <1>4, <1>5, <1>6

\* The checks of upgrade and mount fetch the token; Destroy lists its targets.
LEMMA PreflightInv ==
    ASSUME IInv, NEW p \in Procs, pc[p] \in Locked,
           PreflightUpgrade(p) \/ GetForMount(p) \/ InspectTargets(p)
    PROVE  ProcInv(p)' /\ EnvDescribesBox' /\ VolumesBacked'
<1>t. TypeOK /\ ProcInv(p) /\ EnvDescribesBox /\ VolumesBacked
    BY DEF IInv
<1>u. UNCHANGED <<own, ctok, raced, env>>
    BY DEF PreflightUpgrade, GetForMount, InspectTargets, docker
<1>b. EnvDescribesBox' /\ VolumesBacked'
    BY <1>t, <1>u, BoxFrame
<1>r. Return(p) => ProcInv(p)'
    BY <1>t, ReturnInv
<1>1. CASE PreflightUpgrade(p) /\ ~Return(p)
  <2>1. pc[p] = "preflight" /\ pc'[p] = "saveConfig" /\ lock' = lock /\ env.token # NoToken
      BY <1>t, <1>1 DEF PreflightUpgrade, Goto, TypeOK
  <2>2. loc'[p].cmd = loc[p].cmd /\ loc'[p].tok = env.token
      BY <1>t, <1>1 DEF PreflightUpgrade, TypeOK, Locals
  <2>3. Cmd(p) = "upgrade"
      BY <1>t, <2>1 DEF ProcInv, Flow
  <2> QED
      BY <1>t, <1>b, <1>u, <2>1, <2>2, <2>3 DEF ProcInv, Flow, Exclusive, StillFresh,
         TokenSaved, WindowKnown, Window, MadeIt, TargetsCover, DestroySteps, Cmd, Fresh
<1>2. CASE GetForMount(p)
  <2>1. pc[p] = "get" /\ pc'[p] = "network" /\ lock' = lock /\ env.token # NoToken
        /\ Cmd(p) = "mount"
      BY <1>t, <1>2 DEF GetForMount, Goto, TypeOK
  <2>3. PICK t \in Targets, s \in Sources \cup {NoSource} :
            loc' = [loc EXCEPT ![p].tok = env.token,
                               ![p].mounts = [env.mounts EXCEPT ![t] = s],
                               ![p].was = running["agent"]]
      BY <1>2 DEF GetForMount
  <2>4. loc \in [Procs -> Locals]
      BY <1>t DEF TypeOK
  <2>2. loc'[p].cmd = loc[p].cmd /\ loc'[p].tok = env.token
      BY <2>3, <2>4 DEF Locals
  <2> QED
      BY <1>t, <1>b, <1>u, <2>1, <2>2 DEF ProcInv, Flow, Exclusive, StillFresh,
         TokenSaved, WindowKnown, Window, MadeIt, TargetsCover, DestroySteps, Cmd, Fresh
<1>3. CASE InspectTargets(p) /\ ~Return(p)
  <2>1. pc[p] = "inspect" /\ pc'[p] = "rmAgent" /\ lock' = lock
      BY <1>t, <1>3 DEF InspectTargets, Goto, TypeOK
  <2>2. loc'[p].cmd = loc[p].cmd /\ loc'[p].targets = OwnedObjects /\ loc'[p].made = loc[p].made
      BY <1>t, <1>3 DEF InspectTargets, TypeOK, Locals
  <2>3. \A o \in Objects : o \in OwnedObjects <=> own[o] = "box"
      BY DEF OwnedObjects
  <2>4. "agentVol" \in Objects /\ "network" \in Objects /\ Left("rmAgent") = Objects
      BY DEF Objects, Volumes, Left
  <2> QED
      BY <1>t, <1>b, <1>u, <2>1, <2>2, <2>3, <2>4 DEF ProcInv, Flow, Exclusive, StillFresh,
         TokenSaved, WindowKnown, Window, MadeIt, TargetsCover, DestroySteps, Cmd, Fresh
<1> QED
    BY <1>b, <1>r, <1>1, <1>2, <1>3

\* RecreateAgent.
LEMMA RecreateInv ==
    ASSUME IInv, NEW p \in Procs, pc[p] \in Locked,
           RecreateRemove(p) \/ RecreateCreate(p)
    PROVE  ProcInv(p)' /\ EnvDescribesBox' /\ VolumesBacked'
<1>t. TypeOK /\ ProcInv(p) /\ EnvDescribesBox /\ VolumesBacked
    BY DEF IInv
<1>o. "agent" \in Containers /\ {"agentVol", "execVol"} \subseteq Volumes
      /\ Containers \subseteq Objects /\ Volumes \subseteq Objects
      /\ VolumeOf("agent") = "agentVol" /\ "agent" \notin Volumes
    BY DEF Objects, Containers, Volumes, VolumeOf
<1>r. Return(p) /\ UNCHANGED <<docker, env>>
        => ProcInv(p)' /\ EnvDescribesBox' /\ VolumesBacked'
    BY <1>t, ReturnInv, BoxFrame DEF docker
<1>k. loc[p].tok = env.token /\ env.token # NoToken /\ env' = env /\ Cmd(p) = "mount"
    BY <1>t DEF RecreateRemove, RecreateCreate, ProcInv, TokenSaved, Flow
<1>1. CASE RecreateRemove(p) /\ ~(Return(p) /\ UNCHANGED docker)
  <2>1. /\ pc[p] = "reRemove" /\ pc'[p] = "reCreate" /\ RemoveContainer("agent")
        /\ UNCHANGED <<loc, lock>>
      BY <1>t, <1>1 DEF RecreateRemove, Goto, TypeOK
  <2>2. raced' = raced /\ \A v \in Volumes : own'[v] = own[v]
      BY <1>t, <1>o, <2>1 DEF RemoveContainer, TypeOK
  <2>3. EnvDescribesBox' /\ VolumesBacked'
      BY <1>t, <1>o, <1>k, <2>1, RemoveBox
  <2> QED
      BY <1>t, <1>o, <1>k, <2>1, <2>2, <2>3 DEF ProcInv, Flow, Exclusive, StillFresh,
         TokenSaved, WindowKnown, Window, MadeIt, TargetsCover, DestroySteps, Cmd
<1>2. CASE RecreateCreate(p) /\ ~(Return(p) /\ UNCHANGED docker)
  <2>1. /\ pc[p] = "reCreate" /\ pc'[p] \in {"reStart", "reSave"} /\ CreateContainer(p, "agent")
        /\ UNCHANGED <<loc, lock>>
      BY <1>t, <1>2 DEF RecreateCreate, Goto, TypeOK
  <2>2. own["agentVol"] = "foreign" => "agentVol" \in raced
      BY <1>t, <2>1 DEF ProcInv, WindowKnown, Window
  <2>3. EnvDescribesBox' /\ VolumesBacked'
      BY <1>t, <1>o, <1>k, <2>1, <2>2, CreateBox
  <2> QED
      BY <1>t, <1>k, <2>1, <2>3 DEF ProcInv, Flow, Exclusive, StillFresh,
         TokenSaved, WindowKnown, Window, MadeIt, TargetsCover, DestroySteps, Cmd
<1> QED
    BY <1>1, <1>2, <1>r, <1>k

\* Removing one container of Destroy or of an upgrade.
LEMMA RemoveTargetInv ==
    ASSUME IInv, NEW p \in Procs, pc[p] \in Locked, RemoveAgent(p) \/ RemoveExecutor(p)
    PROVE  ProcInv(p)' /\ EnvDescribesBox' /\ VolumesBacked'
<1>t. TypeOK /\ ProcInv(p) /\ EnvDescribesBox /\ VolumesBacked
    BY DEF IInv
<1>o. {"agent", "executor"} \subseteq Containers /\ {"agentVol", "execVol"} \subseteq Volumes
      /\ Containers \subseteq Objects /\ Volumes \subseteq Objects /\ "network" \in Objects
    BY DEF Objects, Containers, Volumes
<1>1. PICK c \in Containers :
          /\ RemoveTarget(p, c)
          /\ UNCHANGED <<env, lock>>
          /\ \/ c = "agent" /\ pc[p] = "rmAgent" /\ pc'[p] = "rmExecutor"
             \/ /\ c = "executor" /\ pc[p] = "rmExecutor"
                /\ pc'[p] = IF Cmd(p) = "upgrade" THEN "removed" ELSE "rmNetwork"
    BY <1>t, <1>o DEF RemoveAgent, RemoveExecutor, Goto, TypeOK
<1>2. /\ \A o \in Objects \ {c} : own'[o] = own[o]
      /\ own'[c] \in {own[c], "absent"}
      /\ loc'[p].cmd = loc[p].cmd /\ loc'[p].tok = loc[p].tok
      /\ loc'[p].made = loc[p].made /\ loc'[p].targets = loc[p].targets
      /\ loc[p].errs => loc'[p].errs
      /\ raced' = raced
  <2>1. UNCHANGED docker => own' = own /\ raced' = raced
      BY DEF docker
  <2>2. RemoveContainer(c) => own' = [own EXCEPT ![c] = "absent"] /\ raced' = raced
      BY DEF RemoveContainer
  <2>3. StopContainer(c) => own' = own /\ raced' = raced
      BY DEF StopContainer, docker
  <2>4. (own' = own \/ own' = [own EXCEPT ![c] = "absent"]) /\ raced' = raced
      BY <1>1, <2>1, <2>2, <2>3 DEF RemoveTarget
  <2>5. loc' = loc \/ loc' = [loc EXCEPT ![p].errs = TRUE]
      BY <1>1 DEF RemoveTarget
  <2>6. loc \in [Procs -> Locals]
      BY <1>t DEF TypeOK
  <2> QED
      BY <1>t, <1>o, <2>4, <2>5, <2>6 DEF TypeOK, Locals
<1>3. Cmd(p) # "upgrade" /\ ~loc'[p].errs => (own'[c] # "box" \/ c \notin loc[p].targets)
  <2>1. loc' = [loc EXCEPT ![p].errs = TRUE] => loc'[p].errs
      BY <1>t DEF TypeOK, Locals
  <2>2. RemoveContainer(c) => own'[c] = "absent"
      BY <1>t, <1>o DEF RemoveContainer, TypeOK
  <2> QED
      BY <1>1, <2>1, <2>2 DEF RemoveTarget, docker
<1>4. EnvDescribesBox' /\ VolumesBacked'
  <2>1. StopContainer(c) => UNCHANGED <<own, ctok, raced>>
      BY DEF StopContainer, docker
  <2>2. CASE RemoveContainer(c)
      BY <1>t, <1>1, <2>2, RemoveBox
  <2>3. CASE UNCHANGED <<own, ctok, raced>>
      BY <1>t, <1>1, <2>3, BoxFrame
  <2> QED
      BY <1>1, <2>1, <2>2, <2>3 DEF RemoveTarget, docker
<1>5. TargetsCover(p)'
  <2>1. Left("rmExecutor") = Objects \ {"agent"} /\ Left("rmAgent") = Objects
        /\ Left("rmNetwork") = Objects \ {"agent", "executor"}
      BY DEF Left, Objects, Containers, Volumes
  <2>2. TargetsCover(p)
      BY <1>t DEF ProcInv
  <2>3. c # "network"
      BY DEF Containers
  <2> QED
      BY <1>o, <1>1, <1>2, <1>3, <2>1, <2>2, <2>3 DEF TargetsCover, DestroySteps, Cmd
<1>6. TokenSaved(p)'
    BY <1>t, <1>1, <1>2 DEF ProcInv, TokenSaved, Cmd
<1> QED
    BY <1>t, <1>o, <1>1, <1>2, <1>4, <1>5, <1>6 DEF ProcInv, Flow, Exclusive, StillFresh,
       WindowKnown, Window, MadeIt, Cmd, Fresh

\* A network or a volume goes once no container needs it.
LEMMA DropBox ==
    ASSUME TypeOK, EnvDescribesBox, VolumesBacked, NEW o \in Volumes \cup {"network"},
           own' = [own EXCEPT ![o] = "absent"], ctok' = ctok, env' = env,
           raced' = raced \ {o},
           \A c \in Containers : VolumeOf(c) = o => own[c] # "box"
    PROVE  EnvDescribesBox' /\ VolumesBacked'
<1>1. own'[o] = "absent" /\ \A x \in Objects \ {o} : own'[x] = own[x]
    BY DEF TypeOK, Objects
<1>2. \A d \in Containers : d \in Objects \ {o} /\ VolumeOf(d) \in Objects
    BY DEF Objects, Containers, Volumes, VolumeOf
<1> QED
    BY <1>1, <1>2 DEF EnvDescribesBox, VolumesBacked, OwnedObjects

\* What one step of Destroy leaves behind for the next one.
LEMMA DestroyMoves ==
    ASSUME IInv, NEW p \in Procs, NEW o \in Objects,
           \/ o = "network" /\ pc[p] = "rmNetwork" /\ pc'[p] = "rmAgentVol"
           \/ o = "agentVol" /\ pc[p] \in {"rmAgentVol", "dropAgentVol"}
              /\ pc'[p] = "rmExecVol"
           \/ o = "execVol" /\ pc[p] \in {"rmExecVol", "dropExecVol"} /\ pc'[p] = "rmEnv",
           UNCHANGED <<env, lock>>,
           loc' = loc \/ loc' = [loc EXCEPT ![p].errs = TRUE],
           own' = own \/ own' = [own EXCEPT ![o] = "absent"],
           loc'[p].errs \/ own'[o] # "box" \/ o \notin loc[p].targets
    PROVE  ProcInv(p)'
<1>t. TypeOK /\ ProcInv(p)
    BY DEF IInv
<1>l. loc \in [Procs -> Locals] /\ own \in [Objects -> {"absent", "box", "foreign"}]
    BY <1>t DEF TypeOK
<1>1. /\ loc'[p].cmd = loc[p].cmd /\ loc'[p].tok = loc[p].tok
      /\ loc'[p].made = loc[p].made /\ loc'[p].targets = loc[p].targets
      /\ loc[p].errs => loc'[p].errs
    BY <1>l DEF Locals
<1>2. /\ \A x \in Objects \ {o} : own'[x] = own[x]
      /\ own'[o] \in {own[o], "absent"}
    BY <1>l
<1>3. TargetsCover(p)'
  <2>1. /\ Left("rmNetwork") = Volumes \cup {"network"}
        /\ Left("rmAgentVol") = Volumes /\ Left("dropAgentVol") = Volumes
        /\ Left("rmExecVol") = {"execVol"} /\ Left("dropExecVol") = {"execVol"}
        /\ Left("rmEnv") = {} /\ Volumes = {"agentVol", "execVol"}
      BY DEF Left, Volumes
  <2>2. TargetsCover(p)
      BY <1>t DEF ProcInv
  <2> QED
      BY <1>1, <1>2, <2>1, <2>2 DEF TargetsCover, DestroySteps, Cmd
<1>4. MadeIt(p)'
    BY <1>t, <1>1 DEF ProcInv, MadeIt, Cmd
<1>5. Flow(p)'
    BY <1>t, <1>1 DEF ProcInv, Flow, Cmd
<1>6. Exclusive(p)' /\ StillFresh(p)' /\ TokenSaved(p)'
    BY <1>t, <1>1, <1>5 DEF ProcInv, Flow, Exclusive, StillFresh, TokenSaved,
       Cmd, Fresh, Locked
<1>7. WindowKnown(p)'
    BY DEF WindowKnown, Window
<1> QED
    BY <1>3, <1>4, <1>5, <1>6, <1>7 DEF ProcInv

\* Checking the ownership of a volume again.
LEMMA RecheckInv ==
    ASSUME IInv, NEW p \in Procs, pc[p] \in Locked, RecheckAgentVol(p) \/ RecheckExecVol(p)
    PROVE  ProcInv(p)' /\ EnvDescribesBox' /\ VolumesBacked'
<1>t. TypeOK /\ ProcInv(p) /\ EnvDescribesBox /\ VolumesBacked
    BY DEF IInv
<1>o. {"agentVol", "execVol"} \subseteq Volumes /\ Volumes \subseteq Objects
    BY DEF Objects, Volumes
<1>u. UNCHANGED <<own, ctok, raced, env, lock>>
    BY DEF RecheckAgentVol, RecheckExecVol, RecheckVolume, docker
<1>b. EnvDescribesBox' /\ VolumesBacked'
    BY <1>t, <1>u, BoxFrame
<1>e. [loc EXCEPT ![p].errs = TRUE][p].errs
    BY <1>t DEF TypeOK, Locals
<1>f. TargetsCover(p) /\ MadeIt(p) /\ Flow(p) /\ Exclusive(p)
    BY <1>t DEF ProcInv
<1>1. ASSUME NEW v \in Volumes, NEW drop, NEW next, RecheckVolume(p, v, drop, next)
      PROVE  \/ /\ pc'[p] = next
                /\ loc' = loc \/ loc' = [loc EXCEPT ![p].errs = TRUE]
                /\ loc'[p].errs \/ own'[v] # "box" \/ v \notin loc[p].targets
             \/ /\ pc'[p] = drop /\ loc' = loc /\ own[v] = "box" /\ v \in loc[p].targets
  <2>1. \A step : Goto(p, step) => pc'[p] = step
      BY <1>t DEF Goto, TypeOK
  <2> QED
      BY <1>1, <1>e, <1>u, <2>1 DEF RecheckVolume
<1>2. CASE RecheckAgentVol(p)
  <2>1. pc[p] = "rmAgentVol" /\ RecheckVolume(p, "agentVol", "dropAgentVol", "rmExecVol")
      BY <1>2 DEF RecheckAgentVol
  <2>2. CASE /\ pc'[p] = "rmExecVol"
             /\ loc' = loc \/ loc' = [loc EXCEPT ![p].errs = TRUE]
             /\ loc'[p].errs \/ own'["agentVol"] # "box" \/ "agentVol" \notin loc[p].targets
      BY <1>b, <1>o, <1>u, <2>1, <2>2, DestroyMoves
  <2>3. CASE /\ pc'[p] = "dropAgentVol" /\ loc' = loc /\ own["agentVol"] = "box"
             /\ "agentVol" \in loc[p].targets
    <3>1. Left("dropAgentVol") = Left("rmAgentVol")
        BY DEF Left
    <3>2. TargetsCover(p)'
        BY <1>f, <1>u, <2>1, <2>3, <3>1 DEF TargetsCover, DestroySteps, Cmd
    <3>3. MadeIt(p)' /\ Flow(p)' /\ Exclusive(p)' /\ StillFresh(p)' /\ TokenSaved(p)'
        BY <1>f, <1>u, <2>1, <2>3 DEF MadeIt, Flow, Exclusive, StillFresh, TokenSaved, Cmd,
           Fresh, Locked
    <3>4. WindowKnown(p)'
        BY <1>u, <2>3 DEF WindowKnown, Window
    <3> QED
        BY <1>b, <3>2, <3>3, <3>4 DEF ProcInv
  <2> QED
      BY <1>1, <1>o, <2>1, <2>2, <2>3
<1>3. CASE RecheckExecVol(p)
  <2>1. pc[p] = "rmExecVol" /\ RecheckVolume(p, "execVol", "dropExecVol", "rmEnv")
      BY <1>3 DEF RecheckExecVol
  <2>2. CASE /\ pc'[p] = "rmEnv"
             /\ loc' = loc \/ loc' = [loc EXCEPT ![p].errs = TRUE]
             /\ loc'[p].errs \/ own'["execVol"] # "box" \/ "execVol" \notin loc[p].targets
      BY <1>b, <1>o, <1>u, <2>1, <2>2, DestroyMoves
  <2>3. CASE /\ pc'[p] = "dropExecVol" /\ loc' = loc /\ own["execVol"] = "box"
             /\ "execVol" \in loc[p].targets
    <3>1. Left("dropExecVol") = Left("rmExecVol")
        BY DEF Left
    <3>2. TargetsCover(p)'
        BY <1>f, <1>u, <2>1, <2>3, <3>1 DEF TargetsCover, DestroySteps, Cmd
    <3>3. MadeIt(p)' /\ Flow(p)' /\ Exclusive(p)' /\ StillFresh(p)' /\ TokenSaved(p)'
        BY <1>f, <1>u, <2>1, <2>3 DEF MadeIt, Flow, Exclusive, StillFresh, TokenSaved, Cmd,
           Fresh, Locked
    <3>4. WindowKnown(p)'
        BY <1>u, <2>3 DEF WindowKnown, Window
    <3> QED
        BY <1>b, <3>2, <3>3, <3>4 DEF ProcInv
  <2> QED
      BY <1>1, <1>o, <2>1, <2>2, <2>3
<1> QED
    BY <1>2, <1>3

\* Removing the network and the volumes.
LEMMA DestroyInv ==
    ASSUME IInv, NEW p \in Procs, pc[p] \in Locked,
           RemoveNetwork(p) \/ RemoveAgentVol(p) \/ RemoveExecVol(p)
    PROVE  ProcInv(p)' /\ EnvDescribesBox' /\ VolumesBacked'
<1>t. TypeOK /\ EnvDescribesBox /\ VolumesBacked
    BY DEF IInv
<1>o. {"agentVol", "execVol"} \subseteq Volumes /\ Volumes \subseteq Objects
      /\ "network" \in Objects /\ "network" \notin Volumes
    BY DEF Objects, Volumes
<1>c. \A c \in Containers : /\ VolumeOf(c) # "network"
                            /\ VolumeOf(c) = "agentVol" <=> c = "agent"
                            /\ VolumeOf(c) = "execVol" <=> c = "executor"
    BY DEF VolumeOf, Containers
<1>e. [loc EXCEPT ![p].errs = TRUE][p].errs
    BY <1>t DEF TypeOK, Locals
<1>u. UNCHANGED <<docker, env>> => EnvDescribesBox' /\ VolumesBacked'
    BY <1>t, BoxFrame DEF docker
<1>d. UNCHANGED docker => own' = own
    BY DEF docker
<1>a. \A x \in Objects : own' = [own EXCEPT ![x] = "absent"] => own'[x] = "absent"
    BY <1>t DEF TypeOK
<1>1. CASE RemoveNetwork(p)
  <2>1. pc[p] = "rmNetwork" /\ pc'[p] = "rmAgentVol" /\ UNCHANGED <<env, lock>>
      BY <1>t, <1>1 DEF RemoveNetwork, Goto, TypeOK
  <2>2. /\ loc' = loc \/ loc' = [loc EXCEPT ![p].errs = TRUE]
        /\ own' = own \/ own' = [own EXCEPT !["network"] = "absent"]
        /\ loc'[p].errs \/ own'["network"] # "box" \/ "network" \notin loc[p].targets
      BY <1>1, <1>a, <1>d, <1>e, <1>o DEF RemoveNetwork
  <2>3. ProcInv(p)'
      BY <1>o, <2>1, <2>2, DestroyMoves
  <2>4. EnvDescribesBox' /\ VolumesBacked'
    <3>1. CASE own' = [own EXCEPT !["network"] = "absent"] /\ UNCHANGED <<ctok, raced>>
      <4>1. raced' = raced \ {"network"}
          BY <1>t, <1>o, <3>1 DEF TypeOK
      <4> QED
          BY <1>t, <1>c, <2>1, <3>1, <4>1, DropBox
    <3> QED
        BY <1>1, <1>u, <2>1, <3>1 DEF RemoveNetwork
  <2> QED
      BY <2>3, <2>4
<1>2. ASSUME NEW v \in Volumes, NEW c, DropVolume(p, v, c)
      PROVE  /\ loc' = loc \/ loc' = [loc EXCEPT ![p].errs = TRUE]
             /\ own' = own \/ own' = [own EXCEPT ![v] = "absent"]
             /\ loc'[p].errs \/ own'[v] # "box" \/ v \notin loc[p].targets
    BY <1>2, <1>a, <1>d, <1>e, <1>o DEF DropVolume
<1>3. CASE RemoveAgentVol(p)
  <2>1. pc[p] = "dropAgentVol" /\ pc'[p] = "rmExecVol" /\ UNCHANGED <<env, lock>>
        /\ DropVolume(p, "agentVol", "agent")
      BY <1>t, <1>3 DEF RemoveAgentVol, Goto, TypeOK
  <2>2. ProcInv(p)'
      BY <1>o, <1>2, <2>1, DestroyMoves
  <2>3. EnvDescribesBox' /\ VolumesBacked'
      BY <1>t, <1>o, <1>c, <1>u, <2>1, DropBox DEF DropVolume
  <2> QED
      BY <2>2, <2>3
<1>4. CASE RemoveExecVol(p)
  <2>1. pc[p] = "dropExecVol" /\ pc'[p] = "rmEnv" /\ UNCHANGED <<env, lock>>
        /\ DropVolume(p, "execVol", "executor")
      BY <1>t, <1>4 DEF RemoveExecVol, Goto, TypeOK
  <2>2. ProcInv(p)'
      BY <1>o, <1>2, <2>1, DestroyMoves
  <2>3. EnvDescribesBox' /\ VolumesBacked'
      BY <1>t, <1>o, <1>c, <1>u, <2>1, DropBox DEF DropVolume
  <2> QED
      BY <2>2, <2>3
<1> QED
    BY <1>1, <1>3, <1>4

\* The env file goes only when no object of the box is left.
LEMMA ForgetInv ==
    ASSUME IInv, NEW p \in Procs, pc[p] \in Locked, RemoveBoxEnv(p) \/ PruneStateFile(p)
    PROVE  ProcInv(p)' /\ EnvDescribesBox' /\ VolumesBacked'
<1>t. TypeOK /\ ProcInv(p) /\ EnvDescribesBox /\ VolumesBacked
    BY DEF IInv
<1>1. ProcInv(p)'
    BY <1>t, ReturnInv DEF RemoveBoxEnv, PruneStateFile
<1>2. UNCHANGED <<own, ctok, raced>>
    BY DEF RemoveBoxEnv, PruneStateFile, docker
<1>3. CASE env' = env
    BY <1>t, <1>1, <1>2, <1>3, BoxFrame
<1>4. CASE env' # env
  <2>1. \A o \in Objects : own[o] # "box"
    <3>1. CASE RemoveBoxEnv(p)
      <4>1. Left("rmEnv") = {} /\ pc[p] = "rmEnv" /\ ~loc[p].errs
          BY <1>4, <3>1 DEF Left, RemoveBoxEnv
      <4>2. Cmd(p) # "upgrade"
          BY <1>t, <4>1 DEF ProcInv, Flow, Fresh
      <4> QED
          BY <1>t, <4>1, <4>2 DEF ProcInv, TargetsCover, DestroySteps
    <3>2. CASE PruneStateFile(p)
        BY <1>4, <3>2 DEF PruneStateFile, StateInUse, BoxExists, Objects
    <3> QED
        BY <3>1, <3>2
  <2> QED
      BY <1>1, <1>2, <2>1 DEF EnvDescribesBox, VolumesBacked, OwnedObjects, Objects,
         Containers, Volumes
<1> QED
    BY <1>3, <1>4

\* Starting a command, taking the lock, or dying without it.
LEMMA UnlockedStep ==
    ASSUME IInv, TypeOK', NEW p \in Procs, pc[p] \notin Locked, Step(p),
           Begin(p) \/ PruneSnapshot(p) \/ Acquire(p) \/ Crash(p)
    PROVE  IInv'
<1>t. TypeOK /\ EnvDescribesBox /\ VolumesBacked
    BY DEF IInv
<1>1. EnvDescribesBox' /\ VolumesBacked'
    BY <1>t, BoxFrame DEF Begin, PruneSnapshot, Acquire, Crash, docker
<1>2. ASSUME NEW q \in Procs, q # p PROVE ProcInv(q)'
  <2>1. pc'[q] = pc[q] /\ loc'[q] = loc[q]
      BY <1>t, <1>2, OthersSame
  <2>2. ProcInv(q)
      BY DEF IInv
  <2>3. Exclusive(q)'
      BY <1>2, <2>1, <2>2, ConstantsAssumption
         DEF ProcInv, Exclusive, Begin, PruneSnapshot, Acquire, Crash, Return
  <2>4. UNCHANGED <<own, raced, env>>
      BY DEF Begin, PruneSnapshot, Acquire, Crash, docker
  <2> QED
      BY <2>1, <2>2, <2>3, <2>4 DEF ProcInv, Flow, StillFresh, TokenSaved, WindowKnown, Window,
         MadeIt, TargetsCover, DestroySteps, Cmd
<1>3. ProcInv(p)'
  <2>1. CASE Return(p)
      BY <1>t, <2>1, ReturnInv
  <2>2. CASE Begin(p) \/ (PruneSnapshot(p) /\ ~Return(p))
    <3>1. pc'[p] \in {"snapshot", "acquire"}
        BY <1>t, <2>2 DEF Begin, PruneSnapshot, Goto, TypeOK
    <3> QED
        BY <3>1 DEF Locked, ProcInv, Flow, Exclusive, StillFresh, TokenSaved, WindowKnown, Window,
           MadeIt, TargetsCover, DestroySteps
  <2>3. CASE Acquire(p) /\ ~Return(p)
    <3>1. lock' = p /\ pc'[p] = FirstStep(Cmd(p)) /\ loc'[p].cmd = loc[p].cmd
        BY <1>t, <2>3 DEF Acquire, Goto, TypeOK, Locals
    <3>2. /\ pc'[p] \in {"fresh", "get", "recheck"}
          /\ pc'[p] = "fresh" <=> Cmd(p) \in Fresh
        BY <3>1 DEF FirstStep, Fresh
    <3> QED
        BY <3>1, <3>2 DEF ProcInv, Flow, Exclusive, StillFresh, TokenSaved, WindowKnown, Window,
           MadeIt, TargetsCover, DestroySteps, Cmd
  <2> QED
      BY <2>1, <2>2, <2>3 DEF Crash
<1> QED
    BY <1>1, <1>2, <1>3 DEF IInv

\* Interference: box objects may only disappear, the network of the box stays,
\* a volume turns foreign in a window only as a raced one, and the processes keep
\* their state.
LEMMA InterferenceInv ==
    ASSUME TypeOK, NEW q \in Procs, ProcInv(q), UNCHANGED <<env, lock, pc>>,
           \A o \in Objects : own'[o] = "box" => own[o] = "box",
           own["network"] = "box" => own'["network"] = "box",
           raced \subseteq raced',
           \A v \in Volumes : own'[v] = "foreign" /\ pc[q] \in Window(v)
                                => own[v] = "foreign" \/ v \in raced',
           /\ loc'[q].cmd = loc[q].cmd /\ loc'[q].tok = loc[q].tok
           /\ loc'[q].made = loc[q].made /\ loc'[q].targets = loc[q].targets
           /\ loc'[q].errs = loc[q].errs
    PROVE  ProcInv(q)'
<1>o. {"agentVol", "execVol"} \subseteq Volumes /\ Volumes \subseteq Objects
      /\ "network" \in Objects
    BY DEF Objects, Volumes
<1>1. StillFresh(q)'
    BY <1>o DEF ProcInv, StillFresh, Cmd
<1>2. MadeIt(q)'
    BY <1>o DEF ProcInv, MadeIt, Cmd
<1>3. TargetsCover(q)'
    BY <1>o DEF ProcInv, TargetsCover, DestroySteps, Cmd
<1>4. WindowKnown(q)'
    BY <1>o DEF ProcInv, WindowKnown, Window
<1> QED
    BY <1>o, <1>1, <1>2, <1>3, <1>4 DEF ProcInv, Flow, Exclusive, TokenSaved, Cmd

\* A release changes nothing but the history of mount.
LEMMA ReleaseKeeps ==
    ASSUME TypeOK, NEW procs, Release(procs), NEW q \in Procs
    PROVE  /\ loc'[q].cmd = loc[q].cmd /\ loc'[q].tok = loc[q].tok
           /\ loc'[q].made = loc[q].made /\ loc'[q].targets = loc[q].targets
           /\ loc'[q].errs = loc[q].errs
BY DEF Release, TypeOK, Locals

LEMMA OutsideInv ==
    ASSUME IInv, TypeOK',
           \/ \E c \in Containers : DockerRm(c)
           \/ \E o \in Objects : TakeName(o)
           \/ \E v \in Volumes : DockerVolumeRm(v)
           \/ HbPause \/ HbResume
    PROVE  IInv'
<1>t. TypeOK /\ EnvDescribesBox /\ VolumesBacked
    BY DEF IInv
<1>o. Containers \subseteq Objects /\ Volumes \subseteq Objects /\ "network" \in Objects
      /\ Containers \cap (Volumes \cup {"network"}) = {} /\ "network" \notin Volumes
    BY DEF Objects, Containers, Volumes
<1>1. CASE \E c \in Containers : DockerRm(c)
  <2>1. PICK c \in Containers : DockerRm(c)
      BY <1>1
  <2>2. own' = [own EXCEPT ![c] = "absent"] /\ UNCHANGED <<env, lock, pc, loc, raced>>
      BY <2>1 DEF DockerRm, RemoveContainer
  <2>3. /\ \A o \in Objects : own'[o] = "box" => own[o] = "box"
        /\ own["network"] = "box" => own'["network"] = "box"
        /\ \A v \in Volumes : own'[v] = own[v]
      BY <1>t, <1>o, <2>2 DEF TypeOK
  <2>4. \A q \in Procs : ProcInv(q)'
      BY <1>t, <2>2, <2>3, InterferenceInv DEF IInv
  <2>5. EnvDescribesBox' /\ VolumesBacked'
      BY <1>t, <2>1, RemoveBox DEF DockerRm
  <2> QED
      BY <2>4, <2>5 DEF IInv
<1>2. CASE \E o \in Objects : TakeName(o)
  <2>1. PICK o \in Objects : TakeName(o)
      BY <1>2
  <2>2. own[o] = "absent" /\ own' = [own EXCEPT ![o] = "foreign"]
        /\ raced' = (IF Races(o) THEN raced \cup {o} ELSE raced)
        /\ UNCHANGED <<ctok, env, lock, pc, loc>>
      BY <2>1 DEF TakeName
  <2>3. /\ \A x \in Objects : own'[x] = "box" <=> own[x] = "box"
        /\ \A x \in Objects \ {o} : own'[x] = own[x]
        /\ raced \subseteq raced'
      BY <1>t, <2>2 DEF TypeOK
  <2>4. ASSUME NEW q \in Procs PROVE ProcInv(q)'
    <3>1. ASSUME NEW v \in Volumes, own'[v] = "foreign", pc[q] \in Window(v)
          PROVE  own[v] = "foreign" \/ v \in raced'
      <4>1. CASE v = o
          BY <2>2, <3>1, <4>1 DEF Races
      <4>2. CASE v # o
          BY <1>o, <2>3, <3>1, <4>2
      <4> QED
          BY <4>1, <4>2
    <3> QED
        BY <1>t, <1>o, <2>2, <2>3, <3>1, InterferenceInv DEF IInv
  <2>5. EnvDescribesBox' /\ VolumesBacked'
    <3>1. \A c \in Containers : VolumeOf(c) \in Objects
        BY DEF VolumeOf, Objects, Volumes
    <3> QED
        BY <1>t, <1>o, <2>2, <2>3, <3>1 DEF EnvDescribesBox, VolumesBacked, OwnedObjects
  <2> QED
      BY <2>4, <2>5 DEF IInv
<1>3. CASE HbPause \/ HbResume
  <2>1. UNCHANGED <<own, ctok, raced, env, lock, pc>>
      BY <1>3 DEF HbPause, HbResume, docker
  <2>2. ASSUME NEW q \in Procs
        PROVE  /\ loc'[q].cmd = loc[q].cmd /\ loc'[q].tok = loc[q].tok
               /\ loc'[q].made = loc[q].made /\ loc'[q].targets = loc[q].targets
               /\ loc'[q].errs = loc[q].errs
    <3>1. CASE HbPause
        BY <1>t, <3>1 DEF HbPause, TypeOK, Locals
    <3>2. CASE HbResume
        BY <1>t, <3>2, ReleaseKeeps DEF HbResume
    <3> QED
        BY <1>3, <3>1, <3>2
  <2>3. \A q \in Procs : ProcInv(q)'
      BY <1>t, <2>1, <2>2, InterferenceInv DEF IInv
  <2>4. EnvDescribesBox' /\ VolumesBacked'
      BY <1>t, <2>1, BoxFrame
  <2> QED
      BY <2>3, <2>4 DEF IInv
<1>4. CASE \E v \in Volumes : DockerVolumeRm(v)
  <2>1. PICK v \in Volumes : DockerVolumeRm(v)
      BY <1>4
  <2>2. /\ own' = [own EXCEPT ![v] = "absent"] /\ own[v] = "box"
        /\ UNCHANGED <<env, lock, pc, ctok, raced>>
        /\ \A c \in Containers : VolumeOf(c) = v => own[c] # "box"
      BY <2>1 DEF DockerVolumeRm
  <2>3. own'[v] = "absent" /\ \A o \in Objects \ {v} : own'[o] = own[o]
      BY <1>t, <1>o, <2>2 DEF TypeOK
  <2>4. ASSUME NEW q \in Procs PROVE ProcInv(q)'
    <3>1. PICK procs : Release(procs)
        BY <2>1 DEF DockerVolumeRm
    <3>2. /\ loc'[q].cmd = loc[q].cmd /\ loc'[q].tok = loc[q].tok
          /\ loc'[q].made = loc[q].made /\ loc'[q].targets = loc[q].targets
          /\ loc'[q].errs = loc[q].errs
        BY <1>t, <3>1, ReleaseKeeps
    <3> QED
        BY <1>t, <1>o, <2>2, <2>3, <3>2, InterferenceInv DEF IInv
  <2>5. EnvDescribesBox' /\ VolumesBacked'
    <3>1. \A c \in Containers : c \in Objects \ {v} /\ VolumeOf(c) \in Objects
        BY <1>o DEF VolumeOf, Objects, Volumes
    <3> QED
        BY <1>t, <1>o, <2>2, <2>3, <3>1 DEF EnvDescribesBox, VolumesBacked, OwnedObjects
  <2> QED
      BY <2>4, <2>5 DEF IInv
<1> QED
    BY <1>1, <1>2, <1>3, <1>4

LEMMA IInvInit == Init => IInv
<1> SUFFICES ASSUME Init PROVE IInv
    OBVIOUS
<1>1. \A o \in Objects : own[o] # "box"
    BY DEF Init
<1>2. EnvDescribesBox /\ VolumesBacked
    BY <1>1 DEF EnvDescribesBox, VolumesBacked, OwnedObjects, Objects, Containers, Volumes
<1>3. \A p \in Procs : pc[p] \in Unlocked
    BY DEF Init, Unlocked
<1> QED
    BY <1>2, <1>3, TypeInit, UnlockedInv DEF IInv

\* The only steps outside the lock.
LEMMA UnlockedSteps ==
    ASSUME NEW p \in Procs, Step(p), pc[p] \notin Locked
    PROVE  Begin(p) \/ PruneSnapshot(p) \/ Acquire(p) \/ Crash(p)
BY DEF Step, Locked, CheckFresh, SaveConfig, SaveNoMounts, SaveResources,
   EnsureImage, PrepareAgentMounts, FindNetwork, FindAgentVolume, FindExecVolume,
   CreateNetwork, CreateAgentVolume, CreateExecVolume, CreateAgent, CreateExecutor, RemoveLeakedAgent, Restore, StartExecutor, StartAgent,
   PrepareRuntime, StopAgent, StopExecutor, GetFails, GetForDelete, GetForStart,
   GetForStop, GetForUpgrade, PreflightUpgrade, GetForMount, InspectTargets,
   RemoveAgent, RemoveExecutor, ContainersRemoved, RemoveNetwork, RemoveAgentVol,
   RemoveExecVol, RecheckAgentVol, RecheckExecVol, RemoveBoxEnv, RecreateStop,
   RecreateRemove, RecreateCreate, RecreateStart, PersistMounts, AskQuiesced,
   PruneStateFile

LEMMA IInvStep == IInv /\ [Next]_vars => IInv'
<1> SUFFICES ASSUME IInv, [Next]_vars PROVE IInv'
    OBVIOUS
<1>t. TypeOK /\ TypeOK'
    BY TypeStep DEF IInv
<1>1. ASSUME NEW p \in Procs, Step(p) PROVE IInv'
  <2>1. \A q \in Procs \ {p} : pc'[q] = pc[q] /\ loc'[q] = loc[q]
      BY <1>t, <1>1, OthersSame
  <2>2. CASE pc[p] \in Locked
    <3>1. ProcInv(p)' /\ EnvDescribesBox' /\ VolumesBacked'
      <4>1. ~(Begin(p) \/ PruneSnapshot(p) \/ Acquire(p))
          BY <2>2 DEF Locked, Begin, PruneSnapshot, Acquire
      <4> QED
          BY <1>1, <2>2, <4>1, AdmissionInv, SaveConfigInv, FindInv, MakeInv, CreationInv,
             RestoreInv, RunningInv, PreflightInv, RecreateInv, RemoveTargetInv, RecheckInv,
             DestroyInv, ForgetInv DEF Step
    <3> QED
        BY <1>t, <2>1, <2>2, <3>1, HolderStep
  <2>3. CASE pc[p] \notin Locked
    <3>1. Begin(p) \/ PruneSnapshot(p) \/ Acquire(p) \/ Crash(p)
        BY <1>1, <2>3, UnlockedSteps
    <3> QED
        BY <1>1, <1>t, <2>3, <3>1, UnlockedStep
  <2> QED
      BY <2>2, <2>3
<1>2. CASE UNCHANGED vars
    BY <1>2, <1>t DEF vars, IInv, ProcInv, Flow, Exclusive, StillFresh, TokenSaved, WindowKnown, Window,
       MadeIt, TargetsCover, DestroySteps, Cmd, EnvDescribesBox, VolumesBacked, OwnedObjects
<1> QED
    BY <1>1, <1>2, <1>t, OutsideInv DEF Next

LEMMA IInvCorrect == Spec => []IInv
BY IInvInit, IInvStep, PTL DEF Spec

\* While one Docker object of a box is left, its token is still in the env
\* file and in both containers, for any number of concurrent commands.
THEOREM EnvCorrect == Spec => []EnvDescribesBox
<1>1. IInv => EnvDescribesBox
    BY DEF IInv
<1> QED
    BY <1>1, IInvCorrect, PTL

\* A container of the box sits on a volume of the box, or on one that came under
\* the volume's name between a command's look at it and its use.
THEOREM VolumesCorrect == Spec => []VolumesBacked
<1>1. IInv => VolumesBacked
    BY DEF IInv
<1> QED
    BY <1>1, IInvCorrect, PTL

\* What is about to be wiped or removed as the agent volume is the box's own data
\* only for delete, or for the create or import that made it, and another's only if
\* it came under the name since the command looked.
THEOREM DurableCorrect == Spec => []DurableDataSafe
<1>1. IInv => DurableDataSafe
  <2> SUFFICES ASSUME IInv, NEW p \in Procs, pc[p] \in {"restore", "dropAgentVol"}
               PROVE  /\ own["agentVol"] = "box" => Cmd(p) = "delete" \/ loc[p].made
                      /\ own["agentVol"] = "foreign" => "agentVol" \in raced
      BY DEF DurableDataSafe
  <2>1. Flow(p) /\ MadeIt(p) /\ WindowKnown(p)
      BY DEF IInv, ProcInv
  <2> QED
      BY <2>1 DEF Flow, MadeIt, WindowKnown, Window, Fresh
<1> QED
    BY <1>1, IInvCorrect, PTL

-----------------------------------------------------------------------------
(* Objects of others.                                                      *)

\* A step that removes and relabels no object of others.
KeepsForeign == \A o \in Objects : own[o] = "foreign" => own'[o] = "foreign"

\* Only the removals of Destroy by name can take one.
LEMMA KeepsForeignStep ==
    ASSUME IInv, [Next]_vars, \A p \in Procs : ~RemoveAgentVol(p) /\ ~RemoveExecVol(p)
    PROVE  KeepsForeign
<1>t. TypeOK
    BY DEF IInv
<1>u. own' = own => KeepsForeign
    BY DEF KeepsForeign
<1>d. UNCHANGED docker => KeepsForeign
    BY DEF KeepsForeign, docker
<1>o. {"agentVol", "execVol", "network"} \subseteq Objects
    BY DEF Objects, Volumes
<1>e. \A v \in Volumes : MakeNetwork \/ MakeVolume(v) => KeepsForeign
    BY <1>t, <1>o DEF MakeNetwork, MakeVolume, KeepsForeign, TypeOK, Volumes
<1>b. BindVolume("agentVol", own) => KeepsForeign
    BY <1>t, <1>o DEF BindVolume, KeepsForeign, TypeOK
<1>c. ASSUME NEW p \in Procs, NEW c \in Containers, CreateContainer(p, c)
      PROVE  KeepsForeign
  <2>1. own[c] = "absent" /\ BindVolume(VolumeOf(c), [own EXCEPT ![c] = "box"])
      BY <1>c DEF CreateContainer
  <2>2. VolumeOf(c) # c /\ VolumeOf(c) \in Objects /\ c \in Objects
      BY DEF VolumeOf, Objects, Containers, Volumes
  <2> QED
      BY <1>t, <2>1, <2>2 DEF BindVolume, KeepsForeign, TypeOK
<1>r. \A c : own[c] = "box" /\ RemoveContainer(c) => KeepsForeign
    BY <1>t DEF RemoveContainer, KeepsForeign, TypeOK
<1>s. \A c : StopContainer(c) \/ StartContainer(c) => KeepsForeign
    BY DEF StopContainer, StartContainer, KeepsForeign, docker
<1>f. \A p, o, make, next : Find(p, o, make, next) => KeepsForeign
    BY <1>d DEF Find
<1>v. \A p, v, drop, next : RecheckVolume(p, v, drop, next) => KeepsForeign
    BY <1>d DEF RecheckVolume
<1>1. ASSUME NEW p \in Procs, Step(p) PROVE KeepsForeign
  <2>1. CASE \/ Begin(p) \/ PruneSnapshot(p) \/ Acquire(p) \/ Crash(p)
             \/ CheckFresh(p) \/ SaveConfig(p) \/ SaveNoMounts(p) \/ SaveResources(p)
             \/ EnsureImage(p) \/ PrepareAgentMounts(p) \/ PrepareRuntime(p)
             \/ GetFails(p) \/ GetForDelete(p) \/ GetForStart(p) \/ GetForStop(p)
             \/ GetForUpgrade(p) \/ PreflightUpgrade(p) \/ GetForMount(p)
             \/ InspectTargets(p) \/ ContainersRemoved(p) \/ RemoveBoxEnv(p)
             \/ PersistMounts(p) \/ AskQuiesced(p) \/ PruneStateFile(p)
      BY <1>d, <2>1 DEF Begin, PruneSnapshot, Acquire, Crash, CheckFresh, SaveConfig,
         SaveNoMounts, SaveResources, EnsureImage, PrepareAgentMounts,
         PrepareRuntime, GetFails, GetForDelete, GetForStart, GetForStop, GetForUpgrade,
         PreflightUpgrade, GetForMount, InspectTargets, ContainersRemoved, RemoveBoxEnv,
         PersistMounts, AskQuiesced, PruneStateFile
  <2>2. CASE \/ CreateNetwork(p) \/ CreateAgentVolume(p) \/ CreateExecVolume(p)
             \/ RemoveLeakedAgent(p) \/ RecreateRemove(p)
      BY <1>d, <1>e, <1>r, <2>2 DEF CreateNetwork, CreateAgentVolume, CreateExecVolume,
         RemoveLeakedAgent, RecreateRemove, Volumes
  <2>3. CASE \/ StartExecutor(p) \/ StartAgent(p) \/ StopAgent(p) \/ StopExecutor(p)
             \/ RecreateStop(p) \/ RecreateStart(p)
      BY <1>d, <1>s, <1>u, <2>3 DEF StartExecutor, StartAgent, StopAgent, StopExecutor,
         RecreateStop, RecreateStart
  <2>4. CASE RemoveAgent(p) \/ RemoveExecutor(p)
      BY <1>d, <1>r, <1>s, <2>4 DEF RemoveAgent, RemoveExecutor, RemoveTarget
  <2>5. CASE RemoveNetwork(p)
    <3>1. Cmd(p) # "upgrade" /\ ("network" \in loc[p].targets => own["network"] = "box")
        BY <2>5 DEF RemoveNetwork, IInv, ProcInv, Flow, Fresh, TargetsCover
    <3> QED
        BY <1>t, <1>d, <1>o, <2>5, <3>1 DEF RemoveNetwork, KeepsForeign, TypeOK
  <2>6. CASE CreateAgent(p) \/ CreateExecutor(p) \/ RecreateCreate(p)
      BY <1>c, <1>d, <2>6 DEF CreateAgent, CreateExecutor, RecreateCreate, Containers
  <2>7. CASE Restore(p)
      BY <1>b, <1>u, <2>7 DEF Restore
  <2>8. CASE FindNetwork(p) \/ FindAgentVolume(p) \/ FindExecVolume(p)
      BY <1>f, <2>8 DEF FindNetwork, FindAgentVolume, FindExecVolume
  <2>9. CASE RecheckAgentVol(p) \/ RecheckExecVol(p)
      BY <1>v, <2>9 DEF RecheckAgentVol, RecheckExecVol
  <2> QED
      BY <1>1, <2>1, <2>2, <2>3, <2>4, <2>5, <2>6, <2>7, <2>8, <2>9 DEF Step
<1>2. CASE \E c \in Containers : DockerRm(c)
    BY <1>r, <1>2 DEF DockerRm
<1>3. CASE \E o \in Objects : TakeName(o)
    BY <1>t, <1>3 DEF TakeName, KeepsForeign, TypeOK
<1>4. CASE HbPause \/ HbResume \/ UNCHANGED vars
    BY <1>d, <1>u, <1>4 DEF HbPause, HbResume, vars
<1>5. CASE \E v \in Volumes : DockerVolumeRm(v)
    BY <1>t, <1>5 DEF DockerVolumeRm, KeepsForeign, TypeOK
<1> QED
    BY <1>1, <1>2, <1>3, <1>4, <1>5 DEF Next

LEMMA ForeignStep ==
    ASSUME IInv, [Next]_vars, NEW o \in Objects, own[o] = "foreign", own'[o] # "foreign"
    PROVE  o \in raced /\ \E p \in Procs : pc[p] \in {"dropAgentVol", "dropExecVol"}
<1>1. PICK p \in Procs : RemoveAgentVol(p) \/ RemoveExecVol(p)
    BY KeepsForeignStep DEF KeepsForeign
<1>t. own \in [Objects -> {"absent", "box", "foreign"}] /\ WindowKnown(p)
    BY DEF IInv, TypeOK, ProcInv
<1>2. CASE RemoveAgentVol(p)
  <2>1. pc[p] = "dropAgentVol" /\ o = "agentVol"
      BY <1>2, <1>t DEF RemoveAgentVol, DropVolume, docker
  <2> QED
      BY <1>t, <2>1 DEF WindowKnown, Window
<1>3. CASE RemoveExecVol(p)
  <2>1. pc[p] = "dropExecVol" /\ o = "execVol"
      BY <1>3, <1>t DEF RemoveExecVol, DropVolume, docker
  <2> QED
      BY <1>t, <2>1 DEF WindowKnown, Window
<1> QED
    BY <1>1, <1>2, <1>3

\* tx9 removes or relabels an object that is not its own in one case only: the
\* removal by name of a volume that came under the name after Destroy's last check.
THEOREM ForeignCorrect == Spec => ForeignUntouched
<1>1. IInv /\ [Next]_vars
        => [\A o \in Objects : own[o] = "foreign" /\ own'[o] # "foreign" =>
              /\ o \in raced
              /\ \E p \in Procs : pc[p] \in {"dropAgentVol", "dropExecVol"}]_vars
    BY ForeignStep
<1> QED
    BY <1>1, IInvCorrect, PTL DEF Spec, ForeignUntouched

-----------------------------------------------------------------------------
(* The mounts of the container and of the env file.                        *)

\* Steps after which an agent is created from what the env file says: by any
\* command, and by upgrade.
FromFile(p) ==
    \/ /\ pc[p] \in {"saveResources", "image", "prepareMounts", "network", "makeNetwork",
                     "agentVol", "makeAgentVol", "execVol", "makeExecVol", "createAgent"}
       /\ Cmd(p) # "mount"
    \/ Cmd(p) = "upgrade" /\ pc[p] \in {"preflight", "saveConfig", "rmAgent", "rmExecutor",
                                        "removed"}

\* The steps of a mount change from its check to its save, and those with the
\* new agent in place, as long as nobody removes that.
ChangeSteps == {"network", "makeNetwork", "agentVol", "makeAgentVol", "reStop", "reRemove",
                "reCreate", "reStart", "reSave"}
Changing(p) == Cmd(p) = "mount" /\ pc[p] \in ChangeSteps
Changed(p) == pc[p] \in {"reStart", "reSave"} /\ own["agent"] = "box"

\* Two mount sets that differ in one target at most.
OneApart(m, n) == \A t, u \in Targets : m[t] # n[t] /\ m[u] # n[u] => t = u

\* What a command wants the agent to have, compared with what the file says.
Wanted(p) ==
    /\ pc[p] \in Unlocked \/ Cmd(p) \in Fresh => loc[p].mounts = NoMounts
    /\ FromFile(p) => loc[p].mounts = env.mounts
    /\ Changing(p) => OneApart(loc[p].mounts, env.mounts)
    /\ Changed(p) => cmounts = loc[p].mounts

MInv == MountsDivergeByOne /\ \A p \in Procs : Wanted(p)

\* What a step of process p has to leave true.
MountsKept(p) == MountsDivergeByOne' /\ Wanted(p)'

\* The container's mounts and those of the file are as before, and no agent
\* container appears.
SameMounts ==
    /\ env'.mounts = env.mounts
    /\ own'["agent"] = "box" => own["agent"] = "box" /\ cmounts' = cmounts

LEMMA SameMountsDiverge ==
    ASSUME MountsDivergeByOne, SameMounts
    PROVE  MountsDivergeByOne'
BY DEF MountsDivergeByOne, SameMounts

LEMMA OneApartDiverge ==
    ASSUME OneApart(cmounts, env.mounts)
    PROVE  MountsDivergeByOne
BY DEF MountsDivergeByOne, OneApart

\* A command that returns wants nothing any more.
LEMMA ReturnWants ==
    ASSUME TypeOK, NEW p \in Procs, Return(p)
    PROVE  Wanted(p)'
<1>1. pc'[p] = "idle" /\ loc'[p] = Idle
    BY DEF Return, TypeOK
<1> QED
    BY <1>1 DEF Wanted, Idle, FromFile, Changing, ChangeSteps, Changed, Cmd, Fresh

\* A command that goes on wants what it wanted, unless its next step asks for
\* more than the step it was at.
LEMMA MoveWants ==
    ASSUME NEW p \in Procs, Wanted(p), pc[p] \in Locked, pc'[p] \in Locked,
           loc'[p].mounts = loc[p].mounts, loc'[p].cmd = loc[p].cmd,
           SameMounts,
           FromFile(p)' => FromFile(p),
           Changing(p)' => Changing(p),
           pc'[p] \in {"reStart", "reSave"} => pc[p] \in {"reStart", "reSave"}
    PROVE  Wanted(p)'
<1>1. Changed(p)' => Changed(p) /\ cmounts' = cmounts
    BY DEF Changed, SameMounts
<1> QED
    BY <1>1 DEF Wanted, Cmd, Fresh, Unlocked, Locked, SameMounts

LEMMA GiveUpWants ==
    ASSUME TypeOK, NEW p \in Procs, Wanted(p), pc[p] \in Locked, GiveUp(p)
    PROVE  Wanted(p)'
<1>1. CASE Cmd(p) \in Fresh
  <2>1. pc'[p] = "inspect" /\ loc' = loc
      BY <1>1 DEF GiveUp, Goto, Fresh, TypeOK
  <2> QED
      BY <1>1, <2>1 DEF Wanted, FromFile, Changing, ChangeSteps, Changed, Cmd, Fresh, Unlocked
<1>2. CASE Cmd(p) \notin Fresh
    BY <1>2, ReturnWants DEF GiveUp, Fresh
<1> QED
    BY <1>1, <1>2

\* Admission, the env file's other keys, and box.Create up to the agent.
LEMMA AdmissionMounts ==
    ASSUME IInv, MInv, NEW p \in Procs, pc[p] \in Locked,
           \/ CheckFresh(p) \/ SaveResources(p) \/ EnsureImage(p) \/ PrepareAgentMounts(p)
           \/ ContainersRemoved(p) \/ FindNetwork(p) \/ FindAgentVolume(p)
           \/ FindExecVolume(p) \/ CreateNetwork(p) \/ CreateExecVolume(p)
    PROVE  MountsKept(p)
<1>t. TypeOK /\ ProcInv(p) /\ Wanted(p) /\ MountsDivergeByOne
    BY DEF IInv, MInv
<1>1. SameMounts
    BY <1>t DEF CheckFresh, SaveResources, EnsureImage, PrepareAgentMounts, ContainersRemoved,
       FindNetwork, FindAgentVolume, FindExecVolume, Find, CreateNetwork, CreateExecVolume,
       MakeNetwork, MakeVolume, docker, SameMounts, TypeOK, Objects, Volumes, Containers
<1>2. CASE Return(p) \/ GiveUp(p)
    BY <1>t, <1>1, <1>2, SameMountsDiverge, ReturnWants, GiveUpWants DEF MountsKept
<1>3. CASE ~(Return(p) \/ GiveUp(p))
  <2>1. loc' = loc
      BY <1>3 DEF CheckFresh, SaveResources, EnsureImage, PrepareAgentMounts,
         ContainersRemoved, FindNetwork, FindAgentVolume, FindExecVolume, Find, CreateNetwork,
         CreateExecVolume
  <2>2. /\ \/ pc[p] = "fresh" /\ pc'[p] = "saveConfig"
           \/ /\ pc[p] = "saveResources"
              /\ pc'[p] \in {"prepareMounts", "image"} \/ pc'[p] = "rmAgent"
           \/ pc[p] = "image" /\ pc'[p] = "prepareMounts"
           \/ pc[p] = "prepareMounts" /\ pc'[p] = "network"
           \/ pc[p] = "removed" /\ pc'[p] = "prepareMounts"
           \/ pc[p] = "network" /\ pc'[p] \in {"makeNetwork", "agentVol"}
           \/ pc[p] = "makeNetwork" /\ pc'[p] = "agentVol"
           \/ pc[p] = "agentVol" /\ pc'[p] \in {"makeAgentVol", AfterAgentVolume(p)}
           \/ pc[p] = "execVol" /\ pc'[p] \in {"makeExecVol", "createAgent"}
           \/ pc[p] = "makeExecVol" /\ pc'[p] = "createAgent"
      BY <1>t, <1>3 DEF CheckFresh, SaveResources, EnsureImage, PrepareAgentMounts,
         ContainersRemoved, FindNetwork, FindAgentVolume, FindExecVolume, Find, CreateNetwork,
         CreateExecVolume, Goto, TypeOK
  <2>3. /\ pc[p] = "fresh" => Cmd(p) # "upgrade"
        /\ pc[p] \in {"prepareMounts", "saveResources", "image"} => Cmd(p) # "mount"
      BY <1>t DEF ProcInv, Flow, Fresh
  <2>6. AfterAgentVolume(p) \in {"execVol", "reStop", "reRemove"}
        /\ (AfterAgentVolume(p) = "execVol" <=> Cmd(p) # "mount")
      BY DEF AfterAgentVolume
  <2>4. pc[p] = "removed" => Cmd(p) = "upgrade"
      BY <1>t DEF ProcInv, Flow
  <2>5. Wanted(p)'
      BY <1>t, <1>1, <2>1, <2>2, <2>3, <2>4, <2>6, MoveWants
         DEF FromFile, Changing, ChangeSteps, Cmd, Locked
  <2> QED
      BY <1>t, <1>1, <2>5, SameMountsDiverge DEF MountsKept
<1> QED
    BY <1>2, <1>3

\* The steps that write the env file of a box being made, and the volume.
LEMMA SaveMounts ==
    ASSUME IInv, MInv, NEW p \in Procs, pc[p] \in Locked,
           SaveConfig(p) \/ SaveNoMounts(p) \/ CreateAgentVolume(p)
    PROVE  MountsKept(p)
<1>t. TypeOK /\ ProcInv(p) /\ Wanted(p) /\ MountsDivergeByOne
    BY DEF IInv, MInv
<1>l. loc \in [Procs -> Locals] /\ pc \in [Procs -> Unlocked \cup Locked]
      /\ env \in [token : Tokens \cup {NoToken}, mounts : MountSets]
    BY <1>t DEF TypeOK
<1>1. CASE SaveConfig(p)
  <2>1. SameMounts
      BY <1>1, <1>l DEF SaveConfig, docker, SameMounts
  <2>2. CASE Return(p)
      BY <1>t, <2>1, <2>2, SameMountsDiverge, ReturnWants DEF MountsKept
  <2>3. CASE ~Return(p)
    <3>1. PICK t \in Tokens :
              /\ loc' = [loc EXCEPT ![p].tok = t]
              /\ Goto(p, IF Cmd(p) = "upgrade" THEN "saveResources" ELSE "saveMounts")
        BY <1>1, <2>3 DEF SaveConfig
    <3>2. loc'[p].mounts = loc[p].mounts /\ loc'[p].cmd = loc[p].cmd
        BY <1>l, <3>1 DEF Locals
    <3>3. /\ pc[p] = "saveConfig"
          /\ pc'[p] = IF Cmd(p) = "upgrade" THEN "saveResources" ELSE "saveMounts"
        BY <1>1, <1>l, <3>1 DEF SaveConfig, Goto
    <3>4. Wanted(p)'
        BY <1>t, <2>1, <3>2, <3>3, MoveWants
           DEF FromFile, Changing, ChangeSteps, Changed, SameMounts, Cmd, Locked
    <3> QED
        BY <1>t, <2>1, <3>4, SameMountsDiverge DEF MountsKept
  <2> QED
      BY <2>2, <2>3
<1>2. CASE SaveNoMounts(p)
  <2>1. Cmd(p) \in Fresh /\ pc[p] = "saveMounts" /\ own' = own
      BY <1>t, <1>2 DEF SaveNoMounts, ProcInv, Flow, docker
  <2>2. own["agent"] # "box"
      BY <1>t, <2>1 DEF ProcInv, StillFresh, Objects, Containers
  <2>3. MountsDivergeByOne'
      BY <2>1, <2>2 DEF MountsDivergeByOne
  <2>4. CASE ~Return(p)
    <3>1. loc' = loc /\ env'.mounts = NoMounts /\ pc'[p] = "saveResources"
        BY <1>2, <1>l, <2>4 DEF SaveNoMounts, Goto
    <3>2. loc[p].mounts = NoMounts
        BY <1>t, <2>1 DEF Wanted
    <3> QED
        BY <2>1, <2>3, <3>1, <3>2
           DEF MountsKept, Wanted, FromFile, Changing, ChangeSteps, Changed, Cmd
  <2> QED
      BY <1>t, <2>3, <2>4, ReturnWants DEF MountsKept
<1>3. CASE CreateAgentVolume(p)
  <2>1. SameMounts
      BY <1>3, <1>t DEF CreateAgentVolume, MakeVolume, docker, SameMounts, TypeOK,
         Objects, Volumes, Containers
  <2>2. CASE GiveUp(p)
      BY <1>t, <2>1, <2>2, SameMountsDiverge, GiveUpWants DEF MountsKept
  <2>3. CASE ~GiveUp(p)
    <3>1. /\ loc' = [loc EXCEPT ![p].made = (own["agentVol"] = "absent")]
          /\ pc[p] = "makeAgentVol" /\ pc'[p] = AfterAgentVolume(p)
        BY <1>3, <1>l, <2>3 DEF CreateAgentVolume, Goto
    <3>2. loc'[p].mounts = loc[p].mounts /\ loc'[p].cmd = loc[p].cmd
        BY <1>l, <3>1 DEF Locals
    <3>3. AfterAgentVolume(p) \in {"execVol", "reStop", "reRemove"}
          /\ (AfterAgentVolume(p) = "execVol" <=> Cmd(p) # "mount")
        BY DEF AfterAgentVolume
    <3>4. Wanted(p)'
        BY <1>t, <2>1, <3>1, <3>2, <3>3, MoveWants DEF FromFile, Changing, ChangeSteps, Cmd, Locked
    <3> QED
        BY <1>t, <2>1, <3>4, SameMountsDiverge DEF MountsKept
  <2> QED
      BY <2>2, <2>3
<1> QED
    BY <1>1, <1>2, <1>3

\* A new agent gets what the command wants, which for create, import and
\* upgrade is what the file says.
LEMMA CreateMounts ==
    ASSUME IInv, MInv, NEW p \in Procs, pc[p] \in Locked, CreateAgent(p) \/ RecreateCreate(p)
    PROVE  MountsKept(p)
<1>t. TypeOK /\ ProcInv(p) /\ Wanted(p) /\ MountsDivergeByOne
    BY DEF IInv, MInv
<1>1. CASE UNCHANGED docker /\ (Return(p) \/ GiveUp(p))
  <2>1. SameMounts
      BY <1>1 DEF CreateAgent, RecreateCreate, docker, SameMounts
  <2> QED
      BY <1>t, <1>1, <2>1, SameMountsDiverge, ReturnWants, GiveUpWants DEF MountsKept
<1>2. CASE CreateContainer(p, "agent") /\ UNCHANGED <<loc, env>>
           /\ \/ pc[p] = "createAgent" /\ Goto(p, "createExecutor")
              \/ /\ pc[p] = "reCreate"
                 /\ Goto(p, IF loc[p].was THEN "reStart" ELSE "reSave")
  <2>1. cmounts' = loc[p].mounts
      BY <1>2 DEF CreateContainer
  <2>2. OneApart(loc[p].mounts, env.mounts)
      BY <1>t, <1>2 DEF Wanted, FromFile, Changing, ChangeSteps, OneApart, ProcInv, Flow, Fresh
  <2>3. MountsDivergeByOne'
      BY <1>2, <2>1, <2>2 DEF MountsDivergeByOne, OneApart
  <2>4. \/ pc[p] = "createAgent" /\ pc'[p] = "createExecutor"
        \/ pc[p] = "reCreate" /\ pc'[p] \in {"reStart", "reSave"}
      BY <1>t, <1>2 DEF Goto, TypeOK
  <2>5. Wanted(p)'
      BY <1>t, <1>2, <2>1, <2>2, <2>4
         DEF Wanted, FromFile, Changing, ChangeSteps, Changed, Cmd, Unlocked, OneApart
  <2> QED
      BY <2>3, <2>5 DEF MountsKept
<1> QED
    BY <1>1, <1>2 DEF CreateAgent, RecreateCreate

\* The steps that neither create an agent nor touch the file, and lead to no
\* creation from the file.
LEMMA QuietMounts ==
    ASSUME IInv, MInv, NEW p \in Procs, pc[p] \in Locked,
           \/ CreateExecutor(p) \/ RemoveLeakedAgent(p) \/ Restore(p) \/ StartExecutor(p)
           \/ StartAgent(p) \/ PrepareRuntime(p) \/ StopAgent(p) \/ StopExecutor(p)
           \/ GetFails(p) \/ GetForDelete(p) \/ GetForStart(p) \/ GetForStop(p)
           \/ AskQuiesced(p) \/ RecreateStop(p)
           \/ RecreateRemove(p) \/ RecreateStart(p) \/ Crash(p)
    PROVE  MountsKept(p)
<1>t. TypeOK /\ ProcInv(p) /\ Wanted(p) /\ MountsDivergeByOne
    BY DEF IInv, MInv
<1>1. SameMounts
    BY <1>t DEF CreateExecutor, RemoveLeakedAgent, Restore, StartExecutor, StartAgent,
       PrepareRuntime, StopAgent, StopExecutor, GetFails, GetForDelete, GetForStart, GetForStop,
       AskQuiesced, RecreateStop, RecreateRemove,
       RecreateStart, Crash, CreateContainer, RemoveContainer, StartContainer, StopContainer,
       BindVolume, VolumeOf, docker, SameMounts, TypeOK, Objects, Volumes, Containers
<1>2. CASE Return(p) \/ GiveUp(p)
    BY <1>t, <1>1, <1>2, SameMountsDiverge, ReturnWants, GiveUpWants DEF MountsKept
<1>3. CASE ~(Return(p) \/ GiveUp(p))
  <2>1. loc' = loc
      BY <1>3 DEF CreateExecutor, RemoveLeakedAgent, Restore, StartExecutor, StartAgent,
         PrepareRuntime, StopAgent, StopExecutor, GetFails, GetForDelete, GetForStart,
         GetForStop, AskQuiesced, RecreateStop, RecreateRemove,
         RecreateStart, Crash
  <2>2. \/ pc'[p] \in {"removeLeaked", "restore", "startExecutor", "startAgent",
                       "prepareRuntime", "stopAgent", "stopExecutor", "inspect"}
        \/ /\ pc[p] \in {"reStop", "reRemove"}
           /\ pc'[p] \in {"reRemove", "reCreate"}
        \/ pc[p] = "reStart" /\ pc'[p] = "reSave"
      BY <1>t, <1>3 DEF CreateExecutor, RemoveLeakedAgent, Restore, StartExecutor, StartAgent,
         PrepareRuntime, StopAgent, StopExecutor, GetFails, GetForDelete, GetForStart,
         GetForStop, AskQuiesced, RecreateStop, RecreateRemove,
         RecreateStart, Crash, Goto, TypeOK
  <2>3. Wanted(p)'
      BY <1>t, <1>1, <2>1, <2>2, MoveWants
         DEF FromFile, Changing, ChangeSteps, Changed, SameMounts, Cmd, Locked
  <2> QED
      BY <1>t, <1>1, <2>3, SameMountsDiverge DEF MountsKept
<1> QED
    BY <1>2, <1>3

\* upgrade takes the mounts of the file, mount changes one of them.
LEMMA GetMounts ==
    ASSUME IInv, MInv, NEW p \in Procs, pc[p] \in Locked,
           GetForUpgrade(p) \/ GetForMount(p) \/ PreflightUpgrade(p)
    PROVE  MountsKept(p)
<1>t. TypeOK /\ ProcInv(p) /\ Wanted(p) /\ MountsDivergeByOne
    BY DEF IInv, MInv
<1>l. loc \in [Procs -> Locals] /\ pc \in [Procs -> Unlocked \cup Locked]
      /\ env.mounts \in MountSets
    BY <1>t DEF TypeOK
<1>1. SameMounts
    BY DEF GetForUpgrade, GetForMount, PreflightUpgrade, docker, SameMounts
<1>d. MountsDivergeByOne'
    BY <1>t, <1>1, SameMountsDiverge
<1>2. CASE GetForUpgrade(p)
  <2>1. /\ pc'[p] = "preflight" /\ Cmd(p) = "upgrade"
        /\ loc' = [loc EXCEPT ![p].mounts = env.mounts]
      BY <1>2, <1>l DEF GetForUpgrade, Goto
  <2>2. loc'[p].mounts = env.mounts /\ loc'[p].cmd = "upgrade"
      BY <1>l, <2>1 DEF Locals, Cmd
  <2> QED
      BY <1>1, <1>d, <2>1, <2>2 DEF MountsKept, Wanted, FromFile, Changing, ChangeSteps, Changed, SameMounts,
         Cmd, Fresh, Unlocked
<1>3. CASE GetForMount(p)
  <2>1. pc'[p] = "network" /\ Cmd(p) = "mount"
      BY <1>3, <1>l DEF GetForMount, Goto
  <2>2. PICK t \in Targets, s \in Sources \cup {NoSource} :
            loc' = [loc EXCEPT ![p].tok = env.token,
                               ![p].mounts = [env.mounts EXCEPT ![t] = s],
                               ![p].was = running["agent"]]
      BY <1>3 DEF GetForMount
  <2>3. loc'[p].mounts = [env.mounts EXCEPT ![t] = s] /\ loc'[p].cmd = "mount"
      BY <1>l, <2>1, <2>2 DEF Locals, Cmd
  <2>4. OneApart([env.mounts EXCEPT ![t] = s], env.mounts)
      BY <1>l DEF OneApart, MountSets
  <2> QED
      BY <1>1, <1>d, <2>1, <2>3, <2>4 DEF MountsKept, Wanted, FromFile, Changing, ChangeSteps, Changed,
         SameMounts, Cmd, Fresh, Unlocked, OneApart
<1>4. CASE PreflightUpgrade(p) /\ ~Return(p)
  <2>1. /\ pc[p] = "preflight" /\ pc'[p] = "saveConfig"
        /\ loc' = [loc EXCEPT ![p].tok = env.token,
                              ![p].targets = OwnedObjects \cap Containers]
      BY <1>4, <1>l DEF PreflightUpgrade, Goto
  <2>2. loc'[p].mounts = loc[p].mounts /\ loc'[p].cmd = loc[p].cmd
      BY <1>l, <2>1 DEF Locals
  <2>3. Wanted(p)'
      BY <1>t, <1>1, <2>1, <2>2, MoveWants
         DEF FromFile, Changing, ChangeSteps, Changed, SameMounts, Cmd, Locked, ProcInv, Flow
  <2> QED
      BY <1>d, <2>3 DEF MountsKept
<1> QED
    BY <1>t, <1>d, <1>2, <1>3, <1>4, ReturnWants DEF MountsKept

\* box.Destroy and the container removal of upgrade.
LEMMA DestroyMounts ==
    ASSUME IInv, MInv, NEW p \in Procs, pc[p] \in Locked,
           \/ InspectTargets(p) \/ RemoveAgent(p) \/ RemoveExecutor(p) \/ RemoveNetwork(p)
           \/ RecheckAgentVol(p) \/ RemoveAgentVol(p) \/ RecheckExecVol(p) \/ RemoveExecVol(p)
    PROVE  MountsKept(p)
<1>t. TypeOK /\ ProcInv(p) /\ Wanted(p) /\ MountsDivergeByOne
    BY DEF IInv, MInv
<1>l. loc \in [Procs -> Locals] /\ pc \in [Procs -> Unlocked \cup Locked]
      /\ own \in [Objects -> {"absent", "box", "foreign"}]
    BY <1>t DEF TypeOK
<1>1. SameMounts
  <2>1. env' = env
      BY DEF InspectTargets, RemoveAgent, RemoveExecutor, RemoveNetwork, RecheckAgentVol,
         RemoveAgentVol, RecheckExecVol, RemoveExecVol
  <2>2. ASSUME UNCHANGED docker \/ \E c \in Containers : RemoveContainer(c) \/ StopContainer(c)
        PROVE  own'["agent"] = "box" => own["agent"] = "box" /\ cmounts' = cmounts
      BY <1>l, <2>2 DEF RemoveContainer, StopContainer, docker, Objects, Containers
  <2>3. CASE InspectTargets(p) \/ RecheckAgentVol(p) \/ RecheckExecVol(p)
      BY <2>1, <2>2, <2>3 DEF InspectTargets, RecheckAgentVol, RecheckExecVol, RecheckVolume,
         SameMounts
  <2>4. CASE RemoveAgent(p) \/ RemoveExecutor(p)
      BY <2>1, <2>2, <2>4 DEF RemoveAgent, RemoveExecutor, RemoveTarget, SameMounts, Containers
  <2>5. CASE RemoveNetwork(p) \/ RemoveAgentVol(p) \/ RemoveExecVol(p)
      BY <1>l, <2>1, <2>5 DEF RemoveNetwork, RemoveAgentVol, RemoveExecVol, DropVolume,
         SameMounts, docker, Objects, Containers, Volumes
  <2> QED
      BY <2>3, <2>4, <2>5
<1>d. MountsDivergeByOne'
    BY <1>t, <1>1, SameMountsDiverge
<1>2. CASE Return(p)
    BY <1>t, <1>d, <1>2, ReturnWants DEF MountsKept
<1>3. CASE ~Return(p)
  <2>1. \/ loc' = loc \/ loc' = [loc EXCEPT ![p].errs = TRUE]
        \/ loc' = [loc EXCEPT ![p].targets = OwnedObjects]
      BY <1>3 DEF InspectTargets, RemoveAgent, RemoveExecutor, RemoveNetwork, RecheckAgentVol,
         RemoveAgentVol, RecheckExecVol, RemoveExecVol, RemoveTarget, RecheckVolume, DropVolume
  <2>2. loc'[p].mounts = loc[p].mounts /\ loc'[p].cmd = loc[p].cmd
      BY <1>l, <2>1 DEF Locals
  <2>3. \/ pc[p] = "inspect" /\ pc'[p] = "rmAgent"
        \/ pc[p] = "rmAgent" /\ pc'[p] = "rmExecutor"
        \/ /\ pc[p] = "rmExecutor"
           /\ pc'[p] = IF Cmd(p) = "upgrade" THEN "removed" ELSE "rmNetwork"
        \/ pc'[p] \in {"rmAgentVol", "dropAgentVol", "rmExecVol", "dropExecVol", "rmEnv"}
      BY <1>3, <1>l DEF InspectTargets, RemoveAgent, RemoveExecutor, RemoveNetwork,
         RecheckAgentVol, RemoveAgentVol, RecheckExecVol, RemoveExecVol, RecheckVolume, Goto
  <2>4. pc[p] = "inspect" => Cmd(p) # "upgrade"
      BY <1>t DEF ProcInv, Flow, Fresh
  <2>5. Wanted(p)'
      BY <1>t, <1>1, <2>2, <2>3, <2>4, MoveWants
         DEF FromFile, Changing, ChangeSteps, Changed, SameMounts, Cmd, Locked
  <2> QED
      BY <1>d, <2>5 DEF MountsKept
<1> QED
    BY <1>2, <1>3

\* The file loses its mounts only once no agent is left, and gets new ones
\* once the agent has them.
LEMMA FileMounts ==
    ASSUME IInv, MInv, NEW p \in Procs, pc[p] \in Locked,
           RemoveBoxEnv(p) \/ PruneStateFile(p) \/ PersistMounts(p)
    PROVE  MountsKept(p)
<1>t. TypeOK /\ ProcInv(p) /\ Wanted(p) /\ MountsDivergeByOne
    BY DEF IInv, MInv
<1>1. CASE RemoveBoxEnv(p)
  <2>1. pc[p] = "rmEnv" /\ Cmd(p) # "upgrade"
      BY <1>t, <1>1 DEF RemoveBoxEnv, ProcInv, Flow, Fresh
  <2>2. ~loc[p].errs => own["agent"] # "box"
      BY <1>t, <2>1 DEF ProcInv, TargetsCover, DestroySteps, Left, Objects, Containers
  <2>3. MountsDivergeByOne'
      BY <1>t, <1>1, <2>2 DEF RemoveBoxEnv, MountsDivergeByOne, docker
  <2> QED
      BY <1>t, <1>1, <2>3, ReturnWants DEF RemoveBoxEnv, MountsKept
<1>2. CASE PruneStateFile(p)
  <2>1. ~StateInUse => own["agent"] # "box"
      BY DEF StateInUse, BoxExists, Containers
  <2>3. MountsDivergeByOne'
      BY <1>t, <1>2, <2>1 DEF PruneStateFile, MountsDivergeByOne, docker
  <2> QED
      BY <1>t, <1>2, <2>3, ReturnWants DEF PruneStateFile, MountsKept
<1>3. CASE PersistMounts(p)
  <2>1. pc[p] = "reSave" /\ UNCHANGED docker
      BY <1>3 DEF PersistMounts
  <2>2. own["agent"] = "box" => cmounts = loc[p].mounts
      BY <1>t, <2>1 DEF Wanted, Changed
  <2>3. \/ UNCHANGED env
        \/ env'.mounts = loc[p].mounts
      BY <1>t, <1>3 DEF PersistMounts, TypeOK
  <2>4. MountsDivergeByOne'
      BY <1>t, <2>1, <2>2, <2>3 DEF MountsDivergeByOne, docker
  <2>5. CASE ~Return(p)
    <3>1. pc'[p] = "askQuiesced" /\ loc' = loc
        BY <1>t, <1>3, <2>5 DEF PersistMounts, Goto, TypeOK
    <3>2. Cmd(p) \notin Fresh
        BY <1>t, <2>1 DEF ProcInv, Flow, Fresh
    <3> QED
        BY <2>4, <3>1, <3>2 DEF MountsKept, Wanted, FromFile, Changing, ChangeSteps, Changed, Cmd, Unlocked
  <2> QED
      BY <1>t, <2>4, <2>5, ReturnWants DEF MountsKept
<1> QED
    BY <1>1, <1>2, <1>3

\* Before the acquisition a command wants nothing.
LEMMA UnlockedMounts ==
    ASSUME IInv, MInv, NEW p \in Procs,
           Begin(p) \/ PruneSnapshot(p) \/ Acquire(p) \/ (Crash(p) /\ pc[p] \notin Locked)
    PROVE  MountsKept(p) /\ UNCHANGED <<own, cmounts, env>>
<1>t. TypeOK /\ Wanted(p) /\ MountsDivergeByOne
    BY DEF IInv, MInv
<1>l. loc \in [Procs -> Locals] /\ pc \in [Procs -> Unlocked \cup Locked]
    BY <1>t DEF TypeOK
<1>1. SameMounts /\ UNCHANGED <<own, cmounts, env>>
    BY DEF Begin, PruneSnapshot, Acquire, Crash, docker, SameMounts
<1>d. MountsDivergeByOne'
    BY <1>t, <1>1, SameMountsDiverge
<1>2. CASE Return(p)
    BY <1>t, <1>1, <1>d, <1>2, ReturnWants DEF MountsKept
<1>3. CASE ~Return(p)
  <2>1. loc[p].mounts = NoMounts
      BY <1>t, <1>3 DEF Begin, PruneSnapshot, Acquire, Crash, Wanted, Unlocked
  <2>2. pc'[p] \in {"snapshot", "acquire", "fresh", "recheck", "get"}
      BY <1>l, <1>3 DEF Begin, PruneSnapshot, Acquire, Crash, Goto, FirstStep
  <2>3. loc'[p].mounts = loc[p].mounts
      BY <1>l, <1>3 DEF Begin, PruneSnapshot, Acquire, Crash, Locals
  <2> QED
      BY <1>1, <1>d, <2>1, <2>2, <2>3 DEF MountsKept, Wanted, FromFile, Changing, ChangeSteps, Changed
<1> QED
    BY <1>2, <1>3

\* Interference: nobody outside tx9 creates a labelled agent or writes the file.
LEMMA OutsideMounts ==
    ASSUME IInv, MInv,
           \/ \E c \in Containers : DockerRm(c)
           \/ \E o \in Objects : TakeName(o)
           \/ \E v \in Volumes : DockerVolumeRm(v)
           \/ HbPause \/ HbResume
    PROVE  MInv'
<1>t. TypeOK /\ MountsDivergeByOne
    BY DEF IInv, MInv
<1>l. loc \in [Procs -> Locals] /\ own \in [Objects -> {"absent", "box", "foreign"}]
      /\ Containers \subseteq Objects /\ "agent" \in Objects /\ "agent" \notin Volumes
    BY <1>t DEF TypeOK, Objects, Containers, Volumes
<1>1. UNCHANGED <<env, pc>>
    BY DEF DockerRm, TakeName, DockerVolumeRm, HbPause, HbResume
<1>2. own'["agent"] = "box" => own["agent"] = "box" /\ cmounts' = cmounts
    BY <1>l DEF DockerRm, TakeName, DockerVolumeRm, HbPause, HbResume, RemoveContainer, docker
<1>r. ASSUME NEW q \in Procs, NEW procs, Release(procs)
      PROVE  loc'[q].mounts = loc[q].mounts /\ loc'[q].cmd = loc[q].cmd
    BY <1>l, <1>r DEF Release, Locals
<1>3. ASSUME NEW q \in Procs
      PROVE  loc'[q].mounts = loc[q].mounts /\ loc'[q].cmd = loc[q].cmd
  <2>1. CASE HbPause
      BY <1>l, <2>1 DEF HbPause, Locals
  <2>2. CASE (\E c \in Containers : DockerRm(c)) \/ \E o \in Objects : TakeName(o)
      BY <2>2 DEF DockerRm, TakeName
  <2>3. CASE HbResume \/ \E v \in Volumes : DockerVolumeRm(v)
      BY <1>r, <2>3 DEF HbResume, DockerVolumeRm
  <2> QED
      BY <2>1, <2>2, <2>3
<1>4. ASSUME NEW q \in Procs PROVE Wanted(q)'
    BY <1>1, <1>2, <1>3 DEF MInv, Wanted, FromFile, Changing, ChangeSteps, Changed, Cmd
<1>5. MountsDivergeByOne'
    BY <1>t, <1>1, <1>2, SameMountsDiverge DEF SameMounts
<1> QED
    BY <1>4, <1>5 DEF MInv

LEMMA MInvInit == Init => MInv
BY DEF Init, MInv, MountsDivergeByOne, Wanted, FromFile, Changing, ChangeSteps, Changed, Cmd, Fresh, Idle,
       EmptyEnv, Objects, Containers

LEMMA MInvStep == IInv /\ MInv /\ [Next]_vars => MInv'
<1> SUFFICES ASSUME IInv, MInv, [Next]_vars PROVE MInv'
    OBVIOUS
<1>t. TypeOK
    BY DEF IInv
<1>1. ASSUME NEW p \in Procs, Step(p) PROVE MInv'
  <2>1. CASE pc[p] \in Locked
    <3>1. ~(Begin(p) \/ PruneSnapshot(p) \/ Acquire(p))
        BY <2>1 DEF Locked, Begin, PruneSnapshot, Acquire
    <3>2. MountsKept(p)
        BY <1>1, <2>1, <3>1, AdmissionMounts, SaveMounts, CreateMounts, QuietMounts, GetMounts,
           DestroyMounts, FileMounts DEF Step
    <3>3. ASSUME NEW q \in Procs, q # p PROVE Wanted(q)'
      <4>1. pc[q] \in Unlocked
          BY <2>1, <3>3, OthersUnlocked
      <4>2. pc'[q] = pc[q] /\ loc'[q] = loc[q]
          BY <1>t, <1>1, <3>3, OthersSame
      <4> QED
          BY <4>1, <4>2 DEF MInv, Wanted, FromFile, Changing, ChangeSteps, Changed, Cmd, Unlocked
    <3> QED
        BY <3>2, <3>3 DEF MInv, MountsKept
  <2>2. CASE pc[p] \notin Locked
    <3>1. Begin(p) \/ PruneSnapshot(p) \/ Acquire(p) \/ Crash(p)
        BY <1>1, <2>2, UnlockedSteps
    <3>2. MountsKept(p) /\ UNCHANGED <<own, cmounts, env>>
        BY <2>2, <3>1, UnlockedMounts
    <3>3. ASSUME NEW q \in Procs, q # p PROVE Wanted(q)'
      <4>2. pc'[q] = pc[q] /\ loc'[q] = loc[q]
          BY <1>t, <1>1, <3>3, OthersSame
      <4> QED
          BY <3>2, <4>2 DEF MInv, Wanted, FromFile, Changing, Changed, Cmd
    <3> QED
        BY <3>2, <3>3 DEF MInv, MountsKept
  <2> QED
      BY <2>1, <2>2
<1>2. CASE UNCHANGED vars
    BY <1>2 DEF vars, MInv, MountsDivergeByOne, Wanted, FromFile, Changing, Changed, Cmd
<1> QED
    BY <1>1, <1>2, OutsideMounts DEF Next

\* The agent container and the saved mounts differ in at most one target, the
\* one an interrupted mount command was changing, whatever else fails or is
\* killed: repeating that command is never skipped as a no-op.
THEOREM MountsCorrect == Spec => []MountsDivergeByOne
<1>1. MInv => MountsDivergeByOne
    BY DEF MInv
<1>2. Spec => []MInv
    BY MInvInit, MInvStep, IInvCorrect, PTL DEF Spec
<1> QED
    BY <1>1, <1>2, PTL

-----------------------------------------------------------------------------
(* A box at rest.                                                          *)

\* What a mount change knows of the box it found: it ran then, and it has been
\* quiesced since.
AtRest(p) ==
    Cmd(p) = "mount" /\ pc[p] \in Locked =>
        /\ pc[p] \in {"get", "askQuiesced", "prepareRuntime"} \cup ChangeSteps
        /\ pc[p] = "get" /\ running["agent"] => loc[p].ran
        /\ pc[p] \in ChangeSteps /\ loc[p].was => loc[p].ran
        /\ pc[p] = "reStart" => loc[p].was
        /\ loc[p].held => quiesced
        /\ pc[p] = "prepareRuntime" => ~loc[p].held

RInv == \A p \in Procs : AtRest(p)

\* No step changes the command of a process, except that returning ends it.
LEMMA CommandKept ==
    ASSUME TypeOK, NEW p \in Procs, Step(p), pc[p] \in Locked
    PROVE  loc'[p].cmd \in {loc[p].cmd, "none"}
<1>l. loc \in [Procs -> Locals]
    BY DEF TypeOK
<1>r. Return(p) => loc'[p].cmd = "none"
    BY <1>l DEF Return, Idle
<1>g. GiveUp(p) => loc'[p].cmd \in {loc[p].cmd, "none"}
    BY <1>r DEF GiveUp
<1>1. CASE \/ Begin(p) \/ PruneSnapshot(p) \/ Acquire(p)
    BY <1>1 DEF Begin, PruneSnapshot, Acquire, Locked
<1>2. CASE \/ Crash(p) \/ CheckFresh(p) \/ SaveNoMounts(p) \/ SaveResources(p)
           \/ EnsureImage(p) \/ PrepareAgentMounts(p) \/ CreateNetwork(p)
           \/ CreateExecVolume(p) \/ CreateAgent(p) \/ CreateExecutor(p)
           \/ RemoveLeakedAgent(p) \/ Restore(p) \/ StartExecutor(p) \/ StartAgent(p)
           \/ PrepareRuntime(p) \/ StopAgent(p) \/ StopExecutor(p) \/ GetFails(p)
           \/ GetForDelete(p) \/ GetForStart(p) \/ GetForStop(p) \/ ContainersRemoved(p)
           \/ RemoveBoxEnv(p) \/ RecreateStop(p)
           \/ RecreateRemove(p) \/ RecreateCreate(p) \/ RecreateStart(p)
           \/ PersistMounts(p) \/ AskQuiesced(p) \/ PruneStateFile(p)
    BY <1>r, <1>g, <1>2
       DEF PruneSnapshot, Crash, CheckFresh, SaveNoMounts, SaveResources, EnsureImage,
           PrepareAgentMounts, CreateNetwork, CreateExecVolume, CreateAgent, CreateExecutor,
           RemoveLeakedAgent, Restore, StartExecutor, StartAgent, PrepareRuntime, StopAgent,
           StopExecutor, GetFails, GetForDelete, GetForStart, GetForStop, ContainersRemoved,
           RemoveBoxEnv, RecreateStop, RecreateRemove, RecreateCreate, RecreateStart,
           PersistMounts, AskQuiesced, PruneStateFile
<1>3. CASE SaveConfig(p) \/ CreateAgentVolume(p)
    BY <1>l, <1>r, <1>g, <1>3 DEF SaveConfig, CreateAgentVolume, Locals
<1>4. CASE GetForUpgrade(p) \/ PreflightUpgrade(p) \/ InspectTargets(p)
    BY <1>l, <1>r, <1>4 DEF GetForUpgrade, PreflightUpgrade, InspectTargets, Locals
<1>5. CASE GetForMount(p)
  <2>1. PICK t \in Targets, s \in Sources \cup {NoSource} :
            loc' = [loc EXCEPT ![p].tok = env.token,
                               ![p].mounts = [env.mounts EXCEPT ![t] = s],
                               ![p].was = running["agent"]]
      BY <1>5 DEF GetForMount
  <2> QED
      BY <1>l, <2>1 DEF Locals
<1>6. CASE \/ RemoveAgent(p) \/ RemoveExecutor(p) \/ RemoveNetwork(p)
           \/ RecheckAgentVol(p) \/ RemoveAgentVol(p)
           \/ RecheckExecVol(p) \/ RemoveExecVol(p)
  <2>1. loc' = loc \/ loc' = [loc EXCEPT ![p].errs = TRUE]
      BY <1>6 DEF RemoveAgent, RemoveExecutor, RemoveNetwork, RecheckAgentVol, RemoveAgentVol,
         RecheckExecVol, RemoveExecVol, RemoveTarget, RecheckVolume, DropVolume
  <2> QED
      BY <1>l, <2>1 DEF Locals
<1>7. CASE FindNetwork(p) \/ FindAgentVolume(p) \/ FindExecVolume(p)
    BY <1>g, <1>7 DEF FindNetwork, FindAgentVolume, FindExecVolume, Find
<1> QED
    BY <1>1, <1>2, <1>3, <1>4, <1>5, <1>6, <1>7 DEF Step

\* What a step of a mount change may do to the box.
Rests(p) ==
    /\ running'["agent"] /\ ~running["agent"] => loc[p].ran
    /\ quiesced /\ ~quiesced' => ~loc[p].held

\* A mount change that returns has nothing left to keep.
LEMMA ReturnRests ==
    ASSUME TypeOK, NEW p \in Procs, Return(p)
    PROVE  AtRest(p)'
<1>1. pc'[p] = "idle"
    BY DEF Return, TypeOK
<1> QED
    BY <1>1 DEF AtRest, Locked

\* The check reads whether the agent runs; nobody else starts it meanwhile.
LEMMA GetForMountRests ==
    ASSUME IInv, NEW p \in Procs, AtRest(p), pc[p] \in Locked, Cmd(p) = "mount", GetForMount(p)
    PROVE  AtRest(p)' /\ Rests(p)
<1>t. TypeOK
    BY DEF IInv
<1>l. loc \in [Procs -> Locals] /\ pc \in [Procs -> Unlocked \cup Locked]
    BY <1>t DEF TypeOK
<1>1. PICK t \in Targets, s \in Sources \cup {NoSource} :
          loc' = [loc EXCEPT ![p].tok = env.token,
                             ![p].mounts = [env.mounts EXCEPT ![t] = s],
                             ![p].was = running["agent"]]
    BY DEF GetForMount
<1>2. /\ loc'[p].cmd = loc[p].cmd /\ loc'[p].ran = loc[p].ran /\ loc'[p].held = loc[p].held
      /\ loc'[p].was = running["agent"]
    BY <1>l, <1>1 DEF Locals
<1>3. pc[p] = "get" /\ pc'[p] = "network" /\ UNCHANGED <<running, quiesced>>
    BY <1>l DEF GetForMount, Goto, docker
<1>5. running["agent"] => loc[p].ran
    BY <1>3 DEF AtRest
<1>6. loc[p].held => quiesced
    BY DEF AtRest
<1>7. AtRest(p)'
    BY <1>2, <1>3, <1>5, <1>6 DEF AtRest, ChangeSteps
<1> QED
    BY <1>3, <1>7 DEF Rests

\* The steps of RecreateAgent and what follows it.
LEMMA ChangeRests ==
    ASSUME IInv, NEW p \in Procs, AtRest(p), pc[p] \in Locked, Cmd(p) = "mount",
           \/ FindNetwork(p) \/ CreateNetwork(p) \/ FindAgentVolume(p) \/ CreateAgentVolume(p)
           \/ RecreateStop(p) \/ RecreateRemove(p)
           \/ RecreateCreate(p) \/ RecreateStart(p) \/ PersistMounts(p) \/ AskQuiesced(p)
           \/ PrepareRuntime(p) \/ GetFails(p) \/ Crash(p)
    PROVE  AtRest(p)' /\ Rests(p)
<1>t. TypeOK
    BY DEF IInv
<1>l. /\ loc \in [Procs -> Locals] /\ pc \in [Procs -> Unlocked \cup Locked]
      /\ running \in [Containers -> BOOLEAN]
    BY <1>t DEF TypeOK
<1>o. "agent" \in Containers
    BY DEF Containers
<1>g. GiveUp(p) => Return(p)
    BY DEF GiveUp
<1>1. quiesced' = quiesced \/ PrepareRuntime(p)
    BY DEF FindNetwork, CreateNetwork, FindAgentVolume, CreateAgentVolume, Find, RecreateStop,
       RecreateRemove, RecreateCreate, RecreateStart, PersistMounts, AskQuiesced, GetFails, Crash
<1>2. running'["agent"] /\ ~running["agent"] => RecreateStart(p)
    BY <1>l, <1>o DEF FindNetwork, CreateNetwork, FindAgentVolume, CreateAgentVolume, Find,
       MakeNetwork, MakeVolume, RecreateStop, RecreateRemove,
       RecreateCreate, PersistMounts, AskQuiesced, PrepareRuntime, GetFails, Crash,
       RemoveContainer, CreateContainer, docker
<1>3. Rests(p)
  <2>1. RecreateStart(p) => loc[p].ran
    <3>1. ASSUME RecreateStart(p) PROVE pc[p] = "reStart"
        BY <3>1 DEF RecreateStart
    <3> QED
        BY <3>1 DEF AtRest, ChangeSteps
  <2>2. PrepareRuntime(p) => ~loc[p].held
    <3>1. ASSUME PrepareRuntime(p) PROVE pc[p] = "prepareRuntime"
        BY <3>1 DEF PrepareRuntime
    <3> QED
        BY <3>1 DEF AtRest
  <2> QED
      BY <1>1, <1>2, <2>1, <2>2 DEF Rests
<1>4. CASE Return(p)
    BY <1>t, <1>3, <1>4, ReturnRests
<1>5. CASE ~Return(p)
  <2>1. /\ loc'[p].cmd = loc[p].cmd /\ loc'[p].was = loc[p].was
        /\ loc'[p].ran = loc[p].ran /\ loc'[p].held = loc[p].held
    <3>1. loc' = loc \/ loc' = [loc EXCEPT ![p].made = (own["agentVol"] = "absent")]
        BY <1>g, <1>5 DEF FindNetwork, CreateNetwork, FindAgentVolume, CreateAgentVolume, Find,
           RecreateStop, RecreateRemove, RecreateCreate, RecreateStart, PersistMounts,
           AskQuiesced, PrepareRuntime, GetFails, Crash
    <3> QED
        BY <1>l, <3>1 DEF Locals
  <2>2. quiesced' = quiesced
    <3>1. ~PrepareRuntime(p)
        BY <1>g, <1>5 DEF PrepareRuntime
    <3> QED
        BY <1>1, <3>1
  <2>3. /\ pc'[p] \in {"makeNetwork", "agentVol", "makeAgentVol", "reStop", "reRemove",
                       "reCreate", "reStart", "reSave", "askQuiesced", "prepareRuntime"}
        /\ pc'[p] # "askQuiesced" /\ pc'[p] # "prepareRuntime" => pc[p] \in ChangeSteps
        /\ pc'[p] = "reStart" => loc[p].was
        /\ pc'[p] = "prepareRuntime" => ~quiesced
    <3>1. AfterAgentVolume(p) \in {"reStop", "reRemove"}
        BY DEF AfterAgentVolume
    <3> QED
        BY <1>g, <1>l, <1>5, <3>1 DEF FindNetwork, CreateNetwork, FindAgentVolume,
           CreateAgentVolume, Find, RecreateStop, RecreateRemove, RecreateCreate, RecreateStart,
           PersistMounts, AskQuiesced, PrepareRuntime, GetFails, Crash, Goto, ChangeSteps
  <2>5. AtRest(p)'
    <3>1. loc[p].held => quiesced
        BY DEF AtRest
    <3>2. pc[p] \in ChangeSteps /\ loc[p].was => loc[p].ran
        BY DEF AtRest
    <3> QED
        BY <2>1, <2>2, <2>3, <3>1, <3>2 DEF AtRest, ChangeSteps, Cmd
  <2> QED
      BY <1>3, <2>5
<1> QED
    BY <1>4, <1>5

\* A step of the lock holder.
LEMMA HolderRests ==
    ASSUME IInv, NEW p \in Procs, AtRest(p), Step(p), pc[p] \in Locked
    PROVE  AtRest(p)' /\ (Cmd(p) = "mount" => Rests(p))
<1>t. TypeOK
    BY DEF IInv
<1>1. CASE Cmd(p) # "mount"
    BY <1>t, <1>1, CommandKept DEF AtRest, Cmd
<1>2. CASE Cmd(p) = "mount"
  <2>1. pc[p] \in {"get", "askQuiesced", "prepareRuntime"} \cup ChangeSteps
      BY <1>2 DEF AtRest
  <2>2. \/ GetForMount(p)
        \/ FindNetwork(p) \/ CreateNetwork(p) \/ FindAgentVolume(p) \/ CreateAgentVolume(p)
        \/ RecreateStop(p) \/ RecreateRemove(p)
        \/ RecreateCreate(p) \/ RecreateStart(p) \/ PersistMounts(p) \/ AskQuiesced(p)
        \/ PrepareRuntime(p) \/ GetFails(p) \/ Crash(p)
      BY <1>2, <2>1 DEF ChangeSteps, Step, Begin, PruneSnapshot, Acquire, CheckFresh, SaveConfig,
         SaveNoMounts, SaveResources, EnsureImage, PrepareAgentMounts,
         FindExecVolume, CreateExecVolume, CreateAgent, CreateExecutor, RemoveLeakedAgent,
         Restore, StartExecutor, StartAgent, StopAgent, StopExecutor, GetForDelete, GetForStart,
         GetForStop, GetForUpgrade, PreflightUpgrade, InspectTargets, RemoveAgent,
         RemoveExecutor, ContainersRemoved, RemoveNetwork, RecheckAgentVol, RemoveAgentVol, RecheckExecVol,
         RemoveExecVol,
         RemoveBoxEnv, PruneStateFile
  <2> QED
      BY <1>2, <2>2, GetForMountRests, ChangeRests
<1> QED
    BY <1>1, <1>2

\* A step before the acquisition, or a crash there: what it knows on locking.
LEMMA UnlockedRests ==
    ASSUME IInv, NEW p \in Procs, Step(p), pc[p] \notin Locked
    PROVE  AtRest(p)' /\ UNCHANGED <<docker, quiesced>>
<1>t. TypeOK
    BY DEF IInv
<1>l. loc \in [Procs -> Locals] /\ pc \in [Procs -> Unlocked \cup Locked]
    BY <1>t DEF TypeOK
<1>1. Begin(p) \/ PruneSnapshot(p) \/ Acquire(p) \/ Crash(p)
    BY UnlockedSteps
<1>2. UNCHANGED <<docker, quiesced>>
    BY <1>1 DEF Begin, PruneSnapshot, Acquire, Crash
<1>3. CASE Return(p)
    BY <1>t, <1>2, <1>3, ReturnRests
<1>4. CASE ~Return(p) /\ (Begin(p) \/ PruneSnapshot(p))
  <2>1. pc'[p] \in {"snapshot", "acquire"}
      BY <1>l, <1>4 DEF Begin, PruneSnapshot, Goto
  <2> QED
      BY <1>2, <2>1 DEF AtRest, Locked
<1>5. CASE ~Return(p) /\ Acquire(p)
  <2>1. pc'[p] = FirstStep(Cmd(p))
        /\ loc' = [loc EXCEPT ![p].ran = (Cmd(p) = "mount" /\ running["agent"]),
                              ![p].held = (Cmd(p) = "mount" /\ quiesced)]
      BY <1>l, <1>5 DEF Acquire, Goto
  <2>2. /\ loc'[p].cmd = loc[p].cmd
        /\ loc'[p].ran = (Cmd(p) = "mount" /\ running["agent"])
        /\ loc'[p].held = (Cmd(p) = "mount" /\ quiesced)
      BY <1>l, <2>1 DEF Locals
  <2>3. Cmd(p) = "mount" => pc'[p] = "get"
      BY <2>1 DEF FirstStep
  <2>5. (loc'[p].held => quiesced) /\ (Cmd(p) = "mount" /\ running["agent"] => loc'[p].ran)
      BY <2>2, Zenon
  <2>4. UNCHANGED <<own, running, quiesced>>
      BY <1>2 DEF docker
  <2> QED
      BY <1>2, <2>2, <2>3, <2>4, <2>5 DEF AtRest, Cmd, ChangeSteps
<1> QED
    BY <1>1, <1>3, <1>4, <1>5 DEF Crash

\* Interference: nobody outside tx9 starts the agent, and who pauses or resumes a
\* box is known to the history.
LEMMA OutsideRests ==
    ASSUME IInv, RInv,
           \/ \E c \in Containers : DockerRm(c)
           \/ \E o \in Objects : TakeName(o)
           \/ \E v \in Volumes : DockerVolumeRm(v)
           \/ HbPause \/ HbResume
    PROVE  RInv' /\ UNCHANGED pc
<1>t. TypeOK
    BY DEF IInv
<1>l. /\ loc \in [Procs -> Locals] /\ running \in [Containers -> BOOLEAN]
      /\ "agent" \in Containers
    BY <1>t DEF TypeOK, Containers
<1>1. UNCHANGED pc
    BY DEF DockerRm, TakeName, DockerVolumeRm, HbPause, HbResume
<1>2. running'["agent"] => running["agent"]
    BY <1>l DEF DockerRm, TakeName, DockerVolumeRm, HbPause, HbResume, RemoveContainer, docker
<1>r. ASSUME NEW q \in Procs, NEW procs, Release(procs)
      PROVE  /\ loc'[q].cmd = loc[q].cmd /\ loc'[q].ran = loc[q].ran
             /\ loc'[q].was = loc[q].was
             /\ loc'[q].held => loc[q].held /\ q \notin procs
    BY <1>l, <1>r DEF Release, Locals
<1>4. ASSUME NEW q \in Procs
      PROVE  /\ loc'[q].cmd = loc[q].cmd /\ loc'[q].ran = loc[q].ran
             /\ loc'[q].was = loc[q].was
             /\ (loc[q].held => quiesced) => (loc'[q].held => quiesced')
             /\ pc[q] = "prepareRuntime" /\ loc'[q].held => loc[q].held
  <2>1. CASE (\E c \in Containers : DockerRm(c)) \/ \E o \in Objects : TakeName(o)
      BY <2>1 DEF DockerRm, TakeName
  <2>2. CASE HbResume
      BY <1>r, <2>2 DEF HbResume
  <2>3. CASE HbPause
      BY <1>l, <2>3 DEF HbPause, Locals
  <2>4. CASE \E v \in Volumes : DockerVolumeRm(v)
    <3>1. PICK v \in Volumes : DockerVolumeRm(v)
        BY <2>4
    <3>2. CASE v = "agentVol"
        BY <1>r, <3>1, <3>2 DEF DockerVolumeRm
    <3>3. CASE v # "agentVol"
      <4>1. quiesced' = quiesced
          BY <1>t, <3>1, <3>3 DEF DockerVolumeRm, TypeOK
      <4> QED
          BY <1>r, <3>1, <3>3, <4>1 DEF DockerVolumeRm
    <3> QED
        BY <3>2, <3>3
  <2> QED
      BY <2>1, <2>2, <2>3, <2>4
<1>5. ASSUME NEW q \in Procs PROVE AtRest(q)'
  <2>1. AtRest(q)
      BY DEF RInv
  <2> QED
      BY <1>1, <1>2, <1>4, <2>1 DEF AtRest, Cmd
<1> QED
    BY <1>1, <1>5 DEF RInv

LEMMA RInvInit == Init => RInv
BY DEF Init, RInv, AtRest, Locked

LEMMA RInvStep ==
    ASSUME IInv, RInv, [Next]_vars
    PROVE  /\ RInv'
           /\ \A p \in Procs : Cmd(p) = "mount" /\ pc[p] \in Locked /\ pc'[p] # pc[p]
                                => Rests(p)
<1>t. TypeOK
    BY DEF IInv
<1>1. ASSUME NEW p \in Procs, Step(p)
      PROVE  /\ RInv'
             /\ \A q \in Procs : Cmd(q) = "mount" /\ pc[q] \in Locked /\ pc'[q] # pc[q]
                                  => Rests(q)
  <2>1. ASSUME NEW q \in Procs, q # p PROVE pc'[q] = pc[q] /\ loc'[q] = loc[q]
      BY <1>t, <1>1, <2>1, OthersSame
  <2>2. AtRest(p)' /\ (pc[p] \in Locked /\ Cmd(p) = "mount" => Rests(p))
      BY <1>1, HolderRests, UnlockedRests DEF RInv
  <2>3. ASSUME NEW q \in Procs, q # p PROVE AtRest(q)'
    <3>1. CASE pc[p] \in Locked
      <4>1. pc[q] \in Unlocked
          BY <2>3, <3>1, OthersUnlocked
      <4> QED
          BY <2>1, <2>3, <4>1 DEF AtRest, Unlocked, Locked
    <3>2. CASE pc[p] \notin Locked
      <4>1. UNCHANGED <<own, running, quiesced>>
          BY <1>1, <3>2, UnlockedRests DEF docker
      <4>2. AtRest(q)
          BY DEF RInv
      <4> QED
          BY <2>1, <2>3, <4>1, <4>2 DEF AtRest, Cmd
    <3> QED
        BY <3>1, <3>2
  <2> QED
      BY <2>1, <2>2, <2>3 DEF RInv
<1>2. CASE UNCHANGED vars
    BY <1>2 DEF vars, RInv, AtRest, Cmd
<1> QED
    BY <1>1, <1>2, OutsideRests DEF Next

\* mount leaves a stopped box stopped, and quiesced one that is quiesced when it
\* asks, wherever it fails and whoever paused the box before the answer.
THEOREM RestCorrect == Spec => MountKeepsBoxAtRest
<1>1. IInv /\ RInv /\ [Next]_vars => RInv'
    BY RInvStep
<1>2. Spec => [](IInv /\ RInv)
    BY <1>1, RInvInit, IInvCorrect, PTL DEF Spec
<1>3. IInv /\ RInv /\ [Next]_vars
        => [\A p \in Procs : Cmd(p) = "mount" /\ pc[p] \in Locked /\ pc'[p] # pc[p] =>
              /\ running'["agent"] /\ ~running["agent"] => loc[p].ran
              /\ quiesced /\ ~quiesced' => ~loc[p].held]_vars
    BY RInvStep DEF Rests
<1> QED
    BY <1>2, <1>3, PTL DEF Spec, MountKeepsBoxAtRest

=============================================================================
