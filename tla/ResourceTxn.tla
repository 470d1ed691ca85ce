----------------------------- MODULE ResourceTxn ----------------------------
(***************************************************************************)
(* CPU and memory limits of a box: kept twice, in the two live containers  *)
(* (Docker) and in the box's env file.                                     *)
(*                                                                         *)
(* tx9 resources set and reset update both containers in place, save the   *)
(* file last and roll back on an error; upgrade saves first and then       *)
(* replaces the containers; mount replaces the agent with the limits it    *)
(* finds on it.  The box lock lets one command run at a time; operators    *)
(* use docker update and docker rm whenever they like, every Docker call   *)
(* may fail, with or without having had its effect, and a command may be   *)
(* killed between any two calls.                                           *)
(***************************************************************************)
EXTENDS Integers

CONSTANTS
    MaxInt,       \* math.MaxInt64; all arithmetic wraps at this width
    MinMem,       \* MinimumMemoryBytes
    Cpus,         \* CPU limits ParseCPUs yields (positive)
    Mems,         \* memory sizes users type and operators configure
    Budgets,      \* advisory volume budgets
    AgentDefault, ExecutorDefault,  \* DefaultResources, as [cpu, mem]
    Unknown,      \* history: no limit is promised for this role
    MaxCommands,  \* bound on commands started
    MaxOutside    \* bound on docker update and docker rm by operators

Roles  == {"agent", "executor"}
Limits == [cpu : Cpus \cup {0}, mem : Mems \cup {0}]

ASSUME ResourceAssumption ==
    /\ MaxInt \in Nat /\ MinMem \in Nat \ {0}
    /\ Cpus \subseteq Nat \ {0} /\ Mems \subseteq Nat \ {0}
    /\ 0 \in Budgets
    /\ AgentDefault \in Limits /\ ExecutorDefault \in Limits
    /\ AgentDefault.mem <= MaxInt \div 2 /\ ExecutorDefault.mem <= MaxInt \div 2
    /\ Unknown \notin Limits
    /\ MaxCommands \in Nat /\ MaxOutside \in Nat

\* int64 arithmetic.
Wrap(n) == IF n > MaxInt THEN n - 2 * (MaxInt + 1) ELSE n

\* box.Resources; the two volume budgets are stored alike and are one here.
Resources == [limits : [Roles -> Limits], budget : Budgets]

DefaultResources ==
    [limits |-> [agent |-> AgentDefault, executor |-> ExecutorDefault], budget |-> 0]

\* The resource keys of the env file: all six are written, or all deleted.
NoKeys == [saved |-> FALSE, res |-> DefaultResources]
Saved(r) == [saved |-> TRUE, res |-> r]

VARIABLES
    live,     \* role -> its container: there or not, limits and swap ceiling
    env,      \* the resource keys of the env file
    pc,       \* where the command is
    cmd,      \* which command runs
    old, new, \* its oldResources and newResources
    done,     \* updatedAgent, updatedExecutor
    errs,     \* a removal failed
    want,     \* history: what the last commands promised
    meddled,  \* history: roles reconfigured outside while the command ran
    commands, outside

locals == <<cmd, old, new, done, errs, meddled>>
counts == <<commands, outside>>
vars   == <<live, env, pc, cmd, old, new, done, errs, want, meddled,
            commands, outside>>

\* mine tells whether tx9 was the last to write the memory limit.
Container == [up : BOOLEAN, cpu : Cpus \cup {0}, mem : Mems \cup {0},
              swap : 0 .. MaxInt, mine : BOOLEAN]
Missing   == [up |-> FALSE, cpu |-> 0, mem |-> 0, swap |-> 0, mine |-> TRUE]

Steps == {"idle", "inspect", "updateAgent", "updateExecutor", "persist",
          "undoExecutor", "undoAgent", "save", "rmAgent", "rmExecutor", "removed",
          "createAgent", "createExecutor", "removeLeaked", "reRemove", "reCreate"}

TypeOK ==
    /\ live \in [Roles -> Container]
    /\ env \in [saved : BOOLEAN, res : Resources]
    /\ pc \in Steps
    /\ cmd \in {"none", "set", "reset", "upgrade", "mount"}
    /\ old \in Resources /\ new \in Resources
    /\ done \subseteq Roles
    /\ errs \in BOOLEAN
    /\ meddled \subseteq Roles
    /\ want \in [limits : [Roles -> Limits \cup {Unknown}], budget : Budgets \cup {Unknown}]
    /\ commands \in 0 .. MaxCommands /\ outside \in 0 .. MaxOutside

LimitsOf(c) == [cpu |-> c.cpu, mem |-> c.mem]

-----------------------------------------------------------------------------
(* Docker.                                                                 *)

\* A live update: a zero keeps the old value.
Kept(n, was) == IF n = 0 THEN was ELSE n

Updated(c, lim, swap) ==
    [c EXCEPT !.cpu = Kept(lim.cpu, @), !.mem = Kept(lim.mem, @),
              !.swap = Kept(swap, @), !.mine = @ \/ lim.mem # 0]

\* A memory limit above the ceiling that stays in force is refused.
Refuses(c, lim, swap) == ~c.up \/ (swap = 0 /\ c.swap > 0 /\ lim.mem > c.swap)

\* Mutant: the ceiling is left to Docker, which keeps the old one.
SwapLimitOmitted(m) == [ok |-> TRUE, swap |-> 0]

\* defaultMemorySwapLimit.
SwapLimit(m) ==
    IF m < 0 \/ m > MaxInt \div 2 THEN [ok |-> FALSE, swap |-> 0]
                                  ELSE [ok |-> TRUE, swap |-> Wrap(2 * m)]

\* ContainerCreate: what it does not give Docker sets to twice the memory.
Created(lim) ==
    LET s == SwapLimit(lim.mem).swap
    IN  [up |-> TRUE, cpu |-> lim.cpu, mem |-> lim.mem,
         swap |-> IF s = 0 THEN Wrap(2 * lim.mem) ELSE s, mine |-> TRUE]

\* ContainerUpdateResources: it worked, it failed, or it worked and the
\* answer is an error.
UpdateWorks(r, lim) ==
    LET s == SwapLimit(lim.mem)
    IN  /\ s.ok /\ ~Refuses(live[r], lim, s.swap)
        /\ live' = [live EXCEPT ![r] = Updated(@, lim, s.swap)]

-----------------------------------------------------------------------------
(* What the code reads and checks.                                         *)

\* LoadResources.
LoadResources == IF env.saved THEN env.res ELSE DefaultResources

\* InspectResources: Docker's limits where there is a container.
InspectResources ==
    [limits |-> [r \in Roles |-> IF live[r].up THEN LimitsOf(live[r])
                                               ELSE LoadResources.limits[r]],
     budget |-> LoadResources.budget]

\* Resources.Validate.
Validate(res) ==
    \A r \in Roles : \/ res.limits[r].mem = 0
                     \/ res.limits[r].mem \in MinMem .. MaxInt \div 2

\* Mutant: unlimited may become finite, and cannot be made unlimited again.
TransitionAny(from, to) == TRUE

\* validateLiveResourceTransition.
TransitionAllowed(from, to) ==
    \A r \in Roles : /\ from.limits[r].cpu = 0 <=> to.limits[r].cpu = 0
                     /\ from.limits[r].mem = 0 <=> to.limits[r].mem = 0

\* resourceFlagValues.apply: some fields are overridden by the flags.
\* ParseCPUs never yields zero, ParseMemoryBytes nothing below the minimum.
Override(was, given) == {was} \cup given
FlagMems == {m \in Mems : m >= MinMem}
Flagged(base) ==
    {[limits |-> [agent    |-> [cpu |-> ac, mem |-> am],
                  executor |-> [cpu |-> ec, mem |-> em]], budget |-> b] :
        ac \in Override(base.limits["agent"].cpu, Cpus),
        am \in Override(base.limits["agent"].mem, FlagMems),
        ec \in Override(base.limits["executor"].cpu, Cpus),
        em \in Override(base.limits["executor"].mem, FlagMems),
        b  \in Override(base.budget, Budgets)}

Changed == {r \in Roles : old.limits[r] # new.limits[r]}

-----------------------------------------------------------------------------
(* What a command promises.  Each role is judged on its own: a command     *)
(* that does not change a role's limits never gives up their promise.      *)

Doubt(S) == [limits |-> [r \in Roles |-> IF r \in S THEN Unknown ELSE want.limits[r]],
             budget |-> IF old.budget # new.budget THEN Unknown ELSE want.budget]
DoubtOnly(S) == [want EXCEPT !.limits = [r \in Roles |-> IF r \in S THEN Unknown ELSE @[r]]]

\* A command that succeeds promises what it wrote.
Promise == [new EXCEPT !.limits = [r \in Roles |-> IF r \in meddled THEN Unknown ELSE @[r]]]

Goto(step) == pc' = step /\ UNCHANGED locals
Return ==
    /\ pc' = "idle"
    /\ cmd' = "none" /\ old' = DefaultResources /\ new' = DefaultResources
    /\ done' = {} /\ errs' = FALSE /\ meddled' = {}

Init ==
    /\ live = [r \in Roles |-> Created(DefaultResources.limits[r])]
    /\ env \in {NoKeys, Saved(DefaultResources)}
    /\ pc = "idle"
    /\ cmd = "none" /\ old = DefaultResources /\ new = DefaultResources
    /\ done = {} /\ errs = FALSE /\ meddled = {}
    /\ want = DefaultResources
    /\ commands = 0 /\ outside = 0

-----------------------------------------------------------------------------
(* tx9 resources set, reset.                                               *)

Begin(c) ==
    /\ pc = "idle" /\ commands < MaxCommands
    /\ pc' = "inspect" /\ cmd' = c
    /\ commands' = commands + 1
    /\ UNCHANGED <<live, env, old, new, done, errs, want, meddled, outside>>

\* An error before the first change: everything stays as it is.
Refused ==
    /\ pc = "inspect"
    /\ Return
    /\ UNCHANGED <<live, env, want, counts>>

\* requireCompleteResources, flags.apply, validateLiveResourceTransition.
InspectLive ==
    /\ pc = "inspect" /\ cmd \in {"set", "reset"}
    /\ \A r \in Roles : live[r].up
    /\ Validate(InspectResources)
    /\ old' = InspectResources
    /\ \/ cmd = "set" /\ new' \in {n \in Flagged(InspectResources) : Validate(n)}
       \/ cmd = "reset" /\ new' = DefaultResources
    /\ TransitionAllowed(old', new')
    /\ pc' = "updateAgent"
    /\ UNCHANGED <<live, env, cmd, done, errs, want, meddled, counts>>

\* One update of applyResourcesTransaction; without a change, none.
Update(r, next, undo) ==
    \/ /\ r \notin Changed
       /\ Goto(next)
       /\ UNCHANGED <<live, want>>
    \/ /\ r \in Changed
       /\ UpdateWorks(r, new.limits[r])
       /\ \/ /\ done' = done \cup {r} /\ pc' = next
             /\ UNCHANGED <<cmd, old, new, errs, meddled, want>>
          \/ undo /\ want' = DoubtOnly({r})
    \/ r \in Changed /\ undo /\ UNCHANGED <<live, want>>

UpdateAgent ==
    /\ pc = "updateAgent"
    /\ Update("agent", "updateExecutor", Return)
    /\ UNCHANGED <<env, counts>>

UpdateExecutor ==
    /\ pc = "updateExecutor"
    /\ Update("executor", "persist", Goto("undoAgent"))
    /\ UNCHANGED <<env, counts>>

\* persist: SaveResources or ResetResources; on success the command is done.
Persist ==
    /\ pc = "persist"
    /\ \/ /\ env' = IF cmd = "reset" THEN NoKeys ELSE Saved(new)
          /\ want' = Promise
          /\ Return
       \/ Goto("undoExecutor") /\ UNCHANGED <<env, want>>
    /\ UNCHANGED <<live, counts>>

\* A rollback of what was updated, and of nothing else; a failure is only reported.
Undo(r, go) ==
    /\ \/ r \in done /\ UpdateWorks(r, old.limits[r]) /\ UNCHANGED want
       \/ r \in done /\ UNCHANGED live /\ want' = DoubtOnly({r})
       \/ r \notin done /\ UNCHANGED <<live, want>>
    /\ go
    /\ UNCHANGED <<env, counts>>

UndoExecutor == pc = "undoExecutor" /\ Undo("executor", Goto("undoAgent"))
UndoAgent    == pc = "undoAgent" /\ Undo("agent", Return)

-----------------------------------------------------------------------------
(* tx9 upgrade: save, remove, create.                                      *)

\* box.Get needs one container; a missing role takes its limits from the file.
InspectUpgrade ==
    /\ pc = "inspect" /\ cmd = "upgrade"
    /\ \E r \in Roles : live[r].up
    /\ old' = InspectResources
    /\ new' \in {n \in Flagged(InspectResources) : Validate(n)}
    /\ pc' = "save"
    /\ UNCHANGED <<live, env, cmd, done, errs, want, meddled, counts>>

SaveResources ==
    /\ pc = "save"
    /\ \/ env' = Saved(new) /\ Goto("rmAgent")
       \/ Return /\ UNCHANGED env
    /\ UNCHANGED <<live, want, counts>>

\* ContainerCreate, with the limits saved before.
CreateWorks(r) ==
    /\ SwapLimit(new.limits[r].mem).ok
    /\ live' = [live EXCEPT ![r] = Created(new.limits[r])]

\* removeBoxContainers goes on after an error and reports it at the end.
Remove(r, step, next) ==
    /\ pc = step
    /\ pc' = next
    /\ \/ live' = [live EXCEPT ![r] = Missing] /\ UNCHANGED errs
       \/ live[r].up /\ live' \in {live, [live EXCEPT ![r] = Missing]} /\ errs' = TRUE
    /\ UNCHANGED <<env, cmd, old, new, done, want, meddled, counts>>

RemoveAgent    == Remove("agent", "rmAgent", "rmExecutor")
RemoveExecutor == Remove("executor", "rmExecutor", "removed")

\* A failed upgrade has saved its new limits, whatever became of the containers.
FailUpgrade == Return /\ want' = Doubt(Changed)

AfterRemove ==
    /\ pc = "removed"
    /\ IF errs THEN FailUpgrade ELSE Goto("createAgent") /\ UNCHANGED want
    /\ UNCHANGED <<live, env, counts>>

CreateAgent ==
    /\ pc = "createAgent"
    /\ \/ /\ CreateWorks("agent")
          /\ Goto("createExecutor") /\ UNCHANGED want
       \/ FailUpgrade /\ (CreateWorks("agent") \/ UNCHANGED live)
    /\ UNCHANGED <<env, counts>>

\* The rest of the upgrade changes no limits: it ends here.
CreateExecutor ==
    /\ pc = "createExecutor"
    /\ \/ /\ CreateWorks("executor")
          /\ Return /\ want' = Promise
       \/ Goto("removeLeaked") /\ UNCHANGED want /\ (CreateWorks("executor") \/ UNCHANGED live)
    /\ UNCHANGED <<env, counts>>

RemoveLeaked ==
    /\ pc = "removeLeaked"
    /\ live' \in {live, [live EXCEPT !["agent"] = Missing]}
    /\ FailUpgrade
    /\ UNCHANGED <<env, counts>>

-----------------------------------------------------------------------------
(* tx9 mount: the agent is replaced, with the limits it had.               *)

InspectAgent ==
    /\ pc = "inspect" /\ cmd = "mount"
    /\ live["agent"].up
    /\ old' = InspectResources /\ new' = InspectResources
    /\ pc' = "reRemove"
    /\ UNCHANGED <<live, env, cmd, done, errs, want, meddled, counts>>

ReRemove ==
    /\ pc = "reRemove"
    /\ \/ live' = [live EXCEPT !["agent"] = Missing] /\ Goto("reCreate")
       \/ Return /\ live' \in {live, [live EXCEPT !["agent"] = Missing]}
    /\ UNCHANGED <<env, want, counts>>

ReCreate ==
    /\ pc = "reCreate"
    /\ CreateWorks("agent") \/ UNCHANGED live
    /\ Return
    /\ UNCHANGED <<env, want, counts>>

-----------------------------------------------------------------------------
(* Outside the commands.                                                   *)

\* The command is killed.  What it was changing is no longer promised.
Crash ==
    /\ pc # "idle"
    /\ Return
    /\ want' = IF pc = "inspect" THEN want ELSE Doubt(Changed)
    /\ UNCHANGED <<live, env, counts>>

\* An operator reconfigures a container behind tx9's back; no machine has more
\* than half of 2^63 bytes of memory.
OutsideLimits == {lim \in Limits : lim.mem <= MaxInt \div 2}

DockerUpdate(r) ==
    /\ outside < MaxOutside
    /\ live[r].up
    /\ \E lim \in OutsideLimits : \E s \in {lim.mem, 2 * lim.mem} :
          live' = [live EXCEPT ![r] = [up |-> TRUE, cpu |-> lim.cpu, mem |-> lim.mem,
                                       swap |-> s, mine |-> FALSE]]
    /\ want' = DoubtOnly({r})
    /\ meddled' = IF pc = "idle" THEN {} ELSE meddled \cup {r}
    /\ outside' = outside + 1
    /\ UNCHANGED <<env, pc, cmd, old, new, done, errs, commands>>

\* Or removes one: the file still knows its limits, upgrade repairs the box.
DockerRemove(r) ==
    /\ outside < MaxOutside
    /\ live[r].up
    /\ live' = [live EXCEPT ![r] = Missing]
    /\ outside' = outside + 1
    /\ UNCHANGED <<env, pc, locals, want, commands>>

-----------------------------------------------------------------------------
Next ==
    \/ \E c \in {"set", "reset", "upgrade", "mount"} : Begin(c)
    \/ Refused
    \/ InspectLive \/ UpdateAgent \/ UpdateExecutor \/ Persist \/ UndoExecutor \/ UndoAgent
    \/ InspectUpgrade \/ SaveResources \/ RemoveAgent \/ RemoveExecutor \/ AfterRemove
    \/ CreateAgent \/ CreateExecutor \/ RemoveLeaked
    \/ InspectAgent \/ ReRemove \/ ReCreate
    \/ Crash
    \/ \E r \in Roles : DockerUpdate(r) \/ DockerRemove(r)

Spec == Init /\ [][Next]_vars

-----------------------------------------------------------------------------
(* Properties.                                                             *)

\* What the next command will take a role's limits to be.
Effective(r) == InspectResources.limits[r]

\* Limits once set survive every later command, failed or killed, that was not
\* about them: a failed set or reset is rolled back in both containers and in
\* the file, an upgrade or a mount change killed between removal and creation
\* leaves them in the file for the repair, and the budget goes with them
\* (applyResourcesTransaction, InspectResources, cmdUpgrade's order).
ChangesSurvive ==
    pc = "idle" =>
        /\ \A r \in Roles : want.limits[r] # Unknown => Effective(r) = want.limits[r]
        /\ want.budget # Unknown => LoadResources.budget = want.budget

\* Every container whose memory limit tx9 wrote last has a swap ceiling of twice
\* its memory, computed without overflow, so that no later increase of its memory
\* is refused (defaultMemorySwapLimit, Resources.Validate).
SwapIsTwiceMemory ==
    \A r \in Roles : live[r].up /\ live[r].mine => live[r].swap = 2 * live[r].mem

=============================================================================
