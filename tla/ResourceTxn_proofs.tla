------------------------- MODULE ResourceTxn_proofs --------------------------
(***************************************************************************)
(* Proofs about ResourceTxn, for integers of any width, any limits and     *)
(* budgets, any number of commands and of operators' interventions.        *)
(***************************************************************************)
EXTENDS ResourceTxn, TLAPS

\* A memory size whose double does not overflow.
Half(m) == m <= MaxInt \div 2

\* The ceiling of each container is what its last writer made it.
Ceilings ==
    \A r \in Roles : live[r].up => /\ Half(live[r].mem)
                                   /\ live[r].mine => live[r].swap = 2 * live[r].mem

\* No limits that reach a container overflow.
Fits(res) == \A r \in Roles : Half(res.limits[r].mem)
Fit == Fits(env.res) /\ Fits(old) /\ Fits(new)

Known(r) == want.limits[r] # Unknown

Updating  == {"updateAgent", "updateExecutor", "persist", "undoExecutor", "undoAgent"}
Replacing == {"rmAgent", "rmExecutor", "removed", "createAgent", "createExecutor",
              "removeLeaked"}
Mounting  == {"reRemove", "reCreate"}

\* The file holds what is promised, and so does the container if there is one.
FileKeeps(r) == Known(r) => LoadResources.limits[r] = want.limits[r]
LiveKeeps(r, lim) == Known(r) /\ live[r].up => LimitsOf(live[r]) = lim
Budgeted == want.budget # Unknown => LoadResources.budget = want.budget

\* What r's container has while a set or reset runs, unless somebody else
\* reconfigured it.
Reached(r) == IF r \in done THEN new.limits[r] ELSE old.limits[r]

\* Every command starts from what was promised, except where it was meddled with.
Based ==
    \A r \in Roles : Known(r) =>
        /\ r \notin meddled
        /\ pc \notin {"idle", "inspect"} => want.limits[r] = old.limits[r]

\* A command begins with nothing done.
Fresh == pc \in {"idle", "inspect"} => done = {}

\* Up to the save of an upgrade, and during a mount, nothing promised changes.
Settled ==
    /\ \A r \in Roles : FileKeeps(r) /\ LiveKeeps(r, want.limits[r])
    /\ Budgeted
Resting == pc \in {"idle", "inspect", "save"} \cup Mounting => Settled

\* How far a live update or its rollback has come.
Progress ==
    /\ pc \in {"updateAgent", "updateExecutor", "persist"} =>
          \A r \in Roles \ meddled : live[r].up => LimitsOf(live[r]) = Reached(r)
    /\ pc \in {"undoExecutor", "undoAgent"} => LiveKeeps("agent", Reached("agent"))
    /\ pc = "undoExecutor" => LiveKeeps("executor", Reached("executor"))
    /\ pc = "undoAgent" => LiveKeeps("executor", old.limits["executor"])
    /\ pc = "updateAgent" => done = {}
    /\ pc = "updateExecutor" => done = Changed \ {"executor"}
    /\ pc = "persist" => Changed \subseteq done
    /\ done \subseteq Changed

\* A live update reaches the containers one by one, the file last.
Updates ==
    pc \in Updating =>
        /\ TransitionAllowed(old, new) /\ (cmd = "reset" => new = DefaultResources)
        /\ \A r \in Roles : FileKeeps(r)
        /\ Budgeted
        /\ Progress

\* An upgrade has saved the new limits before it touches a container.
Replaces ==
    pc \in Replacing =>
        /\ LoadResources = new
        /\ want.budget # Unknown => want.budget = old.budget
        /\ \A r \in Roles : Known(r) /\ live[r].up =>
              LimitsOf(live[r]) \in {old.limits[r], new.limits[r]}
        /\ pc = "createExecutor" =>
              ("agent" \notin meddled /\ live["agent"].up =>
                  LimitsOf(live["agent"]) = new.limits["agent"])

\* The budget a command starts from is the one in the file.
Budgets0 ==
    pc \in {"save"} \cup Updating \cup Mounting => old.budget = LoadResources.budget

Mounts == pc \in Mounting => new = old

IInv ==
    /\ TypeOK /\ Ceilings /\ Fit
    /\ Based /\ Fresh /\ Resting /\ Updates /\ Replaces /\ Budgets0 /\ Mounts

-----------------------------------------------------------------------------
(* What the operators of the model return.                                 *)

Wants == [limits : [Roles -> Limits \cup {Unknown}], budget : Budgets \cup {Unknown}]

LEMMA Numbers ==
    /\ MaxInt \in Nat /\ \A m \in Nat : Half(m) => 2 * m <= MaxInt
    /\ Cpus \subseteq Nat /\ Mems \subseteq Nat /\ 0 \notin Mems
    /\ Unknown \notin Limits /\ MaxCommands \in Nat /\ MaxOutside \in Nat
<1>1. MaxInt \in Nat
    BY ResourceAssumption DEF ResourceAssumption
<1>2. \A m \in Nat : m <= MaxInt \div 2 => 2 * m <= MaxInt
    BY <1>1
<1> QED
    BY <1>1, <1>2, ResourceAssumption DEF ResourceAssumption, Half

LEMMA DefaultIs ==
    /\ DefaultResources \in Resources /\ Fits(DefaultResources) /\ DefaultResources.budget = 0
    /\ \A r \in Roles : /\ DefaultResources.limits[r] \in Limits
                       /\ DefaultResources.limits[r] # Unknown
BY ResourceAssumption
DEF ResourceAssumption, DefaultResources, Resources, Fits, Half, Roles

LEMMA LimIs ==
    ASSUME NEW lim \in Limits
    PROVE  /\ lim.cpu \in Nat /\ lim.mem \in Nat
           /\ lim.mem \in Mems \cup {0} /\ lim.cpu \in Cpus \cup {0}
           /\ lim # Unknown /\ lim = [cpu |-> lim.cpu, mem |-> lim.mem]
<1>1. Cpus \subseteq Nat /\ Mems \subseteq Nat /\ Unknown \notin Limits
    BY ResourceAssumption DEF ResourceAssumption
<1>2. lim \in [cpu : Cpus \cup {0}, mem : Mems \cup {0}]
    BY DEF Limits
<1>3. lim = [cpu |-> lim.cpu, mem |-> lim.mem]
    BY <1>2
<1>4. lim.mem \in Mems \cup {0} /\ lim.cpu \in Cpus \cup {0}
    BY <1>2
<1>5. lim # Unknown
    BY <1>1
<1> QED
    BY <1>1, <1>3, <1>4, <1>5

LEMMA ResIs ==
    ASSUME NEW res \in Resources, NEW r \in Roles
    PROVE  /\ res.limits[r] \in Limits /\ res.limits[r] # Unknown /\ res.budget \in Budgets
           /\ res.limits[r].cpu \in Nat /\ res.limits[r].mem \in Nat
           /\ res.limits[r].mem \in Mems \cup {0}
<1>1. res.limits[r] \in Limits /\ res.budget \in Budgets
    BY DEF Resources
<1> QED
    BY <1>1, LimIs

LEMMA SwapIs ==
    ASSUME NEW m \in Nat
    PROVE  /\ SwapLimit(m).ok <=> Half(m)
           /\ SwapLimit(m).ok => SwapLimit(m).swap = 2 * m /\ SwapLimit(m).swap \in 0 .. MaxInt
           /\ Half(m) => Wrap(2 * m) = 2 * m
<1> DEFINE H == MaxInt \div 2
<1>1. m <= H => 2 * m <= MaxInt
    BY Numbers DEF Half
<1>2. MaxInt \in Nat /\ H \in Nat
    BY Numbers
<1>3. SwapLimit(m) = IF m < 0 \/ m > H THEN [ok |-> FALSE, swap |-> 0]
                                       ELSE [ok |-> TRUE, swap |-> Wrap(2 * m)]
    BY DEF SwapLimit
<1>4. Half(m) <=> m <= H
    BY DEF Half
<1> HIDE DEF H
<1>5. m <= H => Wrap(2 * m) = 2 * m /\ 2 * m \in 0 .. MaxInt
    BY <1>1, <1>2 DEF Wrap
<1>6. ~(m < 0) /\ (m > H <=> ~(m <= H))
    BY <1>2
<1>7. CASE m <= H
  <2>1. SwapLimit(m) = [ok |-> TRUE, swap |-> 2 * m]
      BY <1>3, <1>5, <1>6, <1>7
  <2> QED
      BY <1>4, <1>5, <1>7, <2>1
<1>8. CASE ~(m <= H)
  <2>1. SwapLimit(m) = [ok |-> FALSE, swap |-> 0]
      BY <1>3, <1>6, <1>8
  <2> QED
      BY <1>4, <1>8, <2>1
<1> QED
    BY <1>7, <1>8

\* A container that is created has the limits asked for.
LEMMA CreatedIs ==
    ASSUME NEW lim \in Limits, SwapLimit(lim.mem).ok
    PROVE  /\ Created(lim) \in Container /\ Created(lim).up /\ LimitsOf(Created(lim)) = lim
           /\ Half(Created(lim).mem) /\ Created(lim).swap = 2 * Created(lim).mem
<1>1. lim.mem \in Nat /\ lim.mem \in Mems \cup {0} /\ lim.cpu \in Cpus \cup {0}
      /\ lim = [cpu |-> lim.cpu, mem |-> lim.mem]
    BY LimIs
<1>2. /\ Half(lim.mem) /\ SwapLimit(lim.mem).swap = 2 * lim.mem
      /\ 2 * lim.mem \in 0 .. MaxInt /\ Wrap(2 * lim.mem) = 2 * lim.mem
    BY <1>1, SwapIs
<1>3. Created(lim) = [up |-> TRUE, cpu |-> lim.cpu, mem |-> lim.mem, swap |-> 2 * lim.mem,
                      mine |-> TRUE]
    BY <1>2 DEF Created
<1> QED
    BY <1>1, <1>2, <1>3 DEF Container, LimitsOf

\* One that is updated keeps its ceiling in step with its memory, unless it was
\* out of step and its memory is left alone.
LEMMA UpdatedIs ==
    ASSUME NEW c \in Container, NEW lim \in Limits, SwapLimit(lim.mem).ok, Half(c.mem),
           c.mine => c.swap = 2 * c.mem,
           NEW d, d = Updated(c, lim, SwapLimit(lim.mem).swap)
    PROVE  /\ d \in Container /\ d.up = c.up /\ Half(d.mem)
           /\ d.mine => d.swap = 2 * d.mem
           /\ d.cpu = Kept(lim.cpu, c.cpu) /\ d.mem = Kept(lim.mem, c.mem)
<1>1. lim.mem \in Nat /\ lim.mem \in Mems \cup {0} /\ lim.cpu \in Cpus \cup {0}
    BY LimIs
<1>2. /\ Half(lim.mem) /\ SwapLimit(lim.mem).swap = 2 * lim.mem
      /\ 2 * lim.mem \in 0 .. MaxInt
    BY <1>1, SwapIs
<1>3. /\ c.up \in BOOLEAN /\ c.mine \in BOOLEAN /\ c.swap \in 0 .. MaxInt
      /\ c.mem \in Mems \cup {0} /\ c.cpu \in Cpus \cup {0}
    BY DEF Container
<1> DEFINE cpu == Kept(lim.cpu, c.cpu)
           mem == Kept(lim.mem, c.mem)
           swap == Kept(2 * lim.mem, c.swap)
           mine == c.mine \/ lim.mem # 0
<1>4. d = [up |-> c.up, cpu |-> cpu, mem |-> mem, swap |-> swap, mine |-> mine]
    BY <1>2 DEF Updated, Container
<1>5. /\ cpu \in Cpus \cup {0} /\ mem \in Mems \cup {0} /\ swap \in 0 .. MaxInt
      /\ mine \in BOOLEAN /\ Half(mem)
    BY <1>1, <1>2, <1>3 DEF Kept
<1>6. mine => swap = 2 * mem
  <2>1. CASE lim.mem = 0
      BY <2>1 DEF Kept
  <2>2. CASE lim.mem # 0
      BY <1>1, <2>2 DEF Kept
  <2> QED
      BY <2>1, <2>2
<1> HIDE DEF cpu, mem, swap, mine
<1>7. d \in Container /\ d.up = c.up /\ d.mem = mem /\ d.cpu = cpu
      /\ d.swap = swap /\ (d.mine <=> mine)
    BY <1>3, <1>4, <1>5 DEF Container
<1> QED
    BY <1>5, <1>6, <1>7 DEF cpu, mem

\* An update that neither starts nor stops limiting gives what is asked for.
LEMMA TransitionIs ==
    ASSUME NEW c, NEW lim \in Limits,
           LimitsOf(c).cpu = 0 <=> lim.cpu = 0, LimitsOf(c).mem = 0 <=> lim.mem = 0,
           NEW d, d.cpu = Kept(lim.cpu, c.cpu), d.mem = Kept(lim.mem, c.mem)
    PROVE  LimitsOf(d) = lim
BY DEF LimitsOf, Kept, Limits

LEMMA LoadIs ==
    ASSUME IInv
    PROVE  /\ LoadResources \in Resources /\ Fits(LoadResources)
           /\ \A r \in Roles : live[r] \in Container
BY DefaultIs DEF IInv, TypeOK, LoadResources, Fit

LEMMA InspectIs ==
    ASSUME IInv
    PROVE  /\ InspectResources \in Resources /\ Fits(InspectResources)
           /\ InspectResources.budget = LoadResources.budget
           /\ \A r \in Roles : InspectResources.limits[r] = IF live[r].up THEN LimitsOf(live[r])
                                                            ELSE LoadResources.limits[r]
<1>1. \A r \in Roles : /\ LoadResources.limits[r] \in Limits /\ Half(LoadResources.limits[r].mem)
                       /\ LoadResources.budget \in Budgets
    BY LoadIs, ResIs DEF Fits
<1>2. \A r \in Roles : /\ LimitsOf(live[r]) \in Limits
                       /\ live[r].up => Half(LimitsOf(live[r]).mem)
    BY LoadIs DEF LimitsOf, Limits, Container, IInv, Ceilings
<1>3. LoadResources.budget \in Budgets
    BY LoadIs DEF Resources
<1>4. \A r \in Roles : (IF live[r].up THEN LimitsOf(live[r])
                                        ELSE LoadResources.limits[r]) \in Limits
    BY <1>1, <1>2
<1>5. InspectResources \in Resources
    BY <1>3, <1>4 DEF InspectResources, Resources
<1> QED
    BY <1>1, <1>2, <1>5 DEF InspectResources, Fits

LEMMA RolesAre == Roles = {"agent", "executor"}
BY DEF Roles

LEMMA MissingIs == Missing \in Container /\ ~Missing.up
<1>1. MaxInt \in Nat
    BY Numbers
<1> QED
    BY <1>1 DEF Missing, Container

\* One container is replaced.
LEMMA LiveIs ==
    ASSUME IInv, NEW r \in Roles, NEW c \in Container, live' = [live EXCEPT ![r] = c],
           c.up => Half(c.mem) /\ (c.mine => c.swap = 2 * c.mem)
    PROVE  /\ live' \in [Roles -> Container] /\ Ceilings'
           /\ live'[r] = c /\ \A q \in Roles \ {r} : live'[q] = live[q]
BY DEF IInv, TypeOK, Ceilings

LEMMA RemovedIs ==
    ASSUME IInv, NEW r \in Roles, live' = [live EXCEPT ![r] = Missing]
    PROVE  /\ live' \in [Roles -> Container] /\ Ceilings'
           /\ ~live'[r].up /\ \A q \in Roles \ {r} : live'[q] = live[q]
BY MissingIs, LiveIs

LEMMA CreateIs ==
    ASSUME IInv, NEW r \in Roles, CreateWorks(r)
    PROVE  /\ live' \in [Roles -> Container] /\ Ceilings'
           /\ LimitsOf(live'[r]) = new.limits[r]
           /\ \A q \in Roles \ {r} : live'[q] = live[q]
<1> DEFINE c == Created(new.limits[r])
<1>1. new.limits[r] \in Limits
    BY ResIs DEF IInv, TypeOK
<1>2. SwapLimit(new.limits[r].mem).ok /\ live' = [live EXCEPT ![r] = c]
    BY DEF CreateWorks
<1>3. c \in Container /\ LimitsOf(c) = new.limits[r] /\ Half(c.mem) /\ c.swap = 2 * c.mem
    BY <1>1, <1>2, CreatedIs
<1> HIDE DEF c
<1> QED
    BY <1>2, <1>3, LiveIs

\* A live update, and what it makes of limits it may change.
LEMMA UpdateIs ==
    ASSUME IInv, NEW r \in Roles, NEW lim \in Limits, UpdateWorks(r, lim)
    PROVE  /\ live' \in [Roles -> Container] /\ Ceilings'
           /\ live[r].up /\ \A q \in Roles \ {r} : live'[q] = live[q]
           /\ (/\ LimitsOf(live[r]).cpu = 0 <=> lim.cpu = 0
               /\ LimitsOf(live[r]).mem = 0 <=> lim.mem = 0) => LimitsOf(live'[r]) = lim
<1> DEFINE s == SwapLimit(lim.mem)
           c == live[r]
           d == Updated(c, lim, s.swap)
<1>1. s.ok /\ c.up /\ live' = [live EXCEPT ![r] = d]
    BY DEF UpdateWorks, Refuses
<1>2. c \in Container /\ Half(c.mem) /\ (c.mine => c.swap = 2 * c.mem)
    BY <1>1 DEF IInv, TypeOK, Ceilings
<1>3. /\ d \in Container /\ d.up = c.up /\ Half(d.mem) /\ (d.mine => d.swap = 2 * d.mem)
      /\ d.cpu = Kept(lim.cpu, c.cpu) /\ d.mem = Kept(lim.mem, c.mem)
  <2>1. d = Updated(c, lim, SwapLimit(lim.mem).swap) /\ SwapLimit(lim.mem).ok
      BY <1>1
  <2> HIDE DEF d, c
  <2> QED
      BY <1>2, <2>1, UpdatedIs
<1> HIDE DEF d
<1>4. /\ live' \in [Roles -> Container] /\ Ceilings' /\ live'[r] = d
      /\ \A q \in Roles \ {r} : live'[q] = live[q]
    BY <1>1, <1>3, LiveIs
<1>5. (/\ LimitsOf(c).cpu = 0 <=> lim.cpu = 0
       /\ LimitsOf(c).mem = 0 <=> lim.mem = 0) => LimitsOf(d) = lim
    BY <1>3, TransitionIs
<1> QED
    BY <1>1, <1>4, <1>5

LEMMA DoubtIs ==
    ASSUME IInv, NEW S \in SUBSET Roles
    PROVE  /\ Doubt(S) \in Wants /\ DoubtOnly(S) \in Wants
           /\ \A r \in Roles :
                 /\ Doubt(S).limits[r] = IF r \in S THEN Unknown ELSE want.limits[r]
                 /\ DoubtOnly(S).limits[r] = IF r \in S THEN Unknown ELSE want.limits[r]
           /\ Doubt(S).budget = IF old.budget # new.budget THEN Unknown ELSE want.budget
           /\ DoubtOnly(S).budget = want.budget
<1>1. want \in Wants
    BY DEF IInv, TypeOK, Wants
<1>2. \A r \in Roles : want.limits[r] \in Limits \cup {Unknown}
    BY <1>1 DEF Wants
<1>3. want.budget \in Budgets \cup {Unknown}
    BY <1>1 DEF Wants
<1> QED
    BY <1>1, <1>2, <1>3 DEF Doubt, DoubtOnly, Wants

LEMMA PromiseIs ==
    ASSUME IInv
    PROVE  /\ Promise \in Wants /\ Promise.budget = new.budget
           /\ \A r \in Roles : Promise.limits[r] = IF r \in meddled THEN Unknown
                                                   ELSE new.limits[r]
<1>1. new \in Resources /\ new.budget \in Budgets
    BY DEF IInv, TypeOK, Resources
<1>2. \A r \in Roles : new.limits[r] \in Limits
    BY <1>1, ResIs
<1> QED
    BY <1>1, <1>2 DEF Promise, Wants, Resources

LEMMA WantIs == ASSUME IInv PROVE want \in Wants
BY DEF IInv, TypeOK, Wants

LEMMA CountsAre ==
    ASSUME IInv, UNCHANGED counts
    PROVE  commands' \in 0 .. MaxCommands /\ outside' \in 0 .. MaxOutside
BY DEF IInv, TypeOK, counts

Envs == [saved : BOOLEAN, res : Resources]

LEMMA EnvIs == ASSUME IInv PROVE env \in Envs /\ Fits(env.res)
BY DEF IInv, TypeOK, Fit, Envs

-----------------------------------------------------------------------------
(* A command returns.                                                      *)

LEMMA ReturnKeeps ==
    ASSUME IInv, Return,
           live' \in [Roles -> Container], Ceilings', env' \in Envs, Fits(env.res)',
           want' \in Wants, commands' \in 0 .. MaxCommands, outside' \in 0 .. MaxOutside,
           Settled'
    PROVE  IInv'
<1>1. TypeOK'
    BY DefaultIs DEF Return, TypeOK, Envs, Wants, Steps
<1>2. Fit'
    BY DefaultIs DEF Return, Fit, Fits
<1>3. Based' /\ Fresh' /\ Resting'
    BY DEF Return, Based, Fresh, Resting
<1>4. Updates' /\ Replaces' /\ Budgets0' /\ Mounts'
    BY DEF Return, Updates, Replaces, Budgets0, Mounts, Updating, Replacing, Mounting
<1> QED
    BY <1>1, <1>2, <1>3, <1>4 DEF IInv

\* What is promised, of each role and of the budget, after a return.
LEMMA SettledIs ==
    ASSUME UNCHANGED env,
           \A r \in Roles : want'.limits[r] # Unknown =>
               /\ LoadResources.limits[r] = want'.limits[r]
               /\ live'[r].up => LimitsOf(live'[r]) = want'.limits[r],
           want'.budget # Unknown => LoadResources.budget = want'.budget
    PROVE  Settled'
BY DEF Settled, FileKeeps, LiveKeeps, Budgeted, Known, LoadResources

\* Where nothing promised has changed, the promises given up are given up.
LEMMA RestReturns ==
    ASSUME IInv, Return, UNCHANGED <<env, counts>>, Settled,
           live' \in [Roles -> Container], Ceilings',
           \A r \in Roles : live'[r].up => \/ live'[r] = live[r]
                                           \/ Known(r) => LimitsOf(live'[r]) = want.limits[r],
           want' = want \/ want' = Doubt(Changed)
    PROVE  IInv'
<1>1. Changed \in SUBSET Roles
    BY DEF Changed
<1>2. /\ want' \in Wants /\ (want'.budget # Unknown => want'.budget = want.budget)
      /\ \A r \in Roles : want'.limits[r] # Unknown => want'.limits[r] = want.limits[r]
    BY <1>1, DoubtIs, WantIs
<1>3. /\ \A r \in Roles : want'.limits[r] # Unknown =>
            /\ LoadResources.limits[r] = want'.limits[r]
            /\ live'[r].up => LimitsOf(live'[r]) = want'.limits[r]
      /\ want'.budget # Unknown => LoadResources.budget = want'.budget
    BY <1>2 DEF Settled, FileKeeps, LiveKeeps, Budgeted, Known
<1>4. Settled'
    BY <1>3, SettledIs
<1>5. env' \in Envs /\ Fits(env.res)'
    BY EnvIs DEF Fits
<1> QED
    BY <1>2, <1>4, <1>5, CountsAre, ReturnKeeps

LEMMA LiveTyped == ASSUME IInv, UNCHANGED live PROVE live' \in [Roles -> Container] /\ Ceilings'
BY DEF IInv, TypeOK, Ceilings

LEMMA RefusedKeeps == ASSUME IInv, Refused PROVE IInv'
BY LiveTyped, RestReturns DEF Refused, IInv, Resting

LEMMA BeginKeeps ==
    ASSUME IInv, NEW c \in {"set", "reset", "upgrade", "mount"}, Begin(c)
    PROVE  IInv'
<1>1. commands' \in 0 .. MaxCommands
    BY Numbers DEF Begin, IInv, TypeOK
<1>2. TypeOK'
    BY <1>1 DEF Begin, IInv, TypeOK, Steps
<1>3. UNCHANGED <<live, env, old, new, done, want, meddled>> /\ pc = "idle" /\ pc' = "inspect"
    BY DEF Begin
<1>4. Ceilings' /\ Fit'
    BY <1>3 DEF IInv, Ceilings, Fit, Fits
<1>5. Settled'
    BY <1>3 DEF IInv, Resting, Settled, FileKeeps, LiveKeeps, Budgeted, Known, LoadResources
<1>6. Based' /\ Fresh' /\ Resting'
    BY <1>3, <1>5 DEF IInv, Based, Fresh, Resting, Known
<1>7. Updates' /\ Replaces' /\ Budgets0' /\ Mounts'
    BY <1>3 DEF Updates, Replaces, Budgets0, Mounts, Updating, Replacing, Mounting
<1> QED
    BY <1>2, <1>4, <1>6, <1>7 DEF IInv

-----------------------------------------------------------------------------
(* A command looks at the box.                                             *)

\* What it finds is what was promised.
LEMMA FoundIs ==
    ASSUME IInv, pc = "inspect", NEW r \in Roles, Known(r)
    PROVE  InspectResources.limits[r] = want.limits[r] /\ r \notin meddled
BY InspectIs DEF IInv, Resting, Settled, FileKeeps, LiveKeeps, Based

LEMMA FlaggedIs ==
    ASSUME NEW base \in Resources, NEW n \in Flagged(base)
    PROVE  n \in Resources
<1>1. \A r \in Roles : base.limits[r] \in Limits /\ base.budget \in Budgets
    BY ResIs
<1>2. {"agent", "executor"} \subseteq Roles
    BY DEF Roles
<1>3. PICK ac \in Override(base.limits["agent"].cpu, Cpus),
           am \in Override(base.limits["agent"].mem, FlagMems),
           ec \in Override(base.limits["executor"].cpu, Cpus),
           em \in Override(base.limits["executor"].mem, FlagMems),
           b  \in Override(base.budget, Budgets) :
              n = [limits |-> [agent    |-> [cpu |-> ac, mem |-> am],
                               executor |-> [cpu |-> ec, mem |-> em]], budget |-> b]
    BY DEF Flagged
<1>4. /\ ac \in Cpus \cup {0} /\ am \in Mems \cup {0} /\ ec \in Cpus \cup {0}
      /\ em \in Mems \cup {0} /\ b \in Budgets
    BY <1>1, <1>2, <1>3 DEF Override, FlagMems, Limits
<1>5. [agent |-> [cpu |-> ac, mem |-> am], executor |-> [cpu |-> ec, mem |-> em]]
            \in [Roles -> Limits]
    BY <1>4 DEF Roles, Limits
<1> QED
    BY <1>3, <1>4, <1>5 DEF Resources

LEMMA ValidateIs ==
    ASSUME NEW res \in Resources, Validate(res)
    PROVE  Fits(res)
<1>1. MaxInt \in Nat
    BY Numbers
<1>2. 0 <= MaxInt \div 2
    BY <1>1
<1>3. ASSUME NEW r \in Roles PROVE Half(res.limits[r].mem)
  <2> DEFINE m == res.limits[r].mem
  <2>1. m = 0 \/ m \in MinMem .. MaxInt \div 2
      BY DEF Validate
  <2> HIDE DEF m
  <2>2. Half(m)
      BY <1>2, <2>1 DEF Half
  <2> QED
      BY <2>2 DEF m
<1> QED
    BY <1>3 DEF Fits

\* The command knows now what it starts from and what it is to make of it.
LEMMA InspectKeeps ==
    ASSUME IInv, pc = "inspect", old' = InspectResources, new' \in Resources, Fits(new)',
           UNCHANGED <<live, env, cmd, done, errs, want, meddled, counts>>,
           \/ /\ pc' = "updateAgent" /\ \A r \in Roles : live[r].up
              /\ TransitionAllowed(old', new') /\ (cmd = "reset" => new' = DefaultResources)
           \/ pc' = "save"
           \/ pc' = "reRemove" /\ new' = old'
    PROVE  IInv'
<1>1. old' \in Resources /\ Fits(old)' /\ old'.budget = LoadResources.budget
    BY InspectIs DEF Fits
<1>2. pc' \in Steps
    BY DEF Steps
<1>3. TypeOK'
    BY <1>1, <1>2 DEF IInv, TypeOK, counts
<1>4. Ceilings' /\ Fit'
    BY <1>1 DEF IInv, Ceilings, Fit, Fits
<1>5. \A r \in Roles : Known(r) => want.limits[r] = old'.limits[r] /\ r \notin meddled
    BY FoundIs
<1>6. Based' /\ Fresh'
    BY <1>5 DEF Based, Fresh, Known
<1>7. Settled /\ Settled' /\ done = {}
    BY DEF IInv, Resting, Settled, FileKeeps, LiveKeeps, Budgeted, Known, LoadResources, Fresh
<1>8. Resting'
    BY <1>7 DEF Resting
<1>9. Updates'
  <2> SUFFICES ASSUME pc' = "updateAgent" PROVE Updates'
      BY DEF Updates, Updating
  <2>1. \A r \in Roles : live'[r].up => LimitsOf(live'[r]) = old'.limits[r]
      BY InspectIs
  <2>2. TransitionAllowed(old, new)'
      BY DEF TransitionAllowed
  <2> QED
      BY <1>7, <2>1, <2>2 DEF Updates, Progress, Updating, Settled, Reached, Budgeted, FileKeeps
<1>10. Replaces'
    BY DEF Replaces, Replacing
<1>11. Budgets0' /\ Mounts'
    BY <1>1 DEF Budgets0, Mounts, Updating, Mounting, LoadResources
<1> QED
    BY <1>3, <1>4, <1>6, <1>8, <1>9, <1>10, <1>11 DEF IInv

LEMMA InspectLiveKeeps == ASSUME IInv, InspectLive PROVE IInv'
<1>1. new' \in Resources /\ Fits(new')
    BY InspectIs, FlaggedIs, ValidateIs, DefaultIs DEF InspectLive
<1>2. Fits(new)'
    BY <1>1 DEF Fits
<1>3. cmd = "reset" => new' = DefaultResources
    BY DEF InspectLive
<1> QED
    BY <1>1, <1>2, <1>3, InspectKeeps DEF InspectLive

LEMMA InspectUpgradeKeeps == ASSUME IInv, InspectUpgrade PROVE IInv'
<1>1. new' \in Resources /\ Fits(new')
    BY InspectIs, FlaggedIs, ValidateIs DEF InspectUpgrade
<1>2. Fits(new)'
    BY <1>1 DEF Fits
<1> QED
    BY <1>1, <1>2, InspectKeeps DEF InspectUpgrade

LEMMA InspectAgentKeeps == ASSUME IInv, InspectAgent PROVE IInv'
<1>1. new' \in Resources /\ Fits(new')
    BY InspectIs DEF InspectAgent
<1>2. Fits(new)'
    BY <1>1 DEF Fits
<1> QED
    BY <1>1, <1>2, InspectKeeps DEF InspectAgent

-----------------------------------------------------------------------------
(* A live update and its rollback.                                         *)

\* What a step does to the promises while the file is as it was.
Recedes ==
    /\ want' \in Wants
    /\ \A r \in Roles : want'.limits[r] # Unknown => want'.limits[r] = want.limits[r]
    /\ want'.budget # Unknown => want'.budget = want.budget

LEMMA RecedesIs ==
    ASSUME IInv, NEW S \in SUBSET Roles,
           want' = want \/ want' = DoubtOnly(S) \/ want' = Doubt(S)
    PROVE  Recedes
BY DoubtIs, WantIs DEF Recedes

LEMMA UpdatingKeeps ==
    ASSUME IInv, pc \in Updating, pc' \in Updating,
           UNCHANGED <<env, cmd, old, new, errs, meddled, counts>>,
           live' \in [Roles -> Container], Ceilings', Recedes, Progress'
    PROVE  IInv'
<1>1. done' \subseteq Roles
    BY DEF Progress, Changed
<1>2. pc' \in Steps
    BY DEF Updating, Steps
<1>3. TypeOK'
    BY <1>1, <1>2 DEF IInv, TypeOK, counts, Recedes, Wants
<1>4. Fit'
    BY DEF IInv, Fit, Fits
<1>5. pc \notin {"idle", "inspect", "save"} \cup Mounting \cup Replacing
      /\ pc' \notin {"idle", "inspect", "save"} \cup Mounting \cup Replacing
    BY DEF Updating, Mounting, Replacing
<1>6. Based' /\ Fresh' /\ Resting' /\ Replaces' /\ Mounts' /\ Budgets0'
    BY <1>5 DEF IInv, Based, Fresh, Resting, Replaces, Mounts, Budgets0, Recedes, Known,
                LoadResources
<1>7. Updates'
    BY DEF IInv, Updates, Recedes, FileKeeps, Budgeted, Known, LoadResources,
           TransitionAllowed
<1> QED
    BY <1>3, <1>4, <1>6, <1>7 DEF IInv

LEMMA UpdatingReturns ==
    ASSUME IInv, pc \in Updating, Return, UNCHANGED <<env, counts>>,
           live' \in [Roles -> Container], Ceilings', Recedes,
           \A r \in Roles : want'.limits[r] # Unknown /\ live'[r].up =>
                                LimitsOf(live'[r]) = want.limits[r]
    PROVE  IInv'
<1>1. Settled'
  <2>1. (\A r \in Roles : FileKeeps(r)) /\ Budgeted
      BY DEF IInv, Updates
  <2> QED
      BY <2>1, SettledIs DEF Recedes, FileKeeps, Budgeted, Known
<1>2. env' \in Envs /\ Fits(env.res)' /\ want' \in Wants
    BY EnvIs DEF Fits, Recedes
<1> QED
    BY <1>1, <1>2, CountsAre, ReturnKeeps

\* Every promised container has what the transaction has reached.
LEMMA ReachedIs ==
    ASSUME IInv, pc \in {"updateAgent", "updateExecutor", "persist"},
           NEW r \in Roles, Known(r), live[r].up
    PROVE  LimitsOf(live[r]) = Reached(r) /\ want.limits[r] = old.limits[r]
BY DEF IInv, Based, Updates, Progress, Updating

LEMMA TransitionHolds ==
    ASSUME IInv, pc \in Updating, NEW r \in Roles
    PROVE  /\ old.limits[r].cpu = 0 <=> new.limits[r].cpu = 0
           /\ old.limits[r].mem = 0 <=> new.limits[r].mem = 0
           /\ old.limits[r] \in Limits /\ new.limits[r] \in Limits
<1>1. old.limits[r] \in Limits /\ new.limits[r] \in Limits
    BY ResIs DEF IInv, TypeOK
<1>2. TransitionAllowed(old, new)
    BY DEF IInv, Updates
<1> QED
    BY <1>1, <1>2 DEF TransitionAllowed

LEMMA UpdateAgentKeeps == ASSUME IInv, UpdateAgent PROVE IInv'
<1>1. /\ pc = "updateAgent" /\ done = {} /\ UNCHANGED <<env, counts>>
      /\ pc \in Updating /\ "agent" \in Roles
      /\ \A r \in Roles : Reached(r) = old.limits[r]
    BY DEF UpdateAgent, IInv, Updates, Progress, Updating, Roles, Reached
<1>2. \A r \in Roles \ meddled : live[r].up => LimitsOf(live[r]) = Reached(r)
    BY <1>1 DEF IInv, Updates, Progress
<1>3. CASE "agent" \notin Changed /\ Goto("updateExecutor") /\ UNCHANGED <<live, want>>
  <2>1. /\ UNCHANGED <<live, env, cmd, old, new, done, errs, meddled, want, counts>>
        /\ pc' = "updateExecutor" /\ pc' \in Updating
      BY <1>1, <1>3 DEF Goto, locals, Updating
  <2>2. done' = Changed' \ {"executor"} /\ done' \subseteq Changed'
      BY <1>1, <1>3, <2>1, RolesAre DEF Changed
  <2>3. \A r \in Roles \ meddled' : live'[r].up => LimitsOf(live'[r]) = Reached(r)'
      BY <1>2, <2>1 DEF Reached
  <2>4. Progress'
      BY <2>1, <2>2, <2>3 DEF Progress
  <2>5. Recedes
      BY <2>1, RecedesIs
  <2> QED
      BY <1>1, <2>1, <2>4, <2>5, LiveTyped, UpdatingKeeps
<1>4. ASSUME "agent" \in Changed, UpdateWorks("agent", new.limits["agent"]),
             done' = done \cup {"agent"}, pc' = "updateExecutor",
             UNCHANGED <<cmd, old, new, errs, meddled, want>>
      PROVE  IInv'
  <2>1. /\ live' \in [Roles -> Container] /\ Ceilings'
        /\ live["agent"].up /\ \A q \in Roles \ {"agent"} : live'[q] = live[q]
        /\ "agent" \notin meddled => LimitsOf(live'["agent"]) = new.limits["agent"]
      BY <1>1, <1>2, <1>4, UpdateIs, TransitionHolds
  <2>2. Progress'
      BY <1>1, <1>2, <1>4, <2>1, RolesAre DEF Progress, Reached, Changed
  <2>3. Recedes
      BY <1>4, RecedesIs
  <2>4. pc' \in Updating
      BY <1>4 DEF Updating
  <2> QED
      BY <1>1, <1>4, <2>1, <2>2, <2>3, <2>4, UpdatingKeeps
<1>5. CASE Return /\ UpdateWorks("agent", new.limits["agent"]) /\ want' = DoubtOnly({"agent"})
  <2>1. /\ live' \in [Roles -> Container] /\ Ceilings'
        /\ \A q \in Roles \ {"agent"} : live'[q] = live[q]
      BY <1>1, <1>5, UpdateIs, TransitionHolds
  <2>2. Recedes /\ want'.limits["agent"] = Unknown
      BY <1>1, <1>5, RecedesIs, DoubtIs
  <2>3. \A r \in Roles : want'.limits[r] # Unknown /\ live'[r].up =>
                             LimitsOf(live'[r]) = want.limits[r]
      BY <1>1, <2>1, <2>2, ReachedIs DEF Recedes, Known
  <2> QED
      BY <1>1, <1>5, <2>1, <2>2, <2>3, UpdatingReturns
<1>6. CASE Return /\ UNCHANGED <<live, want>>
  <2>1. Recedes
      BY <1>6, RecedesIs
  <2>2. \A r \in Roles : want'.limits[r] # Unknown /\ live'[r].up =>
                             LimitsOf(live'[r]) = want.limits[r]
      BY <1>1, <1>6, ReachedIs DEF Known
  <2> QED
      BY <1>1, <1>6, <2>1, <2>2, LiveTyped, UpdatingReturns
<1> QED
    BY <1>3, <1>4, <1>5, <1>6 DEF UpdateAgent, Update

LEMMA UpdateExecutorKeeps == ASSUME IInv, UpdateExecutor PROVE IInv'
<1>1. /\ pc = "updateExecutor" /\ done = Changed \ {"executor"} /\ UNCHANGED <<env, counts>>
      /\ pc \in Updating /\ "executor" \in Roles
      /\ Reached("executor") = old.limits["executor"]
    BY DEF UpdateExecutor, IInv, Updates, Progress, Updating, Roles, Reached
<1>2. \A r \in Roles \ meddled : live[r].up => LimitsOf(live[r]) = Reached(r)
    BY <1>1 DEF IInv, Updates, Progress
<1>3. CASE "executor" \notin Changed /\ Goto("persist") /\ UNCHANGED <<live, want>>
  <2>1. /\ UNCHANGED <<live, env, cmd, old, new, done, errs, meddled, want, counts>>
        /\ pc' = "persist" /\ pc' \in Updating
      BY <1>1, <1>3 DEF Goto, locals, Updating
  <2>2. Progress'
      BY <1>1, <1>2, <1>3, <2>1 DEF Progress, Reached, Changed
  <2>3. Recedes
      BY <2>1, RecedesIs
  <2> QED
      BY <1>1, <2>1, <2>2, <2>3, LiveTyped, UpdatingKeeps
<1>4. ASSUME "executor" \in Changed, UpdateWorks("executor", new.limits["executor"]),
             done' = done \cup {"executor"}, pc' = "persist",
             UNCHANGED <<cmd, old, new, errs, meddled, want>>
      PROVE  IInv'
  <2>1. /\ live' \in [Roles -> Container] /\ Ceilings'
        /\ live["executor"].up /\ \A q \in Roles \ {"executor"} : live'[q] = live[q]
        /\ "executor" \notin meddled => LimitsOf(live'["executor"]) = new.limits["executor"]
      BY <1>1, <1>2, <1>4, UpdateIs, TransitionHolds
  <2>2. Progress'
      BY <1>1, <1>2, <1>4, <2>1, RolesAre DEF Progress, Reached, Changed
  <2>3. Recedes
      BY <1>4, RecedesIs
  <2>4. pc' \in Updating
      BY <1>4 DEF Updating
  <2> QED
      BY <1>1, <1>4, <2>1, <2>2, <2>3, <2>4, UpdatingKeeps
<1>5. CASE /\ Goto("undoAgent") /\ UpdateWorks("executor", new.limits["executor"])
           /\ want' = DoubtOnly({"executor"})
  <2>1. /\ live' \in [Roles -> Container] /\ Ceilings'
        /\ \A q \in Roles \ {"executor"} : live'[q] = live[q]
      BY <1>1, <1>5, UpdateIs, TransitionHolds
  <2>2. Recedes /\ want'.limits["executor"] = Unknown
      BY <1>1, <1>5, RecedesIs, DoubtIs
  <2>3. /\ UNCHANGED <<env, cmd, old, new, done, errs, meddled, counts>>
        /\ pc' = "undoAgent" /\ pc' \in Updating
      BY <1>1, <1>5 DEF Goto, locals, Updating
  <2>4. want'.limits["agent"] # Unknown /\ live'["agent"].up =>
            LimitsOf(live'["agent"]) = Reached("agent")
      BY <1>1, <2>1, <2>2, RolesAre, ReachedIs DEF Recedes, Known
  <2>5. Progress'
      BY <1>1, <2>2, <2>3, <2>4 DEF Progress, Reached, Changed, LiveKeeps, Known
  <2> QED
      BY <1>1, <2>1, <2>2, <2>3, <2>5, UpdatingKeeps
<1>6. CASE Goto("undoAgent") /\ UNCHANGED <<live, want>>
  <2>1. /\ UNCHANGED <<live, env, cmd, old, new, done, errs, meddled, want, counts>>
        /\ pc' = "undoAgent" /\ pc' \in Updating
      BY <1>1, <1>6 DEF Goto, locals, Updating
  <2>2. Recedes
      BY <2>1, RecedesIs
  <2>3. \A r \in Roles : Known(r) /\ live[r].up => LimitsOf(live[r]) = Reached(r)
      BY <1>1, ReachedIs
  <2>4. Progress'
      BY <1>1, <2>1, <2>3, RolesAre DEF Progress, Reached, Changed, LiveKeeps, Known
  <2> QED
      BY <1>1, <2>1, <2>2, <2>4, LiveTyped, UpdatingKeeps
<1> QED
    BY <1>3, <1>4, <1>5, <1>6 DEF UpdateExecutor, Update

LEMMA PersistKeeps == ASSUME IInv, Persist PROVE IInv'
<1>1. /\ pc = "persist" /\ pc \in Updating /\ Changed \subseteq done
      /\ UNCHANGED <<live, counts>> /\ (cmd = "reset" => new = DefaultResources)
      /\ new \in Resources /\ Fits(new)
    BY DEF Persist, IInv, TypeOK, Fit, Updates, Progress, Updating
<1>2. ASSUME env' = (IF cmd = "reset" THEN NoKeys ELSE Saved(new)), want' = Promise, Return
      PROVE  IInv'
  <2>1. env' \in Envs /\ Fits(env.res)' /\ LoadResources' = new
    <3>1. CASE cmd = "reset"
      <4>1. env' = NoKeys /\ new = DefaultResources
          BY <1>1, <1>2, <3>1
      <4> QED
          BY <1>1, <4>1 DEF NoKeys, Envs, Fits, LoadResources
    <3>2. CASE cmd # "reset"
      <4>1. env' = Saved(new)
          BY <1>2, <3>2
      <4> QED
          BY <1>1, <4>1 DEF Saved, Envs, Fits, LoadResources
    <3> QED
        BY <3>1, <3>2
  <2>2. \A r \in Roles \ meddled : live[r].up => LimitsOf(live[r]) = new.limits[r]
      BY <1>1 DEF IInv, Updates, Progress, Reached, Changed
  <2>3. Settled'
      BY <1>1, <1>2, <2>1, <2>2, PromiseIs
      DEF Settled, FileKeeps, LiveKeeps, Budgeted, Known
  <2>4. want' \in Wants
      BY <1>2, PromiseIs
  <2> QED
      BY <1>1, <1>2, <2>1, <2>3, <2>4, LiveTyped, CountsAre, ReturnKeeps
<1>3. ASSUME Goto("undoExecutor"), UNCHANGED <<env, want>> PROVE IInv'
  <2>1. /\ UNCHANGED <<live, env, cmd, old, new, done, errs, meddled, want, counts>>
        /\ pc' = "undoExecutor" /\ pc' \in Updating
      BY <1>1, <1>3 DEF Goto, locals, Updating
  <2>2. Recedes
      BY <2>1, RecedesIs
  <2>3. \A r \in Roles : Known(r) /\ live[r].up => LimitsOf(live[r]) = Reached(r)
      BY <1>1, ReachedIs
  <2>4. Progress'
      BY <1>1, <2>1, <2>3, RolesAre DEF IInv, Updates, Progress, Reached, Changed, LiveKeeps, Known
  <2> QED
      BY <1>1, <2>1, <2>2, <2>4, LiveTyped, UpdatingKeeps
<1> QED
    BY <1>2, <1>3 DEF Persist

LEMMA UndoExecutorKeeps == ASSUME IInv, UndoExecutor PROVE IInv'
<1>1. /\ pc = "undoExecutor" /\ pc \in Updating /\ pc' = "undoAgent" /\ pc' \in Updating
      /\ UNCHANGED <<env, cmd, old, new, done, errs, meddled, counts>>
      /\ "executor" \in Roles /\ "agent" \in Roles \ {"executor"}
    BY DEF UndoExecutor, Undo, Goto, locals, Updating, Roles
<1>2. /\ LiveKeeps("agent", Reached("agent")) /\ LiveKeeps("executor", Reached("executor"))
      /\ done \subseteq Changed
    BY <1>1 DEF IInv, Updates, Progress
<1>3. ASSUME live' \in [Roles -> Container], Ceilings', Recedes,
             live'["agent"] = live["agent"],
             LiveKeeps("executor", old.limits["executor"])'
      PROVE  IInv'
  <2>1. LiveKeeps("agent", Reached("agent"))'
      BY <1>1, <1>2, <1>3 DEF LiveKeeps, Reached, Recedes, Known
  <2>2. Progress'
      BY <1>1, <1>2, <1>3, <2>1 DEF Progress, Changed
  <2> QED
      BY <1>1, <1>3, <2>2, UpdatingKeeps
<1>4. CASE "executor" \in done /\ UpdateWorks("executor", old.limits["executor"])
           /\ UNCHANGED want
  <2>1. /\ live' \in [Roles -> Container] /\ Ceilings' /\ live["executor"].up
        /\ live'["agent"] = live["agent"]
        /\ Known("executor") => LimitsOf(live'["executor"]) = old.limits["executor"]
      BY <1>1, <1>2, <1>4, UpdateIs, TransitionHolds DEF LiveKeeps, Reached
  <2>2. Recedes
      BY <1>4, RecedesIs
  <2>3. LiveKeeps("executor", old.limits["executor"])'
      BY <1>1, <1>4, <2>1 DEF LiveKeeps, Known
  <2> QED
      BY <1>3, <2>1, <2>2, <2>3
<1>5. CASE UNCHANGED live /\ want' = DoubtOnly({"executor"})
  <2>1. Recedes /\ want'.limits["executor"] = Unknown
      BY <1>1, <1>5, RecedesIs, DoubtIs
  <2> QED
      BY <1>3, <1>5, <2>1, LiveTyped DEF LiveKeeps, Known
<1>6. CASE "executor" \notin done /\ UNCHANGED <<live, want>>
  <2>1. Recedes
      BY <1>6, RecedesIs
  <2>2. LiveKeeps("executor", old.limits["executor"])'
      BY <1>1, <1>2, <1>6 DEF LiveKeeps, Known, Reached
  <2> QED
      BY <1>3, <1>6, <2>1, <2>2, LiveTyped
<1> QED
    BY <1>4, <1>5, <1>6 DEF UndoExecutor, Undo

LEMMA UndoAgentKeeps == ASSUME IInv, UndoAgent PROVE IInv'
<1>1. /\ pc = "undoAgent" /\ pc \in Updating /\ Return /\ UNCHANGED <<env, counts>>
      /\ "agent" \in Roles
    BY DEF UndoAgent, Undo, Updating, Roles
<1>2. /\ LiveKeeps("agent", Reached("agent")) /\ LiveKeeps("executor", old.limits["executor"])
      /\ \A r \in Roles : Known(r) => want.limits[r] = old.limits[r]
    BY <1>1 DEF IInv, Updates, Progress, Based
<1>3. ASSUME live' \in [Roles -> Container], Ceilings', Recedes,
             \A q \in Roles \ {"agent"} : live'[q] = live[q],
             want'.limits["agent"] # Unknown /\ live'["agent"].up =>
                 LimitsOf(live'["agent"]) = old.limits["agent"]
      PROVE  IInv'
  <2>1. \A r \in Roles : want'.limits[r] # Unknown /\ live'[r].up =>
                             LimitsOf(live'[r]) = want.limits[r]
      BY <1>2, <1>3, RolesAre DEF LiveKeeps, Recedes, Known
  <2> QED
      BY <1>1, <1>3, <2>1, UpdatingReturns
<1>4. CASE "agent" \in done /\ UpdateWorks("agent", old.limits["agent"]) /\ UNCHANGED want
  <2>1. /\ live' \in [Roles -> Container] /\ Ceilings' /\ live["agent"].up
        /\ \A q \in Roles \ {"agent"} : live'[q] = live[q]
        /\ Known("agent") => LimitsOf(live'["agent"]) = old.limits["agent"]
      BY <1>1, <1>2, <1>4, UpdateIs, TransitionHolds DEF LiveKeeps, Reached
  <2>2. Recedes
      BY <1>4, RecedesIs
  <2> QED
      BY <1>3, <1>4, <2>1, <2>2 DEF Known
<1>5. CASE UNCHANGED live /\ want' = DoubtOnly({"agent"})
  <2>1. Recedes /\ want'.limits["agent"] = Unknown
      BY <1>1, <1>5, RecedesIs, DoubtIs
  <2> QED
      BY <1>3, <1>5, <2>1, LiveTyped
<1>6. CASE "agent" \notin done /\ UNCHANGED <<live, want>>
  <2>1. Recedes
      BY <1>6, RecedesIs
  <2> QED
      BY <1>2, <1>3, <1>6, <2>1, LiveTyped DEF LiveKeeps, Known, Reached
<1> QED
    BY <1>4, <1>5, <1>6 DEF UndoAgent, Undo

-----------------------------------------------------------------------------
(* An upgrade.                                                             *)

LEMMA SaveResourcesKeeps == ASSUME IInv, SaveResources PROVE IInv'
<1>1. /\ pc = "save" /\ UNCHANGED <<live, want, counts>> /\ Settled
      /\ old.budget = LoadResources.budget
    BY DEF SaveResources, IInv, Resting, Budgets0
<1>2. CASE Return /\ UNCHANGED env
    BY <1>1, <1>2, LiveTyped, RestReturns
<1>3. ASSUME env' = Saved(new), Goto("rmAgent") PROVE IInv'
  <2>1. UNCHANGED <<cmd, old, new, done, errs, meddled>> /\ pc' = "rmAgent"
      BY <1>3 DEF Goto, locals
  <2>2. new \in Resources /\ env' \in Envs /\ Fits(new) /\ env'.res = new /\ LoadResources' = new
      BY <1>3 DEF IInv, TypeOK, Fit, Saved, Envs, LoadResources
  <2>3. TypeOK'
      BY <1>1, <2>1, <2>2 DEF IInv, TypeOK, Steps, counts, Envs
  <2>4. Ceilings' /\ Fit'
      BY <1>1, <2>1, <2>2 DEF IInv, Ceilings, Fit, Fits
  <2>5. pc' \notin {"idle", "inspect", "save"} \cup Mounting \cup Updating
      BY <2>1 DEF Mounting, Updating
  <2>6. Based' /\ Fresh' /\ Resting' /\ Updates' /\ Budgets0' /\ Mounts'
      BY <1>1, <2>1, <2>5
      DEF IInv, Based, Fresh, Resting, Updates, Budgets0, Mounts, Known
  <2>7. \A r \in Roles : Known(r) /\ live[r].up => LimitsOf(live[r]) = old.limits[r]
      BY <1>1 DEF Settled, LiveKeeps, IInv, Based
  <2>8. want.budget # Unknown => want.budget = old.budget
      BY <1>1 DEF Settled, Budgeted
  <2>9. Replaces'
      BY <1>1, <2>1, <2>2, <2>7, <2>8 DEF Replaces, Known
  <2> QED
      BY <2>3, <2>4, <2>6, <2>9 DEF IInv
<1> QED
    BY <1>2, <1>3 DEF SaveResources

\* The containers are removed and created, and the file stays.
LEMMA ReplacingKeeps ==
    ASSUME IInv, pc \in Replacing, pc' \in Replacing,
           UNCHANGED <<env, cmd, old, new, done, want, meddled, counts>>, errs' \in BOOLEAN,
           live' \in [Roles -> Container], Ceilings',
           \A r \in Roles : live'[r].up => \/ live'[r] = live[r]
                                           \/ LimitsOf(live'[r]) = new.limits[r],
           pc' = "createExecutor" => LimitsOf(live'["agent"]) = new.limits["agent"]
    PROVE  IInv'
<1>1. pc' \in Steps
    BY DEF Replacing, Steps
<1>2. TypeOK'
    BY <1>1 DEF IInv, TypeOK, counts
<1>3. Fit'
    BY DEF IInv, Fit, Fits
<1>4. pc \notin {"idle", "inspect", "save"} \cup Mounting \cup Updating
      /\ pc' \notin {"idle", "inspect", "save"} \cup Mounting \cup Updating
    BY DEF Updating, Mounting, Replacing
<1>5. Based' /\ Fresh' /\ Resting' /\ Updates' /\ Mounts' /\ Budgets0'
    BY <1>4 DEF IInv, Based, Fresh, Resting, Updates, Mounts, Budgets0, Known
<1>6. Replaces'
    BY DEF IInv, Replaces, Known, LoadResources
<1> QED
    BY <1>2, <1>3, <1>5, <1>6 DEF IInv

\* An upgrade fails or is killed: what it did not change is as it was promised.
LEMMA ReplacingFails ==
    ASSUME IInv, pc \in Replacing, Return, want' = Doubt(Changed), UNCHANGED <<env, counts>>,
           live' \in [Roles -> Container], Ceilings',
           \A r \in Roles : live'[r].up => \/ live'[r] = live[r]
                                           \/ LimitsOf(live'[r]) = new.limits[r]
    PROVE  IInv'
<1>1. Changed \in SUBSET Roles /\ pc \notin {"idle", "inspect"}
    BY DEF Changed, Replacing
<1>2. /\ want' \in Wants
      /\ \A r \in Roles : want'.limits[r] # Unknown =>
            Known(r) /\ want'.limits[r] = want.limits[r] /\ old.limits[r] = new.limits[r]
      /\ want'.budget # Unknown => want'.budget = want.budget /\ old.budget = new.budget
    BY <1>1, DoubtIs DEF Changed, Known
<1>3. /\ LoadResources = new /\ (want.budget # Unknown => want.budget = old.budget)
      /\ \A r \in Roles : Known(r) => want.limits[r] = old.limits[r]
      /\ \A r \in Roles : Known(r) /\ live[r].up =>
              LimitsOf(live[r]) \in {old.limits[r], new.limits[r]}
    BY <1>1 DEF IInv, Replaces, Based
<1>4. Settled'
    BY <1>2, <1>3, SettledIs
<1>5. env' \in Envs /\ Fits(env.res)'
    BY EnvIs DEF Fits
<1> QED
    BY <1>2, <1>4, <1>5, CountsAre, ReturnKeeps

LEMMA RemoveKeeps ==
    ASSUME IInv, NEW r \in Roles, NEW step \in Replacing, NEW next \in Replacing,
           next # "createExecutor", Remove(r, step, next)
    PROVE  IInv'
<1>1. /\ pc = step /\ pc' = next /\ errs' \in BOOLEAN
      /\ UNCHANGED <<env, cmd, old, new, done, want, meddled, counts>>
    BY DEF Remove, IInv, TypeOK
<1>2. CASE UNCHANGED live
    BY <1>1, <1>2, LiveTyped, ReplacingKeeps
<1>3. CASE live' = [live EXCEPT ![r] = Missing]
  <2>1. \A q \in Roles : live'[q].up => live'[q] = live[q]
      BY <1>3, RemovedIs
  <2> QED
      BY <1>1, <1>3, <2>1, RemovedIs, ReplacingKeeps
<1> QED
    BY <1>2, <1>3 DEF Remove

LEMMA AfterRemoveKeeps == ASSUME IInv, AfterRemove PROVE IInv'
<1>1. pc = "removed" /\ pc \in Replacing /\ UNCHANGED <<live, env, counts>>
    BY DEF AfterRemove, Replacing
<1>2. CASE FailUpgrade
    BY <1>1, <1>2, LiveTyped, ReplacingFails DEF FailUpgrade
<1>3. CASE Goto("createAgent") /\ UNCHANGED want
  <2>1. /\ UNCHANGED <<env, cmd, old, new, done, want, errs, meddled, counts>>
        /\ pc' = "createAgent" /\ pc' \in Replacing /\ errs \in BOOLEAN
      BY <1>1, <1>3 DEF Goto, locals, Replacing, IInv, TypeOK
  <2> QED
      BY <1>1, <2>1, LiveTyped, ReplacingKeeps
<1> QED
    BY <1>2, <1>3 DEF AfterRemove

\* The containers after one of them was created, or was not.
LEMMA MaybeCreated ==
    ASSUME IInv, NEW r \in Roles, CreateWorks(r) \/ UNCHANGED live
    PROVE  /\ live' \in [Roles -> Container] /\ Ceilings'
           /\ \A q \in Roles : live'[q].up => \/ live'[q] = live[q]
                                              \/ LimitsOf(live'[q]) = new.limits[q]
<1>1. CASE CreateWorks(r)
    BY <1>1, CreateIs
<1>2. CASE UNCHANGED live
    BY <1>2, LiveTyped
<1> QED
    BY <1>1, <1>2

LEMMA CreateAgentKeeps == ASSUME IInv, CreateAgent PROVE IInv'
<1>1. /\ pc = "createAgent" /\ pc \in Replacing /\ UNCHANGED <<env, counts>>
      /\ "agent" \in Roles
    BY DEF CreateAgent, Replacing, Roles
<1>2. ASSUME CreateWorks("agent"), Goto("createExecutor"), UNCHANGED want PROVE IInv'
  <2>1. /\ UNCHANGED <<env, cmd, old, new, done, want, errs, meddled, counts>>
        /\ pc' = "createExecutor" /\ pc' \in Replacing /\ errs \in BOOLEAN
      BY <1>1, <1>2 DEF Goto, locals, Replacing, IInv, TypeOK
  <2>2. LimitsOf(live'["agent"]) = new.limits["agent"]
      BY <1>1, <1>2, CreateIs
  <2> QED
      BY <1>1, <1>2, <2>1, <2>2, MaybeCreated, ReplacingKeeps
<1>3. ASSUME FailUpgrade, CreateWorks("agent") \/ UNCHANGED live PROVE IInv'
    BY <1>1, <1>3, MaybeCreated, ReplacingFails DEF FailUpgrade
<1> QED
    BY <1>2, <1>3 DEF CreateAgent

LEMMA CreateExecutorKeeps == ASSUME IInv, CreateExecutor PROVE IInv'
<1>1. /\ pc = "createExecutor" /\ pc \in Replacing /\ UNCHANGED <<env, counts>>
      /\ "executor" \in Roles
    BY DEF CreateExecutor, Replacing, Roles
<1>2. ASSUME CreateWorks("executor"), Return, want' = Promise PROVE IInv'
  <2>1. /\ live' \in [Roles -> Container] /\ Ceilings'
        /\ LimitsOf(live'["executor"]) = new.limits["executor"]
        /\ live'["agent"] = live["agent"]
      BY <1>1, <1>2, CreateIs, RolesAre
  <2>2. LoadResources = new
        /\ ("agent" \notin meddled /\ live["agent"].up =>
               LimitsOf(live["agent"]) = new.limits["agent"])
      BY <1>1 DEF IInv, Replaces
  <2>3. /\ want' \in Wants /\ want'.budget = new.budget
        /\ \A r \in Roles : want'.limits[r] # Unknown =>
              r \notin meddled /\ want'.limits[r] = new.limits[r]
      BY <1>2, PromiseIs
  <2>4. \A r \in Roles : want'.limits[r] # Unknown =>
            /\ LoadResources.limits[r] = want'.limits[r]
            /\ live'[r].up => LimitsOf(live'[r]) = want'.limits[r]
      BY <2>1, <2>2, <2>3, RolesAre
  <2>5. Settled'
      BY <1>1, <2>2, <2>3, <2>4, SettledIs
  <2>6. env' \in Envs /\ Fits(env.res)'
      BY <1>1, EnvIs DEF Fits
  <2> QED
      BY <1>1, <1>2, <2>1, <2>3, <2>5, <2>6, CountsAre, ReturnKeeps
<1>3. ASSUME Goto("removeLeaked"), UNCHANGED want, CreateWorks("executor") \/ UNCHANGED live
      PROVE  IInv'
  <2>1. /\ UNCHANGED <<env, cmd, old, new, done, want, errs, meddled, counts>>
        /\ pc' = "removeLeaked" /\ pc' \in Replacing /\ errs \in BOOLEAN
      BY <1>1, <1>3 DEF Goto, locals, Replacing, IInv, TypeOK
  <2> QED
      BY <1>1, <1>3, <2>1, MaybeCreated, ReplacingKeeps
<1> QED
    BY <1>2, <1>3 DEF CreateExecutor

LEMMA MaybeRemoved ==
    ASSUME IInv, NEW r \in Roles, live' \in {live, [live EXCEPT ![r] = Missing]}
    PROVE  /\ live' \in [Roles -> Container] /\ Ceilings'
           /\ \A q \in Roles : live'[q].up => live'[q] = live[q]
BY RemovedIs, LiveTyped

LEMMA RemoveLeakedKeeps == ASSUME IInv, RemoveLeaked PROVE IInv'
<1>1. /\ pc = "removeLeaked" /\ pc \in Replacing /\ UNCHANGED <<env, counts>>
      /\ "agent" \in Roles /\ FailUpgrade /\ live' \in {live, [live EXCEPT !["agent"] = Missing]}
    BY DEF RemoveLeaked, Replacing, Roles
<1> QED
    BY <1>1, MaybeRemoved, ReplacingFails DEF FailUpgrade

-----------------------------------------------------------------------------
(* A mount change.                                                         *)

LEMMA ReRemoveKeeps == ASSUME IInv, ReRemove PROVE IInv'
<1>1. /\ pc = "reRemove" /\ pc \in Mounting /\ UNCHANGED <<env, want, counts>>
      /\ "agent" \in Roles /\ live' \in {live, [live EXCEPT !["agent"] = Missing]}
    BY DEF ReRemove, Mounting, Roles
<1>2. Settled
    BY <1>1 DEF IInv, Resting
<1>3. /\ live' \in [Roles -> Container] /\ Ceilings'
      /\ \A q \in Roles : live'[q].up => live'[q] = live[q]
    BY <1>1, MaybeRemoved
<1>4. CASE Return
    BY <1>1, <1>2, <1>3, <1>4, RestReturns
<1>5. CASE Goto("reCreate")
  <2>1. UNCHANGED <<cmd, old, new, done, errs, meddled>> /\ pc' = "reCreate" /\ pc' \in Mounting
      BY <1>5 DEF Goto, locals, Mounting
  <2>2. TypeOK'
      BY <1>1, <1>3, <2>1 DEF IInv, TypeOK, Steps, counts
  <2>3. Fit'
      BY <1>1, <2>1 DEF IInv, Fit, Fits
  <2>4. Settled'
      BY <1>1, <1>2, <1>3 DEF Settled, FileKeeps, LiveKeeps, Budgeted, Known, LoadResources
  <2>5. pc \notin {"idle", "inspect"} \cup Replacing \cup Updating
        /\ pc' \notin {"idle", "inspect"} \cup Replacing \cup Updating
      BY <1>1, <2>1 DEF Replacing, Updating
  <2>6. Based' /\ Fresh' /\ Resting' /\ Updates' /\ Replaces' /\ Budgets0' /\ Mounts'
      BY <1>1, <2>1, <2>4, <2>5
      DEF IInv, Based, Fresh, Resting, Updates, Replaces, Budgets0, Mounts, Known, LoadResources
  <2> QED
      BY <1>3, <2>2, <2>3, <2>6 DEF IInv
<1> QED
    BY <1>4, <1>5 DEF ReRemove

LEMMA ReCreateKeeps == ASSUME IInv, ReCreate PROVE IInv'
<1>1. /\ pc = "reCreate" /\ pc \in Mounting /\ UNCHANGED <<env, want, counts>> /\ Return
      /\ "agent" \in Roles /\ (CreateWorks("agent") \/ UNCHANGED live)
    BY DEF ReCreate, Mounting, Roles
<1>2. Settled /\ new = old /\ \A r \in Roles : Known(r) => want.limits[r] = old.limits[r]
    BY <1>1 DEF IInv, Resting, Mounts, Based
<1> QED
    BY <1>1, <1>2, MaybeCreated, RestReturns

-----------------------------------------------------------------------------
(* Kills, and operators.                                                   *)

LEMMA CrashKeeps == ASSUME IInv, Crash PROVE IInv'
<1>1. /\ pc # "idle" /\ Return /\ UNCHANGED <<live, env, counts>> /\ Changed \in SUBSET Roles
      /\ want' = IF pc = "inspect" THEN want ELSE Doubt(Changed)
    BY DEF Crash, Changed
<1>2. CASE pc \in {"inspect", "save"} \cup Mounting
  <2>1. Settled /\ (want' = want \/ want' = Doubt(Changed))
      BY <1>1, <1>2 DEF IInv, Resting
  <2> QED
      BY <1>1, <2>1, LiveTyped, RestReturns
<1>3. CASE pc \in Updating
  <2>1. want' = Doubt(Changed)
      BY <1>1, <1>3 DEF Updating
  <2>2. /\ Recedes
        /\ \A r \in Roles : want'.limits[r] # Unknown => Known(r) /\ r \notin Changed
      BY <1>1, <2>1, RecedesIs, DoubtIs DEF Known
  <2>3. ASSUME NEW r \in Roles, Known(r), r \notin Changed, live[r].up
        PROVE  LimitsOf(live[r]) = want.limits[r]
    <3>1. Reached(r) = old.limits[r] /\ want.limits[r] = old.limits[r]
        BY <1>3, <2>3 DEF Reached, Changed, IInv, Based, Updating
    <3>2. CASE pc \in {"updateAgent", "updateExecutor", "persist"}
        BY <2>3, <3>1, <3>2, ReachedIs
    <3>3. CASE pc \in {"undoExecutor", "undoAgent"}
        BY <1>3, <2>3, <3>1, <3>3, RolesAre DEF IInv, Updates, Progress, LiveKeeps
    <3> QED
        BY <1>3, <3>2, <3>3 DEF Updating
  <2> QED
      BY <1>1, <1>3, <2>2, <2>3, LiveTyped, UpdatingReturns
<1>4. CASE pc \in Replacing
  <2>1. want' = Doubt(Changed)
      BY <1>1, <1>4 DEF Replacing
  <2> QED
      BY <1>1, <1>4, <2>1, LiveTyped, ReplacingFails
<1>5. pc \in Steps
    BY DEF IInv, TypeOK
<1> QED
    BY <1>1, <1>2, <1>3, <1>4, <1>5 DEF Steps, Mounting, Updating, Replacing

\* A container changes under a command, or while none runs.
LEMMA OutsideKeeps ==
    ASSUME IInv, UNCHANGED <<env, pc, cmd, old, new, done, errs, commands>>,
           live' \in [Roles -> Container], Ceilings', outside' \in 0 .. MaxOutside,
           meddled' \in SUBSET Roles, pc # "idle" => meddled \subseteq meddled', Recedes,
           \A r \in Roles : want'.limits[r] # Unknown => r \notin meddled',
           \A r \in Roles :
               /\ want'.limits[r] # Unknown \/ (pc # "idle" /\ r \notin meddled')
               /\ live'[r].up
               => live'[r] = live[r]
    PROVE  IInv'
<1>1. TypeOK'
    BY DEF IInv, TypeOK, Recedes, Wants
<1>2. Fit'
    BY DEF IInv, Fit, Fits
<1>3. Based' /\ Fresh' /\ Budgets0' /\ Mounts'
    BY DEF IInv, Based, Fresh, Budgets0, Mounts, Known, Recedes, LoadResources
<1>4. Settled => Settled'
    BY DEF Settled, FileKeeps, LiveKeeps, Budgeted, Known, LoadResources, Recedes
<1>5. Resting'
    BY <1>4 DEF IInv, Resting
<1>6. Updates'
  <2> SUFFICES ASSUME pc \in Updating PROVE Updates'
      BY DEF Updates
  <2>1. pc # "idle" /\ meddled \subseteq meddled'
      BY DEF Updating
  <2>2. (\A r \in Roles : FileKeeps(r)) /\ Budgeted /\ TransitionAllowed(old, new)
        /\ (cmd = "reset" => new = DefaultResources) /\ Progress
      BY DEF IInv, Updates
  <2>3. (\A r \in Roles : FileKeeps(r)') /\ Budgeted' /\ TransitionAllowed(old, new)'
      BY <2>2 DEF FileKeeps, Budgeted, Known, LoadResources, Recedes, TransitionAllowed
  <2>4. \A r \in Roles \ meddled' : live'[r].up => live'[r] = live[r] /\ r \notin meddled
      BY <2>1
  <2>5. UNCHANGED Changed /\ \A r \in Roles : Reached(r)' = Reached(r)
      BY DEF Changed, Reached
  <2>6. ASSUME pc \in {"updateAgent", "updateExecutor", "persist"},
               NEW r \in Roles \ meddled', live'[r].up
        PROVE  LimitsOf(live'[r]) = Reached(r)'
      BY <2>2, <2>4, <2>5, <2>6 DEF Progress
  <2>7. ASSUME NEW r \in Roles, NEW lim, LiveKeeps(r, lim), want'.limits[r] # Unknown, live'[r].up
        PROVE  LimitsOf(live'[r]) = lim
      BY <2>7 DEF LiveKeeps, Known, Recedes
  <2>8. Progress'
      BY <2>2, <2>5, <2>6, <2>7, RolesAre DEF Progress, LiveKeeps, Known
  <2> QED
      BY <2>2, <2>3, <2>8 DEF Updates
<1>7. Replaces'
  <2> SUFFICES ASSUME pc \in Replacing PROVE Replaces'
      BY DEF Replaces
  <2>1. pc # "idle" /\ meddled \subseteq meddled'
      BY DEF Replacing
  <2> QED
      BY <2>1, RolesAre DEF IInv, Replaces, Known, LoadResources, Recedes
<1> QED
    BY <1>1, <1>2, <1>3, <1>5, <1>6, <1>7 DEF IInv

LEMMA DockerUpdateKeeps ==
    ASSUME IInv, NEW r \in Roles, DockerUpdate(r)
    PROVE  IInv'
<1>1. PICK lim \in OutsideLimits : \E s \in {lim.mem, 2 * lim.mem} :
          live' = [live EXCEPT ![r] = [up |-> TRUE, cpu |-> lim.cpu, mem |-> lim.mem,
                                       swap |-> s, mine |-> FALSE]]
    BY DEF DockerUpdate
<1>2. PICK s \in {lim.mem, 2 * lim.mem} :
          live' = [live EXCEPT ![r] = [up |-> TRUE, cpu |-> lim.cpu, mem |-> lim.mem,
                                       swap |-> s, mine |-> FALSE]]
    BY <1>1
<1> DEFINE c == [up |-> TRUE, cpu |-> lim.cpu, mem |-> lim.mem, swap |-> s, mine |-> FALSE]
<1>3. /\ lim \in Limits /\ Half(lim.mem) /\ lim.mem \in Nat
      /\ lim.cpu \in Cpus \cup {0} /\ lim.mem \in Mems \cup {0}
    BY LimIs DEF OutsideLimits, Half
<1>4. s \in 0 .. MaxInt
    BY <1>3, Numbers
<1>5. c \in Container /\ Half(c.mem) /\ (c.mine => c.swap = 2 * c.mem)
    BY <1>3, <1>4 DEF Container
<1> HIDE DEF c
<1>6. /\ live' \in [Roles -> Container] /\ Ceilings'
      /\ \A q \in Roles \ {r} : live'[q] = live[q]
    BY <1>2, <1>5, LiveIs DEF c
<1>7. want' = DoubtOnly({r}) /\ meddled' = (IF pc = "idle" THEN {} ELSE meddled \cup {r})
      /\ UNCHANGED <<env, pc, cmd, old, new, done, errs, commands>>
      /\ outside < MaxOutside /\ outside' = outside + 1
    BY DEF DockerUpdate
<1>8. outside' \in 0 .. MaxOutside /\ meddled \in SUBSET Roles
    BY <1>7, Numbers DEF IInv, TypeOK
<1>9. Recedes /\ want'.limits[r] = Unknown
    BY <1>7, RecedesIs, DoubtIs
<1>10. \A q \in Roles : want'.limits[q] # Unknown => q # r /\ Known(q)
    BY <1>9 DEF Recedes, Known
<1>11. \A q \in Roles : Known(q) => q \notin meddled
    BY DEF IInv, Based
<1>12. \A q \in Roles : want'.limits[q] # Unknown => q \notin meddled'
    BY <1>7, <1>10, <1>11
<1>13. meddled' \in SUBSET Roles /\ (pc # "idle" => meddled \subseteq meddled')
    BY <1>7, <1>8
<1>14. \A q \in Roles : (want'.limits[q] # Unknown \/ (pc # "idle" /\ q \notin meddled'))
                             => live'[q] = live[q]
    BY <1>6, <1>7, <1>10
<1> QED
    BY <1>6, <1>7, <1>8, <1>9, <1>12, <1>13, <1>14, OutsideKeeps

LEMMA DockerRemoveKeeps ==
    ASSUME IInv, NEW r \in Roles, DockerRemove(r)
    PROVE  IInv'
<1>1. /\ live' = [live EXCEPT ![r] = Missing] /\ outside < MaxOutside /\ outside' = outside + 1
      /\ UNCHANGED <<env, pc, cmd, old, new, done, errs, meddled, want, commands>>
    BY DEF DockerRemove, locals
<1>2. outside' \in 0 .. MaxOutside /\ meddled' \in SUBSET Roles
    BY <1>1, Numbers DEF IInv, TypeOK
<1>3. Recedes
    BY <1>1, RecedesIs
<1>4. \A q \in Roles : want'.limits[q] # Unknown => q \notin meddled'
    BY <1>1 DEF IInv, Based, Known
<1>5. /\ live' \in [Roles -> Container] /\ Ceilings'
      /\ \A q \in Roles : live'[q].up => live'[q] = live[q]
    BY <1>1, RemovedIs
<1> QED
    BY <1>1, <1>2, <1>3, <1>4, <1>5, OutsideKeeps

-----------------------------------------------------------------------------
(* The invariant, and what it says of the properties.                      *)

LEMMA IInvInit == Init => IInv
<1> SUFFICES ASSUME Init PROVE IInv
    OBVIOUS
<1> DEFINE D == DefaultResources
<1>1. /\ live = [r \in Roles |-> Created(D.limits[r])] /\ env \in {NoKeys, Saved(D)}
      /\ pc = "idle" /\ cmd = "none" /\ old = D /\ new = D /\ done = {} /\ errs = FALSE
      /\ meddled = {} /\ want = D /\ commands = 0 /\ outside = 0
    BY DEF Init
<1>2. \A r \in Roles : D.limits[r] \in Limits /\ D.limits[r] # Unknown
                       /\ SwapLimit(D.limits[r].mem).ok
    BY DefaultIs, LimIs, SwapIs DEF Fits
<1>3. D \in Resources /\ Fits(D) /\ env \in Envs /\ env.res = D /\ LoadResources = D
  <2>1. D \in Resources /\ Fits(D)
      BY DefaultIs
  <2>2. env = [saved |-> FALSE, res |-> D] \/ env = [saved |-> TRUE, res |-> D]
      BY <1>1 DEF NoKeys, Saved
  <2>3. LoadResources = IF env.saved THEN env.res ELSE D
      BY DEF LoadResources
  <2> HIDE DEF D
  <2>4. env.res = D /\ env \in Envs
    <3>1. PICK b \in BOOLEAN : env = [saved |-> b, res |-> D]
        BY <2>2, Zenon
    <3> QED
        BY <2>1, <3>1 DEF Envs
  <2>5. LoadResources = D
      BY <2>3, <2>4
  <2> QED
      BY <2>1, <2>4, <2>5
<1>4. \A r \in Roles : /\ live[r] \in Container /\ LimitsOf(live[r]) = D.limits[r]
                       /\ Half(live[r].mem) /\ live[r].swap = 2 * live[r].mem
    BY <1>1, <1>2, CreatedIs
<1> HIDE DEF D
<1>5. live \in [Roles -> Container] /\ Ceilings
    BY <1>1, <1>4 DEF Ceilings
<1>6. 0 \in 0 .. MaxCommands /\ 0 \in 0 .. MaxOutside
    BY Numbers
<1>7. want \in Wants
    BY <1>1, <1>3 DEF Resources, Wants
<1>8. TypeOK
    BY <1>1, <1>3, <1>5, <1>6, <1>7 DEF TypeOK, Steps, Envs, Wants
<1>9. Fit
    BY <1>1, <1>3 DEF Fit
<1>10. Settled
    BY <1>1, <1>3, <1>4 DEF Settled, FileKeeps, LiveKeeps, Budgeted
<1>11. Based /\ Fresh /\ Resting
    BY <1>1, <1>10 DEF Based, Fresh, Resting
<1>12. Updates /\ Replaces /\ Budgets0 /\ Mounts
    BY <1>1 DEF Updates, Replaces, Budgets0, Mounts, Updating, Replacing, Mounting
<1> QED
    BY <1>5, <1>8, <1>9, <1>11, <1>12 DEF IInv

LEMMA IInvStep == IInv /\ [Next]_vars => IInv'
<1> SUFFICES ASSUME IInv, [Next]_vars PROVE IInv'
    OBVIOUS
<1>1. CASE UNCHANGED vars
    BY <1>1 DEF vars, IInv, TypeOK, Ceilings, Fit, Fits, Based, Fresh, Resting, Settled, Updates,
                Progress, Replaces, Budgets0, Mounts, FileKeeps, LiveKeeps, Budgeted, Known,
                Reached, Changed, LoadResources, TransitionAllowed
<1>2. ASSUME NEW c \in {"set", "reset", "upgrade", "mount"}, Begin(c) PROVE IInv'
    BY <1>2, BeginKeeps
<1>3. CASE Refused
    BY <1>3, RefusedKeeps
<1>4. CASE InspectLive
    BY <1>4, InspectLiveKeeps
<1>5. CASE UpdateAgent
    BY <1>5, UpdateAgentKeeps
<1>6. CASE UpdateExecutor
    BY <1>6, UpdateExecutorKeeps
<1>7. CASE Persist
    BY <1>7, PersistKeeps
<1>8. CASE UndoExecutor
    BY <1>8, UndoExecutorKeeps
<1>9. CASE UndoAgent
    BY <1>9, UndoAgentKeeps
<1>10. CASE InspectUpgrade
    BY <1>10, InspectUpgradeKeeps
<1>11. CASE SaveResources
    BY <1>11, SaveResourcesKeeps
<1>12. CASE RemoveAgent
    BY <1>12, RemoveKeeps DEF RemoveAgent, Replacing, Roles
<1>13. CASE RemoveExecutor
    BY <1>13, RemoveKeeps DEF RemoveExecutor, Replacing, Roles
<1>14. CASE AfterRemove
    BY <1>14, AfterRemoveKeeps
<1>15. CASE CreateAgent
    BY <1>15, CreateAgentKeeps
<1>16. CASE CreateExecutor
    BY <1>16, CreateExecutorKeeps
<1>17. CASE RemoveLeaked
    BY <1>17, RemoveLeakedKeeps
<1>18. CASE InspectAgent
    BY <1>18, InspectAgentKeeps
<1>19. CASE ReRemove
    BY <1>19, ReRemoveKeeps
<1>20. CASE ReCreate
    BY <1>20, ReCreateKeeps
<1>21. CASE Crash
    BY <1>21, CrashKeeps
<1>22. ASSUME NEW r \in Roles, DockerUpdate(r) \/ DockerRemove(r) PROVE IInv'
    BY <1>22, DockerUpdateKeeps, DockerRemoveKeeps
<1> QED
    BY <1>1, <1>2, <1>3, <1>4, <1>5, <1>6, <1>7, <1>8, <1>9, <1>10, <1>11, <1>12, <1>13, <1>14,
       <1>15, <1>16, <1>17, <1>18, <1>19, <1>20, <1>21, <1>22 DEF Next

LEMMA IInvCorrect == Spec => []IInv
BY IInvInit, IInvStep, PTL DEF Spec

\* Containers, file and promises stay what the code's types allow, the swap
\* ceilings within the width of an int64.
THEOREM TypeCorrect == Spec => []TypeOK
<1>1. IInv => TypeOK
    BY DEF IInv
<1> QED
    BY <1>1, IInvCorrect, PTL

\* No command, failed or killed where it may be, leaves a ceiling that is not
\* twice the memory it was given (defaultMemorySwapLimit, Resources.Validate).
THEOREM SwapCorrect == Spec => []SwapIsTwiceMemory
<1>1. IInv => SwapIsTwiceMemory
    BY DEF IInv, Ceilings, SwapIsTwiceMemory
<1> QED
    BY <1>1, IInvCorrect, PTL

\* Limits once set survive whatever later commands do or fail to do to others
\* (applyResourcesTransaction, InspectResources, cmdUpgrade's order).
THEOREM SurviveCorrect == Spec => []ChangesSurvive
<1>1. ASSUME IInv PROVE ChangesSurvive
  <2> SUFFICES ASSUME pc = "idle" PROVE ChangesSurvive
      BY DEF ChangesSurvive
  <2>1. Settled
      BY <1>1 DEF IInv, Resting
  <2>2. \A r \in Roles : Known(r) => InspectResources.limits[r] = want.limits[r]
      BY <1>1, <2>1, InspectIs DEF Settled, FileKeeps, LiveKeeps
  <2> QED
      BY <2>1, <2>2 DEF ChangesSurvive, Effective, Known, Settled, Budgeted
<1> QED
    BY <1>1, IInvCorrect, PTL

===============================================================================
