------------------------------ MODULE LogCapture ----------------------------
(***************************************************************************)
(* tx9-logs capture: the supervisor every tx9-owned process runs under.    *)
(*                                                                         *)
(* It starts the command in a process group of its own, forwards signals   *)
(* to that group, sweeps the group when the direct child exits and, for    *)
(* custom services, starts the command again after a delay.  The signal    *)
(* handler runs between any two steps of the main thread, the supervisor   *)
(* may be killed at any moment, and once the kernel has released a process *)
(* group number somebody else's group may get it.                          *)
(***************************************************************************)
EXTENDS Naturals

CONSTANTS
    Restart,   \* --restart-delay was given
    MaxStarts  \* bound on starts of the command

ASSUME CaptureAssumption == Restart \in BOOLEAN /\ MaxStarts \in Nat \ {0}

VARIABLES
    main,      \* the main thread; "gone" once the supervisor is dead
    received,  \* received_signal is set
    child,     \* the direct child
    kids,      \* other processes of the child's group are alive
    termed,    \* the child's group has been sent the signal
    armed,     \* active_pgid is set
    number,    \* whose process group the child's number names
    starts,    \* times the command was launched
    told,      \* history: a signal reached the supervisor
    stray      \* history: a signal went to somebody else's group

captureVars == <<main, received, child, kids, termed, armed, number, starts, told, stray>>

MainSteps ==
    {"popen", "assigned", "honour", "handshake", "startFailed", "watch", "sweep",
     "drain", "finish", "abort", "disarm", "reap", "delay", "gone"}

\* The child is forked into the set-up shim, asks for a parent-death signal,
\* checks its parent and becomes the command.  A dead one is a zombie until
\* its parent reaps it.
Alive    == {"shim", "guarded", "command"}
Children == Alive \cup {"none", "failed", "zombie"}

CaptureTypeOK ==
    /\ main \in MainSteps
    /\ received \in BOOLEAN /\ kids \in BOOLEAN /\ termed \in BOOLEAN
    /\ armed \in BOOLEAN /\ told \in BOOLEAN /\ stray \in BOOLEAN
    /\ child \in Children
    /\ number \in {"none", "ours", "free", "foreign"}
    /\ starts \in 0 .. MaxStarts

CaptureInit ==
    /\ main = "popen"
    /\ received = FALSE /\ kids = FALSE /\ termed = FALSE
    /\ armed = FALSE /\ told = FALSE /\ stray = FALSE
    /\ child = "none"
    /\ number = "none"
    /\ starts = 0

running == main # "gone"
Proceed(step) == main' = step

-----------------------------------------------------------------------------
(* Signals to a group.                                                     *)

\* _signal_process_group: killpg on active_pgid, if it is set.  A termination
\* signal ends the shim at once and the others when they react to it; a kill
\* ends them all.  A number nobody uses is an error the code ignores.
Killpg(sig) ==
    IF ~armed THEN UNCHANGED <<child, kids, termed, stray>>
    ELSE /\ stray' = (stray \/ number = "foreign")
         /\ IF number # "ours" THEN UNCHANGED <<child, kids, termed>>
            ELSE IF sig = "KILL"
            THEN /\ child' = IF child = "none" THEN "none" ELSE "zombie"
                 /\ kids' = FALSE /\ UNCHANGED termed
            ELSE /\ child' = IF child \in {"shim", "guarded"} THEN "zombie" ELSE child
                 /\ termed' = TRUE /\ UNCHANGED kids

\* _forward_signal, the handler, between any two steps of the main thread.
Signal ==
    /\ running
    /\ received' = TRUE /\ told' = TRUE
    /\ Killpg("TERM")
    /\ UNCHANGED <<main, armed, number, starts>>

-----------------------------------------------------------------------------
(* The main thread: capture_command and run_once.                          *)

\* Popen returns with a child in its own session, or fails.
Popen ==
    /\ main = "popen"
    /\ \/ /\ starts < MaxStarts
          /\ starts' = starts + 1
          /\ child' = "shim" /\ number' = "ours"
          /\ termed' = FALSE
          /\ Proceed("assigned")
       \/ Proceed("delay") /\ UNCHANGED <<child, number, termed, starts>>
    /\ UNCHANGED <<received, kids, armed, told, stray>>

\* self.active_pgid = child.pid; a signal before this found no group.
Assign ==
    /\ main = "assigned"
    /\ armed' = TRUE
    /\ Proceed("honour")
    /\ UNCHANGED <<received, child, kids, termed, number, starts, told, stray>>

\* Mutant: a signal that came during the launch is not repeated.
HonourNothing ==
    /\ main = "honour"
    /\ Proceed("handshake")
    /\ UNCHANGED <<received, child, kids, termed, armed, number, starts, told, stray>>

\* It is repeated here, after the readers have been started.
Honour ==
    /\ main = "honour"
    /\ IF received THEN Killpg("TERM") ELSE UNCHANGED <<child, kids, termed, stray>>
    /\ Proceed("handshake")
    /\ UNCHANGED <<received, armed, number, starts, told>>

\* The status pipe: end of file once the command runs or the shim is dead, a
\* message if the shim failed, or an error of our own.
Handshake ==
    /\ main = "handshake"
    /\ \/ child \in {"command", "zombie"} /\ Proceed("watch")
       \/ child = "failed" /\ Proceed("startFailed")
       \/ Proceed("abort")
    /\ UNCHANGED <<received, child, kids, termed, armed, number, starts, told, stray>>

\* The shim has reported and exits; its group is killed only if the output
\* could not be drained.
StartFailed ==
    /\ main = "startFailed"
    /\ Proceed("disarm")
    /\ child' = "zombie"
    /\ UNCHANGED <<received, kids, termed, armed, number, starts, told, stray>>

\* waitid with WNOWAIT: the zombie keeps its number.
Watch ==
    /\ main = "watch" /\ child = "zombie"
    /\ Proceed("sweep")
    /\ UNCHANGED <<received, child, kids, termed, armed, number, starts, told, stray>>

Sweep ==
    /\ main = "sweep"
    /\ Killpg("TERM")
    /\ Proceed("drain")
    /\ UNCHANGED <<received, armed, number, starts, told>>

\* The readers drain the pipes, for a bounded time.
Drain ==
    /\ main = "drain"
    /\ Proceed("finish")
    /\ UNCHANGED <<received, child, kids, termed, armed, number, starts, told, stray>>

\* Mutant: descendants that outlive the grace period are left alone.
FinishGently ==
    /\ main = "finish"
    /\ Proceed("disarm")
    /\ UNCHANGED <<received, child, kids, termed, armed, number, starts, told, stray>>

Finish ==
    /\ main = "finish"
    /\ Killpg("KILL")
    /\ Proceed("disarm")
    /\ UNCHANGED <<received, armed, number, starts, told>>

\* The error path of the launch kills the group as well.
Abort ==
    /\ main = "abort"
    /\ Killpg("KILL")
    /\ Proceed("disarm")
    /\ UNCHANGED <<received, armed, number, starts, told>>

\* Mutant: active_pgid outlives the child.
KeepArmed ==
    /\ main = "disarm"
    /\ Proceed("reap")
    /\ UNCHANGED <<received, child, kids, termed, armed, number, starts, told, stray>>

\* _reap_child: first forget the number, then let the kernel have it.
Disarm ==
    /\ main = "disarm"
    /\ armed' = FALSE
    /\ Proceed("reap")
    /\ UNCHANGED <<received, child, kids, termed, number, starts, told, stray>>

Reap ==
    /\ main = "reap" /\ child = "zombie"
    /\ child' = "none"
    /\ number' = IF kids THEN "ours" ELSE "free"
    /\ Proceed("delay")
    /\ UNCHANGED <<received, kids, termed, armed, starts, told, stray>>

\* Mutant: the loop does not look at the signal.
DelayOblivious ==
    /\ main = "delay"
    /\ IF ~Restart THEN Proceed("gone") ELSE Proceed("popen")
    /\ UNCHANGED <<received, child, kids, termed, armed, number, starts, told, stray>>

\* capture_command returns, or waits for its delay and starts over.
Delay ==
    /\ main = "delay"
    /\ IF ~Restart \/ received THEN Proceed("gone") ELSE Proceed("popen")
    /\ UNCHANGED <<received, child, kids, termed, armed, number, starts, told, stray>>

-----------------------------------------------------------------------------
(* The child and the rest of the system.                                   *)

\* prctl(PR_SET_PDEATHSIG), unless it fails.
Guard ==
    /\ child = "shim"
    /\ child' \in {"guarded", "failed"}
    /\ UNCHANGED <<main, received, kids, termed, armed, number, starts, told, stray>>

\* Mutant: the shim does not look whether its parent is still there.
ExecBlindly ==
    /\ child = "guarded"
    /\ child' \in {"command", "failed"}
    /\ UNCHANGED <<main, received, kids, termed, armed, number, starts, told, stray>>

\* os.getppid() must still be the supervisor; then exec.
Exec ==
    /\ child = "guarded"
    /\ IF running THEN child' \in {"command", "failed"} ELSE child' = "zombie"
    /\ UNCHANGED <<main, received, kids, termed, armed, number, starts, told, stray>>

\* The command forks, and exits by itself or because of the signal.
Fork ==
    /\ child = "command"
    /\ kids' = TRUE
    /\ UNCHANGED <<main, received, child, termed, armed, number, starts, told, stray>>

Exits ==
    /\ child = "command" /\ ~termed
    /\ child' = "zombie"
    /\ UNCHANGED <<main, received, kids, termed, armed, number, starts, told, stray>>

Reacts ==
    /\ child = "command" /\ termed
    /\ child' = "zombie"
    /\ UNCHANGED <<main, received, kids, termed, armed, number, starts, told, stray>>

KidsExit ==
    /\ kids
    /\ kids' = FALSE
    /\ number' = IF child = "none" THEN "free" ELSE number
    /\ UNCHANGED <<main, received, child, termed, armed, starts, told, stray>>

\* The supervisor is killed: the kernel kills a guarded child.
Killed ==
    /\ running
    /\ Proceed("gone")
    /\ child' = IF child \in {"guarded", "command"} THEN "zombie" ELSE child
    /\ UNCHANGED <<received, kids, termed, armed, number, starts, told, stray>>

\* Somebody else's process group gets the number.
Reuse ==
    /\ number = "free"
    /\ number' = "foreign"
    /\ UNCHANGED <<main, received, child, kids, termed, armed, starts, told, stray>>

-----------------------------------------------------------------------------
MainStep ==
    \/ Popen \/ Assign \/ Honour \/ Handshake \/ StartFailed \/ Watch \/ Sweep
    \/ Drain \/ Finish \/ Abort \/ Disarm \/ Reap \/ Delay

Shim == Guard \/ Exec

CaptureNext ==
    \/ MainStep \/ Shim \/ Signal \/ Killed
    \/ Fork \/ Exits \/ Reacts \/ KidsExit \/ Reuse

CaptureSpec == CaptureInit /\ [][CaptureNext]_captureVars

\* The supervisor and the shim run, and a command ends once it has been told to.
FairCapture ==
    /\ CaptureSpec
    /\ WF_captureVars(MainStep) /\ WF_captureVars(Shim) /\ WF_captureVars(Reacts)

-----------------------------------------------------------------------------
(* Properties.                                                             *)

\* The supervisor never signals a process group that is not its child's: it
\* forgets the number before it reaps, and a zombie pins it until then
\* (_reap_child, waitid with WNOWAIT).
NoStraySignal == ~stray

\* The command never runs without its supervisor: the parent-death signal is
\* armed before the exec, and the race with a parent already dead is closed
\* (parent_death_exec).
NoOrphan == child = "command" => running

\* A signal is never lost on the child, whenever in the launch it comes:
\* either the command has been sent it or the launch is about to send it
\* (_forward_signal, run_once).
SignalReachesChild ==
    told /\ child = "command" /\ running => termed \/ main \in {"assigned", "honour"}

\* The command is started again only when nothing of its previous process
\* group is left (the final SIGKILL of run_once).
NoLeftovers == main \in {"delay", "popen"} => ~kids

\* To everybody else the supervisor is the one ServiceCapture describes: told to
\* end it begins no launch after the one under way, it starts over or ends only
\* when nothing of its command's group is left, and its command never outlives it,
\* however it dies (capture_command, run_once, parent_death_exec).
Phase ==
    IF ~running THEN "gone"
    ELSE IF main = "popen" \/ child \in {"shim", "guarded"} THEN "launch" ELSE "rest"
Service == INSTANCE ServiceCapture WITH
    Captures <- {"it"}, cap <- [c \in {"it"} |-> Phase],
    kid <- [c \in {"it"} |-> child = "command"], kin <- [c \in {"it"} |-> kids],
    termed <- [c \in {"it"} |-> told]
ServesAsPromised == Service!Spec

\* A supervisor told to stop ends, provided its command obeys the signal.
SignalEnds == told ~> ~running

=============================================================================
