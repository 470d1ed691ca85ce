----------------------------- MODULE ServiceCapture ---------------------------
(* What others may count on of a tx9-logs capture: it launches its command   *)
(* again and again, one at a time; told to end it begins no other launch,    *)
(* though one under way may still succeed, and ends when its command and     *)
(* whatever that forked into its process group have; a command never         *)
(* outlives its supervisor, not even one that is killed, but what it forked  *)
(* may outlive a killed one.                                                 *)

CONSTANTS
    Captures,  \* the supervisors
    Restart    \* they start their command again

VARIABLES
    cap,       \* supervisor -> "launch", "rest" or "gone"
    kid,       \* supervisor -> its command runs
    kin,       \* supervisor -> others of its command's process group run
    termed     \* supervisor -> it was told to end

vars == <<cap, kid, kin, termed>>

Alive == {"launch", "rest"}

Init ==
    /\ cap = [c \in Captures |-> "launch"]
    /\ kid = [c \in Captures |-> FALSE]
    /\ kin = [c \in Captures |-> FALSE]
    /\ termed = [c \in Captures |-> FALSE]

Becomes(c, phase) == cap' = [cap EXCEPT ![c] = phase]

Launch(c) ==
    /\ cap[c] = "launch"
    /\ Becomes(c, "rest")
    /\ kid' = [kid EXCEPT ![c] = TRUE]
    /\ UNCHANGED <<kin, termed>>

LaunchFails(c) ==
    /\ cap[c] = "launch"
    /\ Becomes(c, "rest")
    /\ UNCHANGED <<kid, kin, termed>>

Forks(c) ==
    /\ kid[c] /\ ~kin[c]
    /\ kin' = [kin EXCEPT ![c] = TRUE]
    /\ UNCHANGED <<cap, kid, termed>>

\* One SIGKILL to the group ends the others with it.
KidEnds(c) ==
    /\ kid[c]
    /\ kid' = [kid EXCEPT ![c] = FALSE]
    /\ kin' \in {kin, [kin EXCEPT ![c] = FALSE]}
    /\ UNCHANGED <<cap, termed>>

KinEnd(c) ==
    /\ kin[c]
    /\ kin' = [kin EXCEPT ![c] = FALSE]
    /\ UNCHANGED <<cap, kid, termed>>

Again(c) ==
    /\ cap[c] = "rest" /\ ~kid[c] /\ ~kin[c] /\ ~termed[c] /\ Restart
    /\ Becomes(c, "launch")
    /\ UNCHANGED <<kid, kin, termed>>

Ends(c) ==
    /\ cap[c] = "rest" /\ ~kid[c] /\ ~kin[c] /\ (termed[c] \/ ~Restart)
    /\ Becomes(c, "gone")
    /\ UNCHANGED <<kid, kin, termed>>

\* A launch that is under way may be caught by it.
Told(c) ==
    /\ cap[c] \in Alive
    /\ termed' = [termed EXCEPT ![c] = TRUE]
    /\ Becomes(c, "rest") \/ UNCHANGED cap
    /\ UNCHANGED <<kid, kin>>

\* The parent-death signal reaches the command, and it alone.
Killed(c) ==
    /\ cap[c] \in Alive
    /\ Becomes(c, "gone")
    /\ kid' = [kid EXCEPT ![c] = FALSE]
    /\ UNCHANGED <<kin, termed>>

Next ==
    \E c \in Captures :
       \/ Launch(c) \/ LaunchFails(c) \/ Forks(c) \/ KidEnds(c) \/ KinEnd(c)
       \/ Again(c) \/ Ends(c) \/ Told(c) \/ Killed(c)

Spec == Init /\ [][Next]_vars

=============================================================================
