---------------------------- MODULE AtomicInstall ----------------------------
(* What installing promises: the path of the executable holds one complete  *)
(* program at any time, which is the one found there at first or a release   *)
(* that was published in full; it changes in one step.  A power cut may      *)
(* bring back any program replaced since the last one, or, if a program was  *)
(* placed carelessly since then, leave a file that is no program.            *)

CONSTANTS
    Programs,    \* the programs there are
    Lost         \* what a power cut makes of a file that was not flushed

VARIABLES
    installed,   \* the program at the path
    older,       \* what it replaced since the last power cut
    lossy,       \* a program was placed since then whose data were not flushed
    offered      \* the programs published in full

vars == <<installed, older, lossy, offered>>

Init ==
    /\ installed \in Programs /\ older = {}
    /\ lossy = FALSE /\ offered = {}

Offer(p) ==
    /\ offered' = offered \cup {p}
    /\ UNCHANGED <<installed, older, lossy>>

Install(p) ==
    /\ p \in offered
    /\ installed' = p /\ older' = older \cup {installed}
    /\ lossy' \in {lossy, TRUE}
    /\ UNCHANGED offered

PowerCut ==
    /\ installed' \in {installed} \cup older \cup (IF lossy THEN {Lost} ELSE {})
    /\ older' = {} /\ lossy' = FALSE
    /\ UNCHANGED offered

Next == PowerCut \/ \E p \in Programs : Offer(p) \/ Install(p)

Spec == Init /\ [][Next]_vars

=============================================================================
