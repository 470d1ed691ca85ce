--------------------------- MODULE MCBoxLifecycle ---------------------------
(* Model-checking instances of BoxLifecycle.                               *)
EXTENDS BoxLifecycle, TLC

\* Processes, tokens and targets are interchangeable in every definition.
Symmetry == Permutations(Procs) \cup Permutations(Tokens) \cup Permutations(Targets)

TokenSymmetry == Permutations(Tokens)

=============================================================================
