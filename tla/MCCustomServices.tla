-------------------------- MODULE MCCustomServices --------------------------
(* Model-checking instances of CustomServices.  Process numbers and the    *)
(* versions of a drop-in are interchangeable.                              *)
EXTENDS CustomServices, TLC

Symmetry == Permutations(Pids) \cup Permutations(Versions)

=============================================================================
