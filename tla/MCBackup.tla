------------------------------ MODULE MCBackup ------------------------------
(* Model-checking instances of Backup.                                     *)
EXTENDS Backup, TLC

Symmetry == Permutations(Names)

=============================================================================
