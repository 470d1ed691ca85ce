--------------------------- MODULE MCResourceTxn ----------------------------
(* Model-checking instances of ResourceTxn: four-bit integers.             *)
EXTENDS ResourceTxn

MCAgentDefault    == [cpu |-> 1, mem |-> 3]
MCExecutorDefault == [cpu |-> 1, mem |-> 2]

=============================================================================
