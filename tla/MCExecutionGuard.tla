------------------------- MODULE MCExecutionGuard -------------------------
(* ExecutionGuard for TLC. *)
EXTENDS ExecutionGuard, TLC

Symmetry == Permutations(Users) \cup Permutations(Executions)
=============================================================================
