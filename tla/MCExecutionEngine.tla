-------------------------- MODULE MCExecutionEngine --------------------------
(* ExecutionEngine on small instances. *)
EXTENDS ExecutionEngine, TLC

\* Ids and tokens are only compared, so any permutation of them is a symmetry.
Symmetry == Permutations(OrderId) \cup Permutations(Token)
=============================================================================
