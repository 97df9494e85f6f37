--------------------------- MODULE MCReconciliation ---------------------------
(* Instances of Reconciliation for TLC. *)
EXTENDS Reconciliation, TLC

CONSTANTS j1, j2, d1

(* Jobs of one kind are told apart only by their names. *)
Symmetry == Permutations(PoolJobs)

==============================================================================
