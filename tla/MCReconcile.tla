---------------------------- MODULE MCReconcile ----------------------------
(* Instantiates Reconcile for TLC. The values come from the cfg files.     *)
EXTENDS Reconcile, TLC

\* Replicas are interchangeable; used by the runs that check no liveness.
Symmetry == Permutations(Replica)
=============================================================================
