----------------------------- MODULE MCElection -----------------------------
(* Instantiates Election for TLC. The values come from the cfg files.      *)
EXTENDS Election, TLC

\* Replicas are interchangeable; used by the runs that check no liveness.
Symmetry == Permutations(Replica)
=============================================================================
