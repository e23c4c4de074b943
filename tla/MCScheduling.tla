---------------------------- MODULE MCScheduling ----------------------------
(* Instantiates Scheduling for TLC. The values come from the cfg files.    *)
EXTENDS Scheduling, TLC
=============================================================================
