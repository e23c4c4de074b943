----------------------------- MODULE Leadership -----------------------------
(***************************************************************************)
(* What the reconciler relies on when it asks ctx.state.is_leader(): while *)
(* nobody else tampers with the lease, a replica gains leadership only     *)
(* when no other has it, and replicas gain and lose it one at a time.      *)
(*                                                                         *)
(* Election implements this promise on a Lease; Reconcile takes leadership *)
(* from it through Elect, StepDown and Restart.                            *)
(***************************************************************************)
CONSTANT Replica

VARIABLES
  leaders,  \* replicas whose LeaderState answers is_leader
  trusted   \* nobody but the replicas has changed the lease

vars == <<leaders, trusted>>

Init ==
  /\ leaders = {}
  /\ trusted \in BOOLEAN

Gain(r) ==
  /\ r \notin leaders
  /\ trusted => leaders = {}
  /\ leaders' = leaders \cup {r}
  /\ UNCHANGED trusted

Lose(r) ==
  /\ r \in leaders
  /\ leaders' = leaders \ {r}
  /\ UNCHANGED trusted

Tamper ==
  /\ trusted' = FALSE
  /\ UNCHANGED leaders

Next == Tamper \/ \E r \in Replica : Gain(r) \/ Lose(r)

Spec == Init /\ [][Next]_vars
=============================================================================
