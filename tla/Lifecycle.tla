----------------------------- MODULE Lifecycle ------------------------------
(***************************************************************************)
(* What the operator promises about one Whisper name: a copy is written    *)
(* only while a Whisper of that name exists and its finalizer is in place, *)
(* the finalizer is given up, and the Whisper with it, only once the last  *)
(* copy is gone, and a deletion always gets there.  How namespaces are     *)
(* resolved, found and visited does not show here; Reconcile implements    *)
(* the promise step by step.                                               *)
(***************************************************************************)
EXTENDS Naturals

CONSTANT Namespace

VARIABLES
  phase,      \* absent, live or deleting: the Whisper at the API server
  protected,  \* its finalizer is in place
  uid,        \* its uid, or that of the last one
  copies      \* per namespace, the uid of the Whisper copied there, or 0

vars == <<phase, protected, uid, copies>>

Nowhere == [ns \in Namespace |-> 0]

Init ==
  /\ phase = "live" /\ protected = FALSE /\ uid = 1
  /\ copies = Nowhere

Protect ==
  /\ phase = "live" /\ ~protected
  /\ protected' = TRUE
  /\ UNCHANGED <<phase, uid, copies>>

\* Written while the Whisper is being deleted, too: apply may be under way.
Write(ns) ==
  /\ phase # "absent" /\ protected
  /\ copies' = [copies EXCEPT ![ns] = uid]
  /\ UNCHANGED <<phase, protected, uid>>

\* By the operator, or by anyone else who may delete secrets there.
Reclaim(ns) ==
  /\ copies' = [copies EXCEPT ![ns] = 0]
  /\ UNCHANGED <<phase, protected, uid>>

Delete ==
  /\ phase = "live"
  /\ phase' = IF protected THEN "deleting" ELSE "absent"
  /\ UNCHANGED <<protected, uid, copies>>

\* cleanup has returned, and the finalizer goes.
Release ==
  /\ phase = "deleting" /\ protected
  /\ copies = Nowhere
  /\ phase' = "absent" /\ protected' = FALSE
  /\ UNCHANGED <<uid, copies>>

Create ==
  /\ phase = "absent"
  /\ phase' = "live" /\ uid' = uid + 1
  /\ UNCHANGED <<protected, copies>>

Next ==
  \/ Protect \/ Delete \/ Release \/ Create
  \/ \E ns \in Namespace : Write(ns) \/ Reclaim(ns)

\* Nobody but the operator need act, and it finishes every deletion.
Completes == (phase = "deleting") ~> (phase = "absent")

Spec == Init /\ [][Next]_vars
FairSpec == Spec /\ Completes
=============================================================================
