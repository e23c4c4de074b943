------------------------------ MODULE SyncPlan ------------------------------
(***************************************************************************)
(* The set algebra of one reconcile of a Whisper (src/src/controller.rs):  *)
(* which of the wanted namespaces become targets, which namespaces are     *)
(* written, which are reclaimed, and where the operator looks for copies.  *)
(*                                                                         *)
(* A namespace list of the cluster is abstracted to the set of namespaces  *)
(* that exist with the allow-sync label; a configuration is the record     *)
(* [write, drain] of the two namespace sets in the operator's environment. *)
(***************************************************************************)

\* is_protected_namespace: the system's namespaces and the operator's own.
IsProtected(ns, protected) == ns \in protected

\* Mutant: the protected list is forgotten.
Consenting_Unprotected(labelled, protected) == labelled

\* is_consenting_namespace over a listing: labelled, and never a protected one.
Consenting(labelled, protected) == {ns \in labelled : ~IsProtected(ns, protected)}

\* resolve_targets: a target is wanted and consents. Namespaces that do not
\* exist or did not opt in are only logged.
ResolveTargets(wanted, labelled, protected) ==
  wanted \cap Consenting(labelled, protected)

\* Mutant: a draining namespace stays a target.
Confine_Draining(targets, conf) ==
  {ns \in targets : conf.write = {} \/ ns \in conf.write \cup conf.drain}

\* The tail of resolve: never a draining namespace, and only writeNamespaces
\* when that set is configured (empty means unconfigured, not "nowhere").
Confine(targets, conf) ==
  {ns \in targets \ conf.drain : conf.write = {} \/ ns \in conf.write}

Resolve(wanted, labelled, protected, conf) ==
  Confine(ResolveTargets(wanted, labelled, protected), conf)

\* Context::probe_namespaces: everywhere a copy of ours could be.
ProbeNamespaces(conf) == conf.write \cup conf.drain

\* plan: rewrite every target, reclaim what is known and no longer a target.
ToWrite(synced, targets)  == targets
ToDelete(synced, targets) == synced \ targets
=============================================================================
