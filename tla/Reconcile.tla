----------------------------- MODULE Reconcile -----------------------------
(***************************************************************************)
(* The reconciler of src/src/controller.rs for one Whisper name, one step  *)
(* per awaited API call.  Several replicas of the operator run dispatcher, *)
(* apply and cleanup against one API server while users and the cluster    *)
(* administrator act on the same objects.                                  *)
(*                                                                         *)
(* A step of a replica is one request at the instant the API server serves *)
(* it, together with the synchronous code up to the next await; leadership *)
(* (ctx.state.is_leader) is read where the code reads it.  Reads of the    *)
(* cluster therefore go stale between two steps exactly as they do between *)
(* two awaits.  Leadership itself is abstract here: the election loop sets *)
(* `leader` through Elect, StepDown and Restart (see Election).            *)
(***************************************************************************)
EXTENDS Naturals, FiniteSets, SyncPlan

CONSTANTS
  Replica,      \* operator pods
  Namespace,    \* namespaces the cluster has
  Protected,    \* kube-system and friends, and the operator's own namespace
  Requestable,  \* namespaces a user may list in spec.namespaces
  Labelled,     \* namespaces that carry allow-sync=true at the start
  Writable,     \* writeNamespaces of the chart at the start
  Value,        \* contents the source secret may have
  NoValue,      \* "no contents": no source secret
  NoNamespace,  \* "no namespace": not working on one
  MaxUid,       \* bound: how many Whispers of this name are ever created
  Events,       \* kinds of environment events that may happen
  MaxEvents,    \* bound: how many of them happen
  Exclusive,    \* TRUE: a replica is elected only when no other one leads
  CaughtUp      \* TRUE: a replica is elected only with an up-to-date store

Kinds == {"create", "edit", "delete", "loseStatus", "label", "source",
          "plant", "remove", "enrol", "decommission", "retire",
          "fail", "crash", "stepDown"}

ASSUME ConstantsAssumption ==
  /\ NoValue \notin Value
  /\ NoNamespace \notin Namespace
  /\ Protected \subseteq Namespace
  /\ Requestable \subseteq Namespace
  /\ Labelled \subseteq Namespace
  /\ Writable \subseteq Namespace
  /\ MaxUid \in Nat \ {0}
  /\ MaxEvents \in Nat
  /\ Events \subseteq Kinds
  /\ Exclusive \in BOOLEAN
  /\ CaughtUp \in BOOLEAN

VARIABLES
  whisper,   \* the Whisper object at the API server
  source,    \* contents of the source secret, NoValue when it is missing
  secret,    \* per namespace, the secret that bears the copy's name
  labelled,  \* namespaces that carry allow-sync=true
  chart,     \* the deployed chart's write and drain sets: RBAC, and new pods
  leader,    \* replicas whose LeaderState reads Leading
  store,     \* per replica, the Whisper in its reflector store
  conf,      \* per replica, the chart's sets when its process started
  pc,        \* per replica, the await its reconcile is at
  job,       \* per replica, the locals of its reconcile
  intact,    \* replicas whose verified secret has not changed since
  spent      \* environment events so far

clusterVars == <<whisper, source, secret, labelled, chart>>
vars == <<clusterVars, leader, store, conf, pc, job, intact, spent>>

---------------------------------------------------------------------------
(* Objects.                                                                *)

Uid == 1 .. MaxUid

\* No Whisper; uid still names the last one, since uids are never reused.
Gone(uid) ==
  [phase |-> "absent", fin |-> FALSE, uid |-> uid, wanted |-> {}, status |-> {}]
Created(uid, wanted) ==
  [phase |-> "live", fin |-> FALSE, uid |-> uid, wanted |-> wanted, status |-> {}]

\* What the operator tells apart about a secret: is_owned_copy reads the
\* owner-uid label, and a refresh compares the data.
NoSecret == [kind |-> "none", uid |-> 0, data |-> NoValue]
Foreign  == [kind |-> "foreign", uid |-> 0, data |-> NoValue]
\* Mutant: dup forgets to stamp the owner-uid label.
Copy_Unlabelled(uid, data) == [kind |-> "copy", data |-> data]
Copy(uid, data) == [kind |-> "copy", uid |-> uid, data |-> data]

IsOwnedCopy(s, uid) == s.kind = "copy" /\ s.uid = uid

\* The locals of a reconcile: whom it is for, what it takes for known, and what
\* apply and cleanup fill in on the way (cur is the namespace at hand).
Job(mode, uid, wanted, known) ==
  [mode |-> mode, uid |-> uid, wanted |-> wanted, known |-> known, src |-> NoValue,
   targets |-> {}, todo |-> {}, del |-> {}, put |-> {}, cur |-> NoNamespace]
Idle == Job("none", 0, {}, {})

Pcs == {"idle", "addFinalizer", "source", "resolve", "probe", "loop",
        "getDelete", "delete", "getWrite", "patch", "status",
        "cleanup", "removeFinalizer"}

WhisperType ==
  [phase : {"absent", "live", "deleting"}, fin : BOOLEAN, uid : Uid,
   wanted : SUBSET Namespace, status : SUBSET Namespace]
SecretType ==
  [kind : {"none", "foreign", "copy"}, uid : 0 .. MaxUid, data : Value \cup {NoValue}]
ConfType == [write : SUBSET Namespace, drain : SUBSET Namespace]
JobType ==
  [mode : {"none", "apply", "cleanup"}, uid : 0 .. MaxUid,
   wanted : SUBSET Namespace, known : SUBSET Namespace, src : Value \cup {NoValue},
   targets : SUBSET Namespace, todo : SUBSET Namespace, del : SUBSET Namespace,
   put : SUBSET Namespace, cur : Namespace \cup {NoNamespace}]

\* Type invariant: every variable keeps the shape the code gives it.
TypeOK ==
  /\ whisper \in WhisperType
  /\ source \in Value \cup {NoValue}
  /\ secret \in [Namespace -> SecretType]
  /\ labelled \in SUBSET Namespace
  /\ chart \in ConfType
  /\ leader \in SUBSET Replica
  /\ store \in [Replica -> WhisperType]
  /\ conf \in [Replica -> ConfType]
  /\ pc \in [Replica -> Pcs]
  /\ job \in [Replica -> JobType]
  /\ intact \in SUBSET Replica
  /\ spent \in Nat /\ spent <= MaxEvents

Init ==
  /\ \E wanted \in SUBSET Requestable : whisper = Created(1, wanted)
  /\ source \in Value
  /\ secret = [ns \in Namespace |-> NoSecret]
  /\ labelled = Labelled
  /\ chart = [write |-> Writable, drain |-> {}]
  /\ leader = {}
  /\ store = [r \in Replica |-> Gone(1)]
  /\ conf = [r \in Replica |-> [write |-> Writable, drain |-> {}]]
  /\ pc = [r \in Replica |-> "idle"]
  /\ job = [r \in Replica |-> Idle]
  /\ intact = {}
  /\ spent = 0

---------------------------------------------------------------------------
(* Authorisation: the RoleBindings follow the chart that is deployed, for  *)
(* every pod, whatever sets that pod was started with.                     *)

\* Mutant: no RoleBinding for draining namespaces.
CanReclaim_WriteOnly(ns) == ns \in chart.write

CanReclaim(ns) == ns \in chart.write \cup chart.drain   \* get and delete
CanPatch(ns)   == ns \in chart.write                    \* create and patch

(* Progress of a reconcile.                                                *)

IsLeader(r) == r \in leader

Goto(r, label) == pc' = [pc EXCEPT ![r] = label]
Update(r, locals) == job' = [job EXCEPT ![r] = locals]

\* Back to the head of the loop at hand.
NextElement(r) ==
  /\ Goto(r, "loop")
  /\ Update(r, [job[r] EXCEPT !.cur = NoNamespace])

\* Returning Ok or Err: either way the object is queued again, so a later
\* Dispatch picks it up (requeue, error policy, or a watch event).
Return(r) ==
  /\ Goto(r, "idle")
  /\ Update(r, Idle)
  /\ intact' = intact \ {r}

\* A request the API server refuses: `?` ends the reconcile.
Refused(r) == Return(r) /\ UNCHANGED <<clusterVars, leader, store, conf, spent>>

\* The secret in ns becomes s. A change bumps its resourceVersion, which
\* voids the delete preconditions held by replicas working on ns.
SetSecret(ns, s) == secret' = [secret EXCEPT ![ns] = s]
StillIntact(ns, s) ==
  IF s = secret[ns] THEN intact ELSE {q \in intact : job[q].cur # ns}

---------------------------------------------------------------------------
(* dispatcher and kube's finalizer(): what the snapshot in the store calls *)
(* for.  kube runs one reconcile per object and process at a time.         *)

\* The record of copies is the snapshot's status; for cleanup, everything the
\* snapshot lists may hold a copy.
ApplyJob(w)   == Job("apply", w.uid, w.wanted, w.status)
CleanupJob(w) == Job("cleanup", w.uid, {}, w.status \cup w.wanted)

\* Mutant: apply does not wait for the finalizer.
DispatchApply_Unfinalized(r) ==
  /\ store[r].phase = "live"
  /\ Goto(r, "source")
  /\ Update(r, ApplyJob(store[r]))

\* Event::Apply.
DispatchApply(r) ==
  /\ store[r].phase = "live" /\ store[r].fin
  /\ Goto(r, "source")
  /\ Update(r, ApplyJob(store[r]))

\* Mutant: a Whisper with nothing recorded is not cleaned up.
DispatchCleanup_Recorded(r) ==
  /\ store[r].phase = "deleting" /\ store[r].fin /\ store[r].status # {}
  /\ Goto(r, "cleanup")
  /\ Update(r, CleanupJob(store[r]))

\* Event::Cleanup.
DispatchCleanup(r) ==
  /\ store[r].phase = "deleting" /\ store[r].fin
  /\ Goto(r, "cleanup")
  /\ Update(r, CleanupJob(store[r]))

\* No finalizer yet: nothing else may happen before it is in place.
DispatchNew(r) ==
  /\ store[r].phase = "live" /\ ~store[r].fin
  /\ Goto(r, "addFinalizer")
  /\ UNCHANGED job

\* A replica that does not lead only queues the object again.
Dispatch(r) ==
  /\ pc[r] = "idle" /\ IsLeader(r)
  /\ DispatchApply(r) \/ DispatchCleanup(r) \/ DispatchNew(r)
  /\ UNCHANGED <<clusterVars, leader, store, conf, intact, spent>>

\* JSON patch by name, testing that there is no finalizer to begin with.
AddFinalizer(r) ==
  /\ pc[r] = "addFinalizer"
  /\ IF whisper.phase = "live" /\ ~whisper.fin
       THEN /\ whisper' = [whisper EXCEPT !.fin = TRUE]
            /\ Return(r)
            /\ UNCHANGED <<source, secret, labelled, chart, leader, store, conf, spent>>
       ELSE Refused(r)

\* JSON patch by name, testing that the finalizer is there. It runs after any
\* Ok of cleanup, and lets the API server drop a Whisper that is being deleted.
RemoveFinalizer(r) ==
  /\ pc[r] = "removeFinalizer"
  /\ IF whisper.fin
       THEN /\ whisper' = IF whisper.phase = "deleting"
                            THEN Gone(whisper.uid)
                            ELSE [whisper EXCEPT !.fin = FALSE]
            /\ Return(r)
            /\ UNCHANGED <<source, secret, labelled, chart, leader, store, conf, spent>>
       ELSE Refused(r)

---------------------------------------------------------------------------
(* apply, up to its plan.                                                  *)

\* Without the source secret nothing is written and nothing is reclaimed.
ReadSource(r) ==
  /\ pc[r] = "source"
  /\ IF source = NoValue
       THEN Return(r)
       ELSE /\ Goto(r, "resolve")
            /\ Update(r, [job[r] EXCEPT !.src = source])
            /\ UNCHANGED intact
  /\ UNCHANGED <<clusterVars, leader, store, conf, spent>>

\* The sets used are those of the process, which may predate the chart's.
ResolveTargetsOf(r) ==
  /\ pc[r] = "resolve"
  /\ Goto(r, "probe")
  /\ Update(r, [job[r] EXCEPT
                  !.targets = Resolve(job[r].wanted, labelled, Protected, conf[r]),
                  !.todo = ProbeNamespaces(conf[r])])
  /\ UNCHANGED <<clusterVars, leader, store, conf, intact, spent>>

\* Mutant: the probe's findings are dropped.
Known_StatusOnly(r, ns) == job[r].known

\* discover_copies adds ns when the secret there is one of ours.
Known(r, ns) ==
  job[r].known \cup (IF IsOwnedCopy(secret[ns], job[r].uid) THEN {ns} ELSE {})

\* discover_copies, one get per namespace in the order of a hash set. Shared by
\* apply and cleanup; one failing get ends either of them.
Probe(r, ns) ==
  /\ pc[r] = "probe" /\ ns \in job[r].todo
  /\ IF CanReclaim(ns)
       THEN /\ Update(r, [job[r] EXCEPT !.known = Known(r, ns), !.todo = @ \ {ns}])
            /\ UNCHANGED <<clusterVars, leader, store, conf, pc, intact, spent>>
       ELSE Refused(r)

\* plan, behind the first leadership check of apply.
Plan(r) ==
  /\ pc[r] = "probe" /\ job[r].todo = {} /\ job[r].mode = "apply"
  /\ IF IsLeader(r)
       THEN /\ Goto(r, "loop")
            /\ Update(r, [job[r] EXCEPT
                            !.put = ToWrite(job[r].known, job[r].targets),
                            !.del = ToDelete(job[r].known, job[r].targets),
                            !.wanted = {}, !.known = {}])
            /\ UNCHANGED intact
       ELSE Return(r)
  /\ UNCHANGED <<clusterVars, leader, store, conf, spent>>

---------------------------------------------------------------------------
(* cleanup, up to its loop.                                                *)

\* The check that says "deferring cleanup" returns Ok, and finalizer() takes
\* every Ok for a finished cleanup.
StartCleanup(r) ==
  /\ pc[r] = "cleanup"
  /\ IF IsLeader(r)
       THEN /\ Goto(r, "probe")
            /\ Update(r, [job[r] EXCEPT !.todo = ProbeNamespaces(conf[r])])
       ELSE /\ Goto(r, "removeFinalizer")
            /\ UNCHANGED job
  /\ UNCHANGED <<clusterVars, leader, store, conf, intact, spent>>

\* Reclaim everywhere a copy may be; the event is recorded first.
PlanCleanup(r) ==
  /\ pc[r] = "probe" /\ job[r].todo = {} /\ job[r].mode = "cleanup"
  /\ Goto(r, "loop")
  /\ Update(r, [job[r] EXCEPT !.del = job[r].known, !.known = {}])
  /\ UNCHANGED <<clusterVars, leader, store, conf, intact, spent>>

---------------------------------------------------------------------------
(* The two loops. apply checks leadership before every element, cleanup    *)
(* does not check again.                                                   *)

MayContinue(r) == job[r].mode = "cleanup" \/ IsLeader(r)

NextDelete(r, ns) ==
  /\ pc[r] = "loop" /\ ns \in job[r].del
  /\ MayContinue(r)
  /\ Goto(r, "getDelete")
  /\ Update(r, [job[r] EXCEPT !.del = @ \ {ns}, !.cur = ns])
  /\ UNCHANGED <<clusterVars, leader, store, conf, intact, spent>>

NextWrite(r, ns) ==
  /\ pc[r] = "loop" /\ job[r].del = {} /\ ns \in job[r].put
  /\ MayContinue(r)
  /\ Goto(r, "getWrite")
  /\ Update(r, [job[r] EXCEPT !.put = @ \ {ns}, !.cur = ns])
  /\ UNCHANGED <<clusterVars, leader, store, conf, intact, spent>>

DeferLoop(r) ==
  /\ pc[r] = "loop" /\ job[r].del \cup job[r].put # {}
  /\ ~MayContinue(r)
  /\ Return(r)
  /\ UNCHANGED <<clusterVars, leader, store, conf, spent>>

\* No check stands between the last element and the status patch.
EndLoop(r) ==
  /\ pc[r] = "loop" /\ job[r].del = {} /\ job[r].put = {}
  /\ Goto(r, IF job[r].mode = "apply" THEN "status" ELSE "removeFinalizer")
  /\ UNCHANGED <<clusterVars, leader, store, conf, job, intact, spent>>

\* delete_copy's get: anything that is not ours is left alone.
GetForDelete(r) ==
  LET ns == job[r].cur IN
  /\ pc[r] = "getDelete"
  /\ IF ~CanReclaim(ns) THEN Refused(r)
     ELSE /\ IF IsOwnedCopy(secret[ns], job[r].uid)
               THEN /\ Goto(r, "delete")
                    /\ intact' = intact \cup {r}
                    /\ UNCHANGED job
               ELSE /\ NextElement(r)
                    /\ UNCHANGED intact
          /\ UNCHANGED <<clusterVars, leader, store, conf, spent>>

\* Mutant: delete by name, without preconditions.
DeleteAccepted_ByName(r) == CanReclaim(job[r].cur)

\* delete passes the uid and resourceVersion it verified as preconditions.
DeleteAccepted(r) == CanReclaim(job[r].cur) /\ r \in intact

Delete(r) ==
  LET ns == job[r].cur IN
  /\ pc[r] = "delete"
  /\ IF DeleteAccepted(r)
       THEN /\ SetSecret(ns, NoSecret)
            /\ intact' = StillIntact(ns, NoSecret) \ {r}
            /\ NextElement(r)
            /\ UNCHANGED <<whisper, source, labelled, chart, leader, store, conf, spent>>
       ELSE Refused(r)

\* The write loop's get: a secret that is not ours is skipped, not overwritten.
GetForWrite(r) ==
  LET ns == job[r].cur IN
  /\ pc[r] = "getWrite"
  /\ IF ~CanReclaim(ns) THEN Refused(r)
     ELSE /\ IF secret[ns] = NoSecret \/ IsOwnedCopy(secret[ns], job[r].uid)
               THEN Goto(r, "patch") /\ UNCHANGED job
               ELSE /\ NextElement(r)
          /\ UNCHANGED <<clusterVars, leader, store, conf, intact, spent>>

\* Server-side apply, not forced and with no precondition. It creates the
\* secret, or merges into whatever bears the name by now, unless a field of
\* somebody else's secret conflicts.
Patch(r) ==
  LET ns == job[r].cur
      copy == Copy(job[r].uid, job[r].src)
  IN
  /\ pc[r] = "patch"
  /\ \/ /\ CanPatch(ns)
        /\ SetSecret(ns, copy)
        /\ intact' = StillIntact(ns, copy)
        /\ NextElement(r)
        /\ UNCHANGED <<whisper, source, labelled, chart, leader, store, conf, spent>>
     \/ /\ ~CanPatch(ns) \/ secret[ns] = Foreign
        /\ Refused(r)

\* record_synced: a merge patch by name, with no precondition, of the targets.
RecordSynced(r) ==
  /\ pc[r] = "status"
  /\ IF whisper.phase # "absent"
       THEN /\ whisper' = [whisper EXCEPT !.status = job[r].targets]
            /\ Return(r)
            /\ UNCHANGED <<source, secret, labelled, chart, leader, store, conf, spent>>
       ELSE Refused(r)

Work(r) ==
  \/ Dispatch(r) \/ AddFinalizer(r) \/ RemoveFinalizer(r)
  \/ ReadSource(r) \/ ResolveTargetsOf(r) \/ Plan(r)
  \/ StartCleanup(r) \/ PlanCleanup(r)
  \/ DeferLoop(r) \/ EndLoop(r)
  \/ GetForDelete(r) \/ Delete(r) \/ GetForWrite(r) \/ Patch(r) \/ RecordSynced(r)
  \/ \E ns \in Namespace : Probe(r, ns) \/ NextDelete(r, ns) \/ NextWrite(r, ns)

---------------------------------------------------------------------------
(* The process around the reconciler.                                      *)

\* The reflector catches up with the API server.
Observe(r) ==
  /\ store[r] # whisper
  /\ store' = [store EXCEPT ![r] = whisper]
  /\ UNCHANGED <<clusterVars, leader, conf, pc, job, intact, spent>>

\* The election loop publishes Leading.
Elect(r) ==
  /\ r \notin leader
  /\ Exclusive => leader = {}
  /\ CaughtUp => store[r] = whisper
  /\ leader' = leader \cup {r}
  /\ UNCHANGED <<clusterVars, store, conf, pc, job, intact, spent>>

\* A new process: Standby, an empty store, the sets of the chart as deployed.
Restart(r) ==
  /\ leader' = leader \ {r}
  /\ store' = [store EXCEPT ![r] = Gone(1)]
  /\ conf' = [conf EXCEPT ![r] = chart]
  /\ Return(r)
  /\ UNCHANGED clusterVars

\* The Deployment replaces pods that run with an older chart; a pod that is
\* still reconciling when its grace period ends is killed there.
Roll(r) ==
  /\ conf[r] # chart
  /\ Restart(r)
  /\ UNCHANGED spent

---------------------------------------------------------------------------
(* The environment: users, the administrator, faults.                      *)

Happens(kind) ==
  /\ kind \in Events
  /\ spent < MaxEvents
  /\ spent' = spent + 1

Crash(r) == Happens("crash") /\ Restart(r)

StepDown(r) ==
  /\ Happens("stepDown")
  /\ r \in leader
  /\ leader' = leader \ {r}
  /\ UNCHANGED <<clusterVars, store, conf, pc, job, intact>>

\* Any awaited call fails, before or after it took effect at the API server.
Fail(r) ==
  /\ Happens("fail")
  /\ pc[r] # "idle"
  /\ Return(r)
  /\ UNCHANGED <<clusterVars, leader, store, conf>>

replicaVars == <<leader, store, conf, pc, job>>

UserCreates ==
  /\ Happens("create")
  /\ whisper.phase = "absent" /\ whisper.uid < MaxUid
  /\ \E wanted \in SUBSET Requestable :
       whisper' = Created(whisper.uid + 1, wanted)
  /\ UNCHANGED <<source, secret, labelled, chart, replicaVars, intact>>

UserEdits ==
  /\ Happens("edit")
  /\ whisper.phase # "absent"
  /\ \E wanted \in SUBSET Requestable :
       whisper' = [whisper EXCEPT !.wanted = wanted]
  /\ UNCHANGED <<source, secret, labelled, chart, replicaVars, intact>>

UserDeletes ==
  /\ Happens("delete")
  /\ whisper.phase = "live"
  /\ whisper' = IF whisper.fin THEN [whisper EXCEPT !.phase = "deleting"]
                               ELSE Gone(whisper.uid)
  /\ UNCHANGED <<source, secret, labelled, chart, replicaVars, intact>>

StatusLost ==
  /\ Happens("loseStatus")
  /\ whisper.phase # "absent"
  /\ whisper' = [whisper EXCEPT !.status = {}]
  /\ UNCHANGED <<source, secret, labelled, chart, replicaVars, intact>>

LabelChanges(ns) ==
  /\ Happens("label")
  /\ labelled' = (labelled \ {ns}) \cup ({ns} \ labelled)
  /\ UNCHANGED <<whisper, source, secret, chart, replicaVars, intact>>

SourceChanges(v) ==
  /\ Happens("source")
  /\ v # source /\ source' = v
  /\ UNCHANGED <<whisper, secret, labelled, chart, replicaVars, intact>>

\* Somebody else puts a secret of the copy's name into ns, or removes it.
SecretPlanted(ns) ==
  /\ Happens("plant")
  /\ secret[ns] = NoSecret
  /\ SetSecret(ns, Foreign)
  /\ intact' = StillIntact(ns, Foreign)
  /\ UNCHANGED <<whisper, source, labelled, chart, replicaVars>>

SecretRemoved(ns) ==
  /\ Happens("remove")
  /\ secret[ns] # NoSecret
  /\ SetSecret(ns, NoSecret)
  /\ intact' = StillIntact(ns, NoSecret)
  /\ UNCHANGED <<whisper, source, labelled, chart, replicaVars>>

\* The administrator's three moves. run refuses overlapping sets.
Enrol(ns) ==
  /\ Happens("enrol")
  /\ ns \notin chart.write
  /\ chart' = [write |-> chart.write \cup {ns}, drain |-> chart.drain \ {ns}]
  /\ UNCHANGED <<whisper, source, secret, labelled, replicaVars, intact>>

Decommission(ns) ==
  /\ Happens("decommission")
  /\ ns \in chart.write
  /\ chart' = [write |-> chart.write \ {ns}, drain |-> chart.drain \cup {ns}]
  /\ UNCHANGED <<whisper, source, secret, labelled, replicaVars, intact>>

\* Only once the namespace shows no copy, as the chart's documentation asks.
Retire(ns) ==
  /\ Happens("retire")
  /\ ns \in chart.drain /\ secret[ns].kind # "copy"
  /\ chart' = [chart EXCEPT !.drain = @ \ {ns}]
  /\ UNCHANGED <<whisper, source, secret, labelled, replicaVars, intact>>

Environment ==
  \/ UserCreates \/ UserEdits \/ UserDeletes \/ StatusLost
  \/ \E v \in Value \cup {NoValue} : SourceChanges(v)
  \/ \E ns \in Namespace :
       \/ LabelChanges(ns) \/ SecretPlanted(ns) \/ SecretRemoved(ns)
       \/ Enrol(ns) \/ Decommission(ns) \/ Retire(ns)
  \/ \E r \in Replica : Crash(r) \/ StepDown(r) \/ Fail(r)

Process(r) == Work(r) \/ Observe(r) \/ Elect(r) \/ Roll(r)

Next == Environment \/ \E r \in Replica : Process(r)

\* Each replica is a running process: its tasks are scheduled, its watch
\* delivers, the election settles and the Deployment rolls. The environment
\* owes nothing.
Fairness ==
  \A r \in Replica : /\ WF_vars(Work(r)) /\ WF_vars(Observe(r))
                     /\ WF_vars(Elect(r)) /\ WF_vars(Roll(r))

Spec == Init /\ [][Next]_vars
FairSpec == Spec /\ Fairness
---------------------------------------------------------------------------
(* Safety.                                                                 *)

Holds(ns) == secret[ns].kind = "copy"

\* A copy exists only in a namespace where RBAC lets the operator find and
\* reclaim it, and never in a protected one: chart edits, pods still running
\* with older sets and in-flight writes included (rbac.yaml, resolve).
CopiesConfined ==
  \A ns \in Namespace : Holds(ns) => ns \in (chart.write \cup chart.drain) \ Protected

\* A copy never outlives its Whisper: whenever one exists, its Whisper does
\* too and carries the finalizer, so that deleting it must pass by cleanup.
NoOrphans ==
  \A ns \in Namespace :
    Holds(ns) => whisper.phase # "absent" /\ whisper.fin /\ secret[ns].uid = whisper.uid

\* The operator removes a secret only while it is a copy of the very Whisper it
\* reconciles, whoever changed or replaced that secret since it was verified
\* (delete_copy, delete).
DeletesOnlyOwn ==
  [][\A ns \in Namespace :
       spent' = spent /\ secret[ns] # NoSecret /\ secret'[ns] = NoSecret
         => \E r \in Replica : pc[r] = "delete" /\ job[r].cur = ns
                               /\ IsOwnedCopy(secret[ns], job[r].uid)]_vars

\* A copy comes into being only while its Whisper exists: no write outlives the
\* leadership it was checked under and lands behind the successor's cleanup
\* ("Re-check before any write/delete so a replica that has stepped down doesn't
\* mutate secrets on a lease another replica may now hold", apply).
NoLateWrites ==
  [][\A ns \in Namespace : ~Holds(ns) /\ Holds(ns)' => whisper.phase # "absent"]_vars

---------------------------------------------------------------------------
(* Liveness, once the environment has spent its events.                    *)

Targets == Resolve(whisper.wanted, labelled, Protected, chart)

\* Namespace ns holds what the Whisper asks for. Somebody else's secret is
\* respected, and keeps the copy out.
InSync(ns) ==
  IF ns \in Targets
    THEN secret[ns] \in {Foreign, Copy(whisper.uid, source)}
    ELSE ~Holds(ns)

\* Every reachable namespace is in sync, and the status names the targets.
Synced ==
  /\ whisper.fin
  /\ whisper.status = Targets
  /\ \A ns \in Namespace : InSync(ns)

\* A Whisper with a source secret ends up in sync and stays so, whatever was
\* edited, lost, removed, crashed or refused on the way (apply, the requeues).
Converges == <>[](whisper.phase = "live" /\ source # NoValue => Synced)

\* A deletion is never stuck on the finalizer (cleanup, finalizer).
DeletionCompletes == (whisper.phase = "deleting") ~> (whisper.phase # "deleting")

\* Reconcile implements the life of a Whisper and its copies that the operator
\* promises: no write without the finalizer, no finalizer given up while a copy
\* is left, no deletion that does not complete (Lifecycle).
Life == INSTANCE Lifecycle
  WITH phase <- whisper.phase, protected <- whisper.fin, uid <- whisper.uid,
       copies <- [ns \in Namespace |-> IF Holds(ns) THEN secret[ns].uid ELSE 0]
LivesAsPromised == Life!FairSpec
=============================================================================
