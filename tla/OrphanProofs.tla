---------------------------- MODULE OrphanProofs ----------------------------
(***************************************************************************)
(* That no copy outlives its Whisper, and that Reconcile takes no step     *)
(* that Lifecycle forbids: for every number of namespaces and every budget *)
(* of events, as long as one replica leads at a time, and hands over where *)
(* apply looks at leadership again before it writes.                       *)
(***************************************************************************)
EXTENDS ReconcileProofs

(* Each hypothesis is there because without it the promise is broken.      *)

\* What r has under way is an apply that looks at leadership again before it writes.
Yields(r) == job[r].mode = "apply" /\ pc[r] \notin {"getWrite", "patch"}

\* A replica that loses the lease goes on with its reconcile. It must not be between
\* the check and the write it is for, nor at a cleanup, which does not look again,
\* nor about to add the finalizer; and it must not lead again before it is done.
HandsOver ==
  /\ \A r \in leader \ leader' : pc'[r] = "idle" \/ Yields(r)'
  /\ \A r \in leader' \ leader : pc[r] = "idle"
Orderly == [][HandsOver]_vars

\* A successor that decides on an old snapshot writes for a Whisper that is gone,
\* and one that runs with an older chart does not probe what was enrolled since.
Alone == \E r \in Replica : Replica = {r}
OneLeader == Alone \/ (Exclusive /\ CaughtUp /\ "enrol" \notin Events)

\* Without writeNamespaces a process writes wherever RBAC lets it and probes
\* nothing: a namespace enrolled under its feet is one that it never probes.
Configured == "enrol" \notin Events \/ chart.write # {}

---------------------------------------------------------------------------
(* The inductive invariant.                                                *)

Copies == {ns \in Namespace : Holds(ns)}

\* One replica leads at most; of the others, some may still be in an old apply.
Single ==
  /\ \A p, q \in leader : p = q
  /\ \A r \in Replica : pc[r] # "idle" => r \in leader \/ Yields(r)

\* What r does is what its job is for.
Moded(r) ==
  /\ pc[r] \in {"idle", "addFinalizer"} => job[r].mode = "none"
  /\ pc[r] \in {"source", "resolve", "getWrite", "patch", "status"} => job[r].mode = "apply"
  /\ pc[r] \in {"cleanup", "removeFinalizer"} => job[r].mode = "cleanup"
  /\ pc[r] \in {"probe", "loop", "getDelete", "delete"} => job[r].mode # "none"
  /\ job[r].mode = "cleanup" => job[r].put = {}

\* While r applies a Whisper as leader, that Whisper exists and is protected; while
\* r cleans up, no newer one is.
Mine(r) ==
  /\ r \in leader /\ job[r].mode = "apply" =>
       whisper.phase # "absent" /\ whisper.fin /\ whisper.uid = job[r].uid
  /\ job[r].mode = "cleanup" /\ whisper.fin =>
       whisper.phase = "deleting" /\ whisper.uid = job[r].uid

\* Every copy is among those that r's cleanup has found or has yet to probe.
Found(r) ==
  job[r].mode = "cleanup" =>
    /\ pc[r] = "probe" => Copies \subseteq job[r].known \cup job[r].todo
    /\ pc[r] = "loop" => Copies \subseteq job[r].del
    /\ pc[r] \in {"getDelete", "delete"} => Copies \subseteq job[r].del \cup {job[r].cur}
    /\ pc[r] = "removeFinalizer" => Copies = {}

\* r probes every namespace that may hold a copy.
Probes(r) ==
  IF "enrol" \in Events
    THEN /\ conf[r].write # {}
         /\ Copies \subseteq ProbeNamespaces(conf[r])
         /\ job[r].targets \subseteq conf[r].write /\ job[r].put \subseteq conf[r].write
         /\ pc[r] \in {"getWrite", "patch"} => job[r].cur \in conf[r].write
    ELSE ProbeNamespaces(chart) \subseteq ProbeNamespaces(conf[r])

\* What the snapshot says of the finalizer is still so, or has been undone by r
\* itself.
Fresh(r) ==
  /\ store[r].phase = "live" /\ store[r].fin =>
       whisper.phase # "absent" /\ whisper.fin /\ whisper.uid = store[r].uid
  /\ store[r].phase = "deleting" /\ store[r].fin /\ whisper.fin =>
       whisper.phase = "deleting" /\ whisper.uid = store[r].uid
  /\ pc[r] = "addFinalizer" => whisper.fin \/ ~store[r].fin
  /\ job[r].mode = "cleanup" => ~(store[r].phase = "live" /\ store[r].fin)

\* A store that a reconcile may be dispatched from.
Reads(r) == r \in leader \/ Alone

Sound(r) == Moded(r) /\ Mine(r) /\ Found(r) /\ Probes(r) /\ (Reads(r) => Fresh(r))

OrphanInv ==
  /\ NoOrphans
  /\ whisper.fin => whisper.phase # "absent"
  /\ Single
  /\ \A r \in Replica : Sound(r)

\* While r leads, the others have an old apply under way at most, and nothing is
\* dispatched from their stores.
LEMMA OthersYield ==
  ASSUME TypeOK, OneLeader, OrphanInv, NEW r \in leader, NEW q \in Replica \ {r}
  PROVE  /\ job[q].mode # "cleanup" /\ q \notin leader /\ ~Alone
         /\ "enrol" \notin Events
<1>1. q \notin leader /\ ~Alone /\ "enrol" \notin Events
  BY DEF TypeOK, OneLeader, OrphanInv, Single, Alone
<1>2. CASE pc[q] = "idle"
  BY <1>1, <1>2 DEF OrphanInv, Sound, Moded
<1>3. CASE pc[q] # "idle"
  BY <1>1, <1>3 DEF OrphanInv, Single, Yields
<1> QED
  BY <1>1, <1>2, <1>3

\* What cleanup is about to probe covers every copy.
LEMMA CopiesProbed ==
  ASSUME TypeOK, CopiesConfined, NEW r \in Replica, Probes(r)
  PROVE  Copies \subseteq ProbeNamespaces(conf[r])
BY DEF CopiesConfined, Copies, Probes, ProbeNamespaces

---------------------------------------------------------------------------
(* The steps of a reconcile.                                               *)

LEMMA WorkFrame ==
  ASSUME NEW r \in Replica, Work(r)
  PROVE  UNCHANGED <<leader, conf, chart, store>>
BY DEF Work, Dispatch, AddFinalizer, RemoveFinalizer, ReadSource, ResolveTargetsOf, Plan,
       StartCleanup, PlanCleanup, DeferLoop, EndLoop, GetForDelete, Delete, GetForWrite,
       Patch, RecordSynced, Probe, NextDelete, NextWrite, Refused, clusterVars

\* A replica that does not lead is in an old apply, if it works at all, and is not
\* going to write.
LEMMA WorkerYields ==
  ASSUME TypeOK, OrphanInv, NEW r \in Replica \ leader, Work(r)
  PROVE  Yields(r) /\ (pc'[r] = "idle" \/ Yields(r)')
<1>1. ~Dispatch(r)
  BY DEF Dispatch, IsLeader
<1>2. pc[r] # "idle"
  BY <1>1 DEF Work, AddFinalizer, RemoveFinalizer, ReadSource, ResolveTargetsOf, Plan,
       StartCleanup, PlanCleanup, DeferLoop, EndLoop, GetForDelete, Delete, GetForWrite,
       Patch, RecordSynced, Probe, NextDelete, NextWrite
<1>3. Yields(r) /\ Moded(r)
  BY <1>2 DEF OrphanInv, Single, Sound
<1>4. pc[r] \in {"source", "resolve", "probe", "loop", "getDelete", "delete", "status"}
  BY <1>2, <1>3 DEF Yields, Moded, TypeOK, Pcs
<1>5. job[r].mode = "apply" /\ job[r] \in JobType /\ ~IsLeader(r) /\ ~MayContinue(r)
  BY <1>3, LocalsType DEF Yields, IsLeader, MayContinue
<1>6. ASSUME Return(r) PROVE pc'[r] = "idle"
  BY <1>6, AtSelf DEF Return
<1>7. CASE Refused(r)
  BY <1>3, <1>6, <1>7 DEF Refused
<1>8. CASE ReadSource(r)
  <2>1. ~Return(r) => pc'[r] = "resolve" /\ job'[r] = [job[r] EXCEPT !.src = source]
    BY <1>8, AtSelf DEF ReadSource
  <2> QED
    BY <1>3, <1>5, <1>6, <2>1 DEF Yields, JobType
<1>9. CASE ResolveTargetsOf(r)
  <2> DEFINE T == Resolve(job[r].wanted, labelled, Protected, conf[r])
             P == ProbeNamespaces(conf[r])
  <2>1. pc'[r] = "probe" /\ job'[r] = [job[r] EXCEPT !.targets = T, !.todo = P]
    BY <1>9, AtSelf DEF ResolveTargetsOf
  <2> HIDE DEF T, P
  <2> QED
    BY <1>3, <1>5, <2>1 DEF Yields, JobType
<1>10. CASE Plan(r) \/ DeferLoop(r)
  BY <1>3, <1>5, <1>6, <1>10 DEF Plan, DeferLoop
<1>11. CASE EndLoop(r)
  <2>1. pc'[r] = "status" /\ job' = job
    BY <1>5, <1>11, AtSelf DEF EndLoop
  <2> QED
    BY <1>3, <2>1 DEF Yields
<1>12. ASSUME NextElement(r) PROVE Yields(r)'
  <2>1. pc'[r] = "loop" /\ job'[r] = [job[r] EXCEPT !.cur = NoNamespace]
    BY <1>12, AtSelf DEF NextElement
  <2> QED
    BY <1>5, <2>1 DEF Yields, JobType
<1>13. CASE GetForDelete(r) /\ ~Refused(r)
  <2>1. NextElement(r) \/ (pc'[r] = "delete" /\ job' = job)
    BY <1>13, AtSelf DEF GetForDelete
  <2> QED
    BY <1>3, <1>12, <2>1 DEF Yields
<1>14. CASE Delete(r) /\ ~Refused(r)
  BY <1>3, <1>12, <1>14 DEF Delete
<1>15. CASE RecordSynced(r)
  BY <1>3, <1>6, <1>15 DEF RecordSynced, Refused
<1>16. ASSUME NEW ns \in Namespace, Probe(r, ns), ~Refused(r)
       PROVE  Yields(r)'
  <2> DEFINE K == Known(r, ns)
  <2>1. pc' = pc /\ job'[r] = [job[r] EXCEPT !.known = K, !.todo = job[r].todo \ {ns}]
    BY <1>16, AtSelf DEF Probe
  <2> HIDE DEF K
  <2> QED
    BY <1>3, <1>5, <2>1 DEF Yields, JobType
<1>17. /\ ~AddFinalizer(r) /\ ~RemoveFinalizer(r) /\ ~StartCleanup(r) /\ ~PlanCleanup(r)
       /\ ~GetForWrite(r) /\ ~Patch(r)
       /\ \A ns \in Namespace : ~NextDelete(r, ns) /\ ~NextWrite(r, ns)
  BY <1>4, <1>5 DEF AddFinalizer, RemoveFinalizer, StartCleanup, PlanCleanup, GetForWrite,
     Patch, NextDelete, NextWrite
<1> QED
  BY <1>1, <1>3, <1>7, <1>8, <1>9, <1>10, <1>11, <1>13, <1>14, <1>15, <1>16, <1>17 DEF Work

\* No copy comes, and the Whisper's life does not change.
Harmless ==
  /\ Copies' \subseteq Copies
  /\ whisper'.phase = whisper.phase /\ whisper'.fin = whisper.fin
  /\ whisper'.uid = whisper.uid

\* The invariant holds again once it does for the replica at work, if that one leads
\* or does no harm.
LEMMA WorkSound ==
  ASSUME TypeOK, OneLeader, OrphanInv, NEW r \in Replica, Work(r),
         NoOrphans', whisper'.fin => whisper'.phase # "absent",
         Sound(r)', r \in leader \/ Harmless
  PROVE  OrphanInv'
<1>1. UNCHANGED <<leader, conf, chart, store>>
  BY WorkFrame
<1>2. ASSUME NEW q \in Replica \ {r}
      PROVE  pc'[q] = pc[q] /\ job'[q] = job[q] /\ Sound(q)'
  <2>1. pc'[q] = pc[q] /\ job'[q] = job[q] /\ Sound(q)
    BY OwnLocals DEF Process, OrphanInv
  <2>2. CASE r \in leader
    <3>1. /\ job[q].mode # "cleanup" /\ q \notin leader /\ ~Alone
          /\ "enrol" \notin Events
      BY <2>2, OthersYield
    <3>2. Moded(q)' /\ Mine(q)' /\ Found(q)' /\ Probes(q)' /\ ~Reads(q)'
      BY <1>1, <2>1, <3>1 DEF Sound, Moded, Mine, Found, Probes, Reads, Alone
    <3> QED
      BY <2>1, <3>2 DEF Sound
  <2>3. CASE Harmless
    <3>1. Moded(q)' /\ Mine(q)' /\ Found(q)' /\ Probes(q)'
      BY <1>1, <2>1, <2>3 DEF Harmless, Sound, Moded, Mine, Found, Probes
    <3>2. Reads(q)' => Fresh(q)'
      BY <1>1, <2>1, <2>3 DEF Harmless, Sound, Fresh, Reads, Alone
    <3> QED
      BY <2>1, <3>1, <3>2 DEF Sound
  <2> QED
    BY <2>2, <2>3
<1>3. Single'
  <2>1. pc'[r] # "idle" => r \in leader \/ Yields(r)'
    BY WorkerYields
  <2>2. \A q \in Replica \ {r} : Yields(q)' <=> Yields(q)
    BY <1>2 DEF Yields
  <2> QED
    BY <1>1, <1>2, <2>1, <2>2 DEF OrphanInv, Single, Yields
<1> QED
  BY <1>2, <1>3 DEF OrphanInv

\* Returning ends every obligation but that of the store.
LEMMA ReturnSound ==
  ASSUME TypeOK, NEW r \in Replica, Sound(r), Return(r), UNCHANGED <<secret, conf, chart>>,
         Reads(r)' => /\ store'[r].phase = "live" /\ store'[r].fin =>
                           whisper'.phase # "absent" /\ whisper'.fin
                             /\ whisper'.uid = store'[r].uid
                      /\ store'[r].phase = "deleting" /\ store'[r].fin /\ whisper'.fin =>
                           whisper'.phase = "deleting" /\ whisper'.uid = store'[r].uid
  PROVE  Sound(r)'
<1>1. pc'[r] = "idle" /\ job'[r] = Idle
  BY AtSelf DEF Return
<1>2. /\ Idle.mode = "none" /\ Idle.put = {} /\ Idle.targets = {}
  BY DEF Idle, Job
<1>3. Moded(r)' /\ Mine(r)' /\ Found(r)'
  BY <1>1, <1>2 DEF Moded, Mine, Found
<1>4. Probes(r)'
  BY <1>1, <1>2 DEF Sound, Probes, Copies, Holds
<1>5. Reads(r)' => Fresh(r)'
  BY <1>1, <1>2 DEF Fresh
<1> QED
  BY <1>3, <1>4, <1>5 DEF Sound

\* A step between two awaits that changes nothing but the locals.
LEMMA QuietSound ==
  ASSUME NEW r \in Replica, Sound(r), UNCHANGED <<whisper, store, leader>>,
         pc'[r] # "addFinalizer", job'[r].mode = job[r].mode, job'[r].uid = job[r].uid,
         Moded(r)', Found(r)', Probes(r)'
  PROVE  Sound(r)'
BY DEF Sound, Mine, Fresh, Reads, Alone

\* Nothing is written outside what the job was allowed to write before.
LEMMA ProbesKept ==
  ASSUME NEW r \in Replica, Probes(r), UNCHANGED <<secret, conf, chart>>,
         job'[r].targets = job[r].targets, job'[r].put \subseteq job[r].put,
         pc'[r] \in {"getWrite", "patch"} =>
           \/ job'[r].cur \in job[r].put
           \/ pc[r] \in {"getWrite", "patch"} /\ job'[r].cur = job[r].cur
  PROVE  Probes(r)'
BY DEF Probes, Copies, Holds

\* For finalizer(), a snapshot is as good as the Whisper it is for.
LEMMA DispatchSound ==
  ASSUME TypeOK, NEW r \in Replica, Sound(r), r \in leader, Dispatch(r)
  PROVE  Sound(r)'
<1>1. Fresh(r) /\ Reads(r)' /\ UNCHANGED <<whisper, secret, store, conf, chart>>
  BY DEF Sound, Reads, Dispatch, clusterVars
<1>2. CASE DispatchApply(r)
  <2>1. /\ pc'[r] = "source" /\ job'[r] = ApplyJob(store[r])
        /\ store[r].phase = "live" /\ store[r].fin
    BY <1>2, AtSelf DEF DispatchApply
  <2>2. /\ job'[r].mode = "apply" /\ job'[r].uid = store[r].uid
        /\ job'[r].put = {} /\ job'[r].targets = {}
    BY <2>1 DEF ApplyJob, Job
  <2> QED
    BY <1>1, <2>1, <2>2 DEF Sound, Moded, Mine, Found, Probes, Copies, Holds, Fresh
<1>3. CASE DispatchCleanup(r)
  <2>1. /\ pc'[r] = "cleanup" /\ job'[r] = CleanupJob(store[r])
        /\ store[r].phase = "deleting" /\ store[r].fin
    BY <1>3, AtSelf DEF DispatchCleanup
  <2>2. /\ job'[r].mode = "cleanup" /\ job'[r].uid = store[r].uid
        /\ job'[r].put = {} /\ job'[r].targets = {}
    BY <2>1 DEF CleanupJob, Job
  <2> QED
    BY <1>1, <2>1, <2>2 DEF Sound, Moded, Mine, Found, Probes, Copies, Holds, Fresh
<1>4. CASE DispatchNew(r)
  <2>1. pc'[r] = "addFinalizer" /\ job' = job /\ pc[r] = "idle" /\ ~store[r].fin
    BY <1>4, AtSelf DEF DispatchNew, Dispatch
  <2> QED
    BY <1>1, <2>1 DEF Sound, Moded, Mine, Found, Probes, Copies, Holds, Fresh
<1> QED
  BY <1>2, <1>3, <1>4 DEF Dispatch

LEMMA PlanningSound ==
  ASSUME TypeOK, CopiesConfined, NEW r \in Replica, Sound(r),
         pc[r] = "cleanup" => r \in leader, ~Refused(r), ~Return(r),
         \/ ReadSource(r) \/ ResolveTargetsOf(r) \/ Plan(r)
         \/ StartCleanup(r) \/ PlanCleanup(r) \/ EndLoop(r)
  PROVE  Sound(r)'
<1>1. UNCHANGED <<whisper, secret, store, conf, chart, leader>>
  BY DEF ReadSource, ResolveTargetsOf, Plan, StartCleanup, PlanCleanup, EndLoop, clusterVars
<1>2. job[r] \in JobType
  BY LocalsType
<1>3. CASE ReadSource(r)
  <2>1. pc[r] = "source" /\ pc'[r] = "resolve" /\ job'[r] = [job[r] EXCEPT !.src = source]
    BY <1>3, AtSelf DEF ReadSource
  <2>2. /\ job'[r].mode = job[r].mode /\ job'[r].uid = job[r].uid
        /\ job'[r].put = job[r].put /\ job'[r].targets = job[r].targets
    BY <1>2, <2>1 DEF JobType
  <2>3. Moded(r)' /\ Found(r)' /\ Probes(r)'
    BY <1>1, <2>1, <2>2, ProbesKept DEF Sound, Moded, Found
  <2> QED
    BY <1>1, <2>1, <2>2, <2>3, QuietSound
<1>4. CASE ResolveTargetsOf(r)
  <2> DEFINE T == Resolve(job[r].wanted, labelled, Protected, conf[r])
             P == ProbeNamespaces(conf[r])
  <2>1. pc[r] = "resolve" /\ pc'[r] = "probe"
        /\ job'[r] = [job[r] EXCEPT !.targets = T, !.todo = P]
    BY <1>4, AtSelf DEF ResolveTargetsOf
  <2>2. conf[r].write # {} => T \subseteq conf[r].write
    BY DEF Resolve, Confine
  <2> HIDE DEF T, P
  <2>3. /\ job'[r].mode = job[r].mode /\ job'[r].uid = job[r].uid
        /\ job'[r].put = job[r].put /\ job'[r].targets = T
    BY <1>2, <2>1 DEF JobType
  <2>4. Moded(r)' /\ Found(r)'
    BY <2>1, <2>3 DEF Sound, Moded, Found
  <2>5. Probes(r)'
    BY <1>1, <2>1, <2>2, <2>3 DEF Sound, Probes, Copies, Holds
  <2> QED
    BY <1>1, <2>1, <2>3, <2>4, <2>5, QuietSound
<1>5. CASE Plan(r)
  <2> DEFINE D == ToDelete(job[r].known, job[r].targets)
  <2>1. pc'[r] = "loop" /\ job[r].mode = "apply"
        /\ job'[r] = [job[r] EXCEPT !.put = job[r].targets, !.del = D,
                                    !.wanted = {}, !.known = {}]
    BY <1>5, AtSelf DEF Plan, ToWrite
  <2> HIDE DEF D
  <2>2. /\ job'[r].mode = job[r].mode /\ job'[r].uid = job[r].uid
        /\ job'[r].put = job[r].targets /\ job'[r].targets = job[r].targets
    BY <1>2, <2>1 DEF JobType
  <2>3. Moded(r)' /\ Found(r)'
    BY <2>1, <2>2 DEF Moded, Found
  <2>4. Probes(r)'
    BY <1>1, <2>1, <2>2 DEF Sound, Probes, Copies, Holds
  <2> QED
    BY <1>1, <2>1, <2>2, <2>3, <2>4, QuietSound
<1>6. CASE StartCleanup(r)
  <2> DEFINE P == ProbeNamespaces(conf[r])
  <2>0. Copies \subseteq P
    BY CopiesProbed DEF Sound
  <2>1. pc[r] = "cleanup" /\ pc'[r] = "probe" /\ job'[r] = [job[r] EXCEPT !.todo = P]
    BY <1>6, AtSelf DEF StartCleanup, IsLeader
  <2> HIDE DEF P
  <2>2. /\ job'[r].mode = job[r].mode /\ job'[r].uid = job[r].uid /\ job'[r].todo = P
        /\ job'[r].put = job[r].put /\ job'[r].targets = job[r].targets
    BY <1>2, <2>1 DEF JobType
  <2>3. Moded(r)' /\ Found(r)' /\ Probes(r)'
    BY <1>1, <2>0, <2>1, <2>2, ProbesKept DEF Sound, Moded, Found, Copies, Holds
  <2> QED
    BY <1>1, <2>1, <2>2, <2>3, QuietSound
<1>7. CASE PlanCleanup(r)
  <2>1. pc[r] = "probe" /\ job[r].todo = {} /\ pc'[r] = "loop"
        /\ job'[r] = [job[r] EXCEPT !.del = job[r].known, !.known = {}]
    BY <1>7, AtSelf DEF PlanCleanup
  <2>2. /\ job'[r].mode = job[r].mode /\ job'[r].uid = job[r].uid
        /\ job'[r].del = job[r].known
        /\ job'[r].put = job[r].put /\ job'[r].targets = job[r].targets
    BY <1>2, <2>1 DEF JobType
  <2>3. Moded(r)' /\ Found(r)' /\ Probes(r)'
    BY <1>1, <2>1, <2>2, ProbesKept DEF Sound, Moded, Found, Copies, Holds
  <2> QED
    BY <1>1, <2>1, <2>2, <2>3, QuietSound
<1>8. CASE EndLoop(r)
  <2>1. /\ pc[r] = "loop" /\ job[r].del = {} /\ job' = job
        /\ pc'[r] = IF job[r].mode = "apply" THEN "status" ELSE "removeFinalizer"
    BY <1>8, AtSelf DEF EndLoop
  <2>2. job[r].mode \in {"none", "apply", "cleanup"}
    BY <1>2 DEF JobType
  <2>3. Moded(r)' /\ Found(r)' /\ Probes(r)'
    BY <1>1, <2>1, <2>2, ProbesKept DEF Sound, Moded, Found, Copies, Holds
  <2> QED
    BY <1>1, <2>1, <2>3, QuietSound
<1> QED
  BY <1>3, <1>4, <1>5, <1>6, <1>7, <1>8

\* A copy bears the uid of the one Whisper that a cleanup may be for.
LEMMA CopiesOwned ==
  ASSUME NoOrphans, NEW r \in Replica, Mine(r), job[r].mode = "cleanup",
         NEW ns \in Namespace, Holds(ns)
  PROVE  IsOwnedCopy(secret[ns], job[r].uid)
BY DEF NoOrphans, Mine, Holds, IsOwnedCopy

LEMMA VisitSound ==
  ASSUME TypeOK, NoOrphans, NEW r \in Replica, Sound(r), ~Refused(r),
         NEW ns \in Namespace, Probe(r, ns) \/ NextDelete(r, ns) \/ NextWrite(r, ns)
  PROVE  Sound(r)'
<1>1. UNCHANGED <<whisper, secret, store, conf, chart, leader>>
  BY DEF Probe, NextDelete, NextWrite, clusterVars
<1>2. job[r] \in JobType
  BY LocalsType
<1>3. CASE Probe(r, ns)
  <2> DEFINE K == Known(r, ns)
  <2>1. job[r].mode = "cleanup" /\ Holds(ns) => ns \in K
    BY CopiesOwned DEF Sound, Known
  <2>2. job[r].known \subseteq K
    BY DEF Known
  <2>3. pc[r] = "probe" /\ pc' = pc
        /\ job'[r] = [job[r] EXCEPT !.known = K, !.todo = job[r].todo \ {ns}]
    BY <1>3, AtSelf DEF Probe
  <2> HIDE DEF K
  <2>4. /\ job'[r].mode = job[r].mode /\ job'[r].uid = job[r].uid
        /\ job'[r].known = K /\ job'[r].todo = job[r].todo \ {ns}
        /\ job'[r].put = job[r].put /\ job'[r].targets = job[r].targets
    BY <1>2, <2>3 DEF JobType
  <2>5. Found(r)'
    BY <1>1, <2>1, <2>2, <2>3, <2>4 DEF Sound, Found, Copies, Holds
  <2>6. Moded(r)' /\ Probes(r)'
    BY <1>1, <2>3, <2>4, ProbesKept DEF Sound, Moded
  <2> QED
    BY <1>1, <2>3, <2>4, <2>5, <2>6, QuietSound
<1>4. CASE NextDelete(r, ns)
  <2>1. pc[r] = "loop" /\ pc'[r] = "getDelete"
        /\ job'[r] = [job[r] EXCEPT !.del = job[r].del \ {ns}, !.cur = ns]
    BY <1>4, AtSelf DEF NextDelete
  <2>2. /\ job'[r].mode = job[r].mode /\ job'[r].uid = job[r].uid
        /\ job'[r].del = job[r].del \ {ns} /\ job'[r].cur = ns
        /\ job'[r].put = job[r].put /\ job'[r].targets = job[r].targets
    BY <1>2, <2>1 DEF JobType
  <2>3. Moded(r)' /\ Found(r)' /\ Probes(r)'
    BY <1>1, <2>1, <2>2, ProbesKept DEF Sound, Moded, Found, Copies, Holds
  <2> QED
    BY <1>1, <2>1, <2>2, <2>3, QuietSound
<1>5. CASE NextWrite(r, ns)
  <2>1. pc[r] = "loop" /\ pc'[r] = "getWrite" /\ ns \in job[r].put
        /\ job'[r] = [job[r] EXCEPT !.put = job[r].put \ {ns}, !.cur = ns]
    BY <1>5, AtSelf DEF NextWrite
  <2>2. /\ job'[r].mode = job[r].mode /\ job'[r].uid = job[r].uid
        /\ job'[r].cur = ns /\ job'[r].put = job[r].put \ {ns}
        /\ job'[r].targets = job[r].targets
    BY <1>2, <2>1 DEF JobType
  <2>3. job[r].mode = "apply"
    BY <1>2, <2>1 DEF Sound, Moded, JobType
  <2>4. Moded(r)' /\ Found(r)' /\ Probes(r)'
    BY <1>1, <2>1, <2>2, <2>3, ProbesKept DEF Sound, Moded, Found
  <2> QED
    BY <1>1, <2>1, <2>2, <2>4, QuietSound
<1> QED
  BY <1>3, <1>4, <1>5

\* What NextElement makes of the locals.
LEMMA NextElementLocals ==
  ASSUME TypeOK, NEW r \in Replica, NextElement(r)
  PROVE  /\ pc'[r] = "loop"
         /\ job'[r].mode = job[r].mode /\ job'[r].uid = job[r].uid
         /\ job'[r].del = job[r].del /\ job'[r].put = job[r].put
         /\ job'[r].targets = job[r].targets
<1>1. job[r] \in JobType /\ job'[r] = [job[r] EXCEPT !.cur = NoNamespace]
  BY LocalsType, AtSelf DEF NextElement
<1>2. pc'[r] = "loop"
  BY AtSelf
<1> QED
  BY <1>1, <1>2 DEF JobType

LEMMA GetSound ==
  ASSUME TypeOK, NoOrphans, NEW r \in Replica, Sound(r), ~Refused(r),
         GetForDelete(r) \/ GetForWrite(r)
  PROVE  Sound(r)'
<1>1. UNCHANGED <<whisper, secret, store, conf, chart, leader>>
  BY DEF GetForDelete, GetForWrite, clusterVars
<1>2. CASE pc[r] = "getDelete" /\ pc'[r] = "delete" /\ UNCHANGED job
  <2>1. Moded(r)' /\ Found(r)' /\ Probes(r)'
    BY <1>1, <1>2, ProbesKept DEF Sound, Moded, Found, Copies, Holds
  <2> QED
    BY <1>1, <1>2, <2>1, QuietSound
<1>3. CASE pc[r] = "getWrite" /\ pc'[r] = "patch" /\ UNCHANGED job
  <2>1. Moded(r)' /\ Found(r)' /\ Probes(r)'
    BY <1>1, <1>3, ProbesKept DEF Sound, Moded, Found, Copies, Holds
  <2> QED
    BY <1>1, <1>3, <2>1, QuietSound
<1>4. CASE NextElement(r)
  <2>1. GetForDelete(r) => ~IsOwnedCopy(secret[job[r].cur], job[r].uid)
    BY <1>4, AtSelf DEF GetForDelete
  <2>2. job[r].mode = "cleanup" => pc[r] = "getDelete" /\ job[r].cur \notin Copies
    BY <2>1, CopiesOwned DEF Sound, Moded, GetForDelete, GetForWrite, Copies
  <2>3. Found(r)'
    BY <1>1, <1>4, <2>2, NextElementLocals DEF Sound, Found, Copies, Holds
  <2>4. job[r].mode # "none"
    BY DEF Sound, Moded, GetForDelete, GetForWrite
  <2>5. Moded(r)' /\ Probes(r)'
    BY <1>1, <1>4, <2>4, NextElementLocals, ProbesKept DEF Sound, Moded
  <2> QED
    BY <1>1, <1>4, <2>3, <2>5, NextElementLocals, QuietSound
<1> QED
  BY <1>2, <1>3, <1>4, AtSelf DEF GetForDelete, GetForWrite

LEMMA DeleteSound ==
  ASSUME TypeOK, NoOrphans, NEW r \in Replica, Sound(r), ~Refused(r), Delete(r)
  PROVE  Sound(r)' /\ NoOrphans' /\ whisper' = whisper /\ Copies' \subseteq Copies
<1>1. /\ UNCHANGED <<whisper, store, conf, chart, leader>> /\ NextElement(r)
      /\ secret' = [secret EXCEPT ![job[r].cur] = NoSecret] /\ pc[r] = "delete"
  BY DEF Delete, SetSecret
<1>2. Copies' = Copies \ {job[r].cur}
  BY <1>1 DEF Copies, Holds, NoSecret, TypeOK
<1>3. NoOrphans'
  BY <1>1 DEF NoOrphans, Holds, NoSecret, TypeOK
<1>4. Found(r)' /\ Moded(r)'
  BY <1>1, <1>2, NextElementLocals DEF Sound, Found, Moded
<1>5. Probes(r)'
  BY <1>1, <1>2, NextElementLocals DEF Sound, Probes
<1> QED
  BY <1>1, <1>2, <1>3, <1>4, <1>5, NextElementLocals, QuietSound

\* The heart of it: a copy is written for a Whisper that is there, with its
\* finalizer, and where a later cleanup will probe.
LEMMA PatchSound ==
  ASSUME TypeOK, NoOrphans, NEW r \in Replica, Sound(r), r \in leader, ~Refused(r),
         Patch(r)
  PROVE  Sound(r)' /\ NoOrphans' /\ whisper' = whisper
<1>1. /\ UNCHANGED <<whisper, store, conf, chart, leader>> /\ NextElement(r)
      /\ secret' = [secret EXCEPT ![job[r].cur] = Copy(job[r].uid, job[r].src)]
      /\ pc[r] = "patch"
  BY DEF Patch, SetSecret
<1>2. Copies' \subseteq Copies \cup {job[r].cur}
  BY <1>1 DEF Copies, Holds, TypeOK
<1>3. job[r].mode = "apply"
  BY <1>1 DEF Sound, Moded
<1>4. NoOrphans'
  BY <1>1, <1>3 DEF Sound, Mine, NoOrphans, Holds, Copy, TypeOK
<1>5. Found(r)' /\ Moded(r)'
  BY <1>1, <1>3, NextElementLocals DEF Sound, Found, Moded
<1>6. Probes(r)'
  BY <1>1, <1>2, NextElementLocals DEF Sound, Probes, ProbeNamespaces
<1> QED
  BY <1>1, <1>4, <1>5, <1>6, NextElementLocals, QuietSound

LEMMA FinalizerSound ==
  ASSUME TypeOK, NoOrphans, NEW r \in Replica, Sound(r), RecordSynced(r) \/ r \in leader,
         ~Refused(r), whisper.fin => whisper.phase # "absent",
         AddFinalizer(r) \/ RemoveFinalizer(r) \/ RecordSynced(r)
  PROVE  Sound(r)' /\ NoOrphans' /\ (whisper'.fin => whisper'.phase # "absent")
<1>0. /\ Reads(r) => Fresh(r)
      /\ Return(r) /\ UNCHANGED <<secret, store, conf, chart, leader>>
  BY DEF Sound, AddFinalizer, RemoveFinalizer, RecordSynced
<1>1. CASE AddFinalizer(r)
  <2>1. whisper' = [whisper EXCEPT !.fin = TRUE] /\ pc[r] = "addFinalizer"
        /\ whisper.phase = "live" /\ ~whisper.fin /\ Fresh(r)
    BY <1>0, <1>1 DEF AddFinalizer, RecordSynced, Reads
  <2>2. whisper'.phase = "live" /\ whisper'.fin /\ whisper'.uid = whisper.uid
    BY <2>1 DEF TypeOK, WhisperType
  <2>3. ~store[r].fin
    BY <2>1 DEF Fresh
  <2>4. NoOrphans'
    BY <1>0, <2>1, <2>2 DEF NoOrphans, Holds
  <2> QED
    BY <1>0, <2>2, <2>3, <2>4, ReturnSound
<1>2. CASE RemoveFinalizer(r)
  <2>1. pc[r] = "removeFinalizer" /\ whisper.fin /\ Fresh(r)
    BY <1>0, <1>2 DEF RemoveFinalizer, RecordSynced, Reads
  <2>2. job[r].mode = "cleanup" /\ Copies = {} /\ whisper.phase = "deleting"
    BY <2>1 DEF Sound, Moded, Found, Mine
  <2>3. whisper' = Gone(whisper.uid)
    BY <1>2, <2>1, <2>2 DEF RemoveFinalizer
  <2>4. ~whisper'.fin
    BY <2>3 DEF Gone
  <2>5. NoOrphans'
    BY <1>0, <2>2 DEF NoOrphans, Copies, Holds
  <2>6. ~(store[r].phase = "live" /\ store[r].fin)
    BY <2>1, <2>2 DEF Fresh
  <2> QED
    BY <1>0, <2>4, <2>5, <2>6, ReturnSound
<1>3. CASE RecordSynced(r)
  <2>1. whisper' = [whisper EXCEPT !.status = job[r].targets]
    BY <1>3 DEF RecordSynced
  <2>2. whisper'.phase = whisper.phase /\ whisper'.fin = whisper.fin
        /\ whisper'.uid = whisper.uid
    BY <2>1 DEF TypeOK, WhisperType
  <2>3. NoOrphans'
    BY <1>0, <2>2 DEF NoOrphans, Holds
  <2> QED
    BY <1>0, <2>2, <2>3, ReturnSound DEF Fresh, Reads
<1> QED
  BY <1>1, <1>2, <1>3

LEMMA WorkOrphan ==
  ASSUME TypeOK, CopiesConfined, OneLeader, OrphanInv, NEW r \in Replica, Work(r)
  PROVE  OrphanInv'
<1>1. Sound(r) /\ NoOrphans /\ (whisper.fin => whisper.phase # "absent")
  BY DEF OrphanInv
<1>2. UNCHANGED <<leader, conf, chart, store>>
  BY WorkFrame
<1>0. r \in leader \/ (job[r].mode = "apply" /\ pc[r] \notin {"idle", "getWrite", "patch"})
  <2>1. r \notin leader => Yields(r)
    BY WorkerYields
  <2> QED
    BY <1>1, <2>1 DEF Yields, Sound, Moded
<1>3. ASSUME UNCHANGED <<whisper, secret>>, Sound(r)'
      PROVE  OrphanInv'
  <2>1. NoOrphans' /\ Harmless
    BY <1>1, <1>3 DEF NoOrphans, Holds, Harmless, Copies
  <2> QED
    BY <1>1, <1>3, <2>1, WorkSound
<1>4. CASE Return(r) /\ UNCHANGED <<whisper, secret>>
  BY <1>1, <1>2, <1>3, <1>4, ReturnSound DEF Sound, Fresh, Reads
<1>5. CASE Refused(r)
  BY <1>4, <1>5 DEF Refused, clusterVars
<1>6. ASSUME ~Refused(r), ~Return(r),
             \/ ReadSource(r) \/ ResolveTargetsOf(r) \/ Plan(r)
             \/ StartCleanup(r) \/ PlanCleanup(r) \/ EndLoop(r)
      PROVE  OrphanInv'
  <2>1. UNCHANGED <<whisper, secret>>
    BY <1>6 DEF ReadSource, ResolveTargetsOf, Plan, StartCleanup, PlanCleanup, EndLoop,
         clusterVars
  <2> QED
    BY <1>0, <1>1, <1>3, <1>6, <2>1, PlanningSound DEF Sound, Moded
<1>7. ASSUME Return(r), ReadSource(r) \/ Plan(r) \/ DeferLoop(r)
      PROVE  OrphanInv'
  BY <1>4, <1>7 DEF ReadSource, Plan, DeferLoop, clusterVars
<1>8. CASE Dispatch(r)
  BY <1>1, <1>3, <1>8, DispatchSound DEF Dispatch, IsLeader, clusterVars
<1>9. ASSUME ~Refused(r), NEW ns \in Namespace,
             Probe(r, ns) \/ NextDelete(r, ns) \/ NextWrite(r, ns)
      PROVE  OrphanInv'
  <2>1. UNCHANGED <<whisper, secret>>
    BY <1>9 DEF Probe, NextDelete, NextWrite, clusterVars
  <2> QED
    BY <1>1, <1>3, <1>9, <2>1, VisitSound
<1>10. ASSUME ~Refused(r), GetForDelete(r) \/ GetForWrite(r)
       PROVE  OrphanInv'
  <2>1. UNCHANGED <<whisper, secret>>
    BY <1>10 DEF GetForDelete, GetForWrite, clusterVars
  <2> QED
    BY <1>1, <1>3, <1>10, <2>1, GetSound
<1>11. ASSUME ~Refused(r), Delete(r) \/ Patch(r)
       PROVE  OrphanInv'
  <2>1. CASE Delete(r)
    <3>1. Sound(r)' /\ NoOrphans' /\ whisper' = whisper /\ Copies' \subseteq Copies
      BY <1>1, <1>11, <2>1, DeleteSound
    <3> QED
      BY <1>1, <3>1, WorkSound DEF Harmless
  <2>2. CASE Patch(r)
    <3>1. r \in leader
      BY <1>0, <2>2 DEF Patch
    <3>2. Sound(r)' /\ NoOrphans' /\ whisper' = whisper
      BY <1>1, <1>11, <2>2, <3>1, PatchSound
    <3> QED
      BY <1>1, <3>1, <3>2, WorkSound
  <2> QED
    BY <1>11, <2>1, <2>2
<1>12. ASSUME ~Refused(r), AddFinalizer(r) \/ RemoveFinalizer(r) \/ RecordSynced(r)
       PROVE  OrphanInv'
  <2>1. RecordSynced(r) \/ r \in leader
    BY <1>0, <1>1, <1>12 DEF AddFinalizer, RemoveFinalizer, Sound, Moded
  <2>2. Sound(r)' /\ NoOrphans' /\ (whisper'.fin => whisper'.phase # "absent")
    BY <1>1, <1>12, <2>1, FinalizerSound
  <2>3. RecordSynced(r) => Harmless
    <3>1. RecordSynced(r) => secret' = secret /\ whisper' = [whisper EXCEPT !.status = job[r].targets]
      BY <1>12 DEF RecordSynced
    <3> QED
      BY <3>1 DEF Harmless, Copies, Holds, TypeOK, WhisperType
  <2> QED
    BY <2>1, <2>2, <2>3, WorkSound
<1>13. CASE \/ ReadSource(r) \/ ResolveTargetsOf(r) \/ Plan(r)
            \/ StartCleanup(r) \/ PlanCleanup(r) \/ EndLoop(r)
  <2>1. CASE Return(r)
    <3>1. UNCHANGED <<whisper, secret>>
      BY <1>13 DEF ReadSource, ResolveTargetsOf, Plan, StartCleanup, PlanCleanup, EndLoop,
           clusterVars
    <3> QED
      BY <1>4, <2>1, <3>1
  <2> QED
    BY <1>5, <1>6, <1>13, <2>1
<1> QED
  BY <1>5, <1>7, <1>8, <1>9, <1>10, <1>11, <1>12, <1>13 DEF Work, DeferLoop

---------------------------------------------------------------------------
(* The process around the reconcile, and its faults.                       *)

\* What is sound of a replica and does not move stays so.
LEMMA SoundStays ==
  ASSUME NEW q \in Replica, Sound(q), UNCHANGED <<whisper, secret, chart>>,
         pc'[q] = pc[q], job'[q] = job[q], conf'[q] = conf[q], store'[q] = store[q],
         Reads(q)' => Reads(q), q \in leader' => q \in leader
  PROVE  Sound(q)'
BY DEF Sound, Moded, Mine, Found, Probes, Fresh, Copies, Holds

LEMMA ObserveOrphan ==
  ASSUME TypeOK, OrphanInv, NEW r \in Replica, Observe(r)
  PROVE  OrphanInv'
<1>1. UNCHANGED <<whisper, secret, chart, leader, conf, pc, job>>
      /\ store' = [store EXCEPT ![r] = whisper]
  BY DEF Observe, clusterVars
<1>2. NoOrphans' /\ Single'
  BY <1>1 DEF OrphanInv, NoOrphans, Holds, Single, Yields
<1>3. ASSUME NEW q \in Replica \ {r} PROVE Sound(q)'
  BY <1>1, <1>3, SoundStays DEF OrphanInv, Reads, TypeOK
<1>4. Sound(r)'
  <2>1. Sound(r) /\ store'[r] = whisper
    BY <1>1 DEF OrphanInv, TypeOK
  <2>2. Fresh(r)'
    BY <1>1, <2>1 DEF OrphanInv, Sound, Fresh, Mine
  <2> QED
    BY <1>1, <2>1, <2>2 DEF Sound, Moded, Mine, Found, Probes, Copies, Holds
<1> QED
  BY <1>1, <1>2, <1>3, <1>4 DEF OrphanInv

LEMMA ElectOrphan ==
  ASSUME TypeOK, OneLeader, OrphanInv, NEW r \in Replica, Elect(r), HandsOver
  PROVE  OrphanInv'
<1>1. UNCHANGED <<whisper, secret, chart, store, conf, pc, job>>
      /\ leader' = leader \cup {r} /\ r \notin leader
  BY DEF Elect, clusterVars
<1>2. leader = {}
  BY <1>1 DEF Elect, OneLeader, Alone, TypeOK
<1>3. NoOrphans' /\ Single'
  BY <1>1, <1>2 DEF OrphanInv, NoOrphans, Holds, Single, Yields
<1>4. ASSUME NEW q \in Replica \ {r} PROVE Sound(q)'
  BY <1>1, <1>4, SoundStays DEF OrphanInv, Reads, Alone
<1>5. Sound(r)'
  <2>1. Sound(r) /\ pc[r] = "idle" /\ job[r].mode = "none"
    BY <1>1 DEF HandsOver, OrphanInv, Sound, Moded
  <2>2. CASE Alone
    <3>1. Fresh(r)'
      BY <1>1, <2>1, <2>2 DEF Sound, Fresh, Reads
    <3> QED
      BY <1>1, <2>1, <3>1 DEF Sound, Moded, Mine, Found, Probes, Copies, Holds
  <2>3. CASE ~Alone
    <3>1. store[r] = whisper
      BY <2>3 DEF OneLeader, Elect
    <3>2. Fresh(r)'
      BY <1>1, <2>1, <3>1 DEF Fresh
    <3> QED
      BY <1>1, <2>1, <3>2 DEF Sound, Moded, Mine, Found, Probes, Copies, Holds
  <2> QED
    BY <2>2, <2>3
<1> QED
  BY <1>1, <1>3, <1>4, <1>5 DEF OrphanInv

\* A new process knows nothing, and probes what the chart says now.
LEMMA RestartOrphan ==
  ASSUME TypeOK, CopiesConfined, Configured, OrphanInv, NEW r \in Replica, Restart(r)
  PROVE  OrphanInv'
<1>1. /\ UNCHANGED <<whisper, secret, chart>> /\ Return(r) /\ leader' = leader \ {r}
      /\ store' = [store EXCEPT ![r] = Gone(1)] /\ conf' = [conf EXCEPT ![r] = chart]
  BY DEF Restart, clusterVars
<1>2. \A q \in Replica \ {r} : /\ pc'[q] = pc[q] /\ job'[q] = job[q]
                               /\ conf'[q] = conf[q] /\ store'[q] = store[q]
  BY <1>1 DEF Return, Goto, Update, TypeOK
<1>3. pc'[r] = "idle" /\ job'[r] = Idle /\ conf'[r] = chart /\ store'[r] = Gone(1)
  BY <1>1, AtSelf DEF Return, TypeOK
<1>4. NoOrphans' /\ Single'
  BY <1>1, <1>2, <1>3 DEF OrphanInv, NoOrphans, Holds, Single, Yields
<1>5. ASSUME NEW q \in Replica \ {r} PROVE Sound(q)'
  BY <1>1, <1>2, <1>5, SoundStays DEF OrphanInv, Reads
<1>6. Sound(r)'
  <2>1. Idle.mode = "none" /\ Idle.put = {} /\ Idle.targets = {}
        /\ Gone(1).phase = "absent"
    BY DEF Idle, Job, Gone
  <2>2. Moded(r)' /\ Mine(r)' /\ Found(r)' /\ Fresh(r)'
    BY <1>3, <2>1 DEF Moded, Mine, Found, Fresh
  <2>3. Copies' \subseteq ProbeNamespaces(chart)
    BY <1>1 DEF CopiesConfined, Copies, Holds, ProbeNamespaces
  <2>4. Probes(r)'
    BY <1>1, <1>3, <2>1, <2>3 DEF Probes, Configured
  <2> QED
    BY <2>2, <2>4 DEF Sound
<1> QED
  BY <1>1, <1>4, <1>5, <1>6 DEF OrphanInv

LEMMA FailOrphan ==
  ASSUME TypeOK, OrphanInv, NEW r \in Replica, Fail(r)
  PROVE  OrphanInv'
<1>1. UNCHANGED <<whisper, secret, chart, leader, store, conf>> /\ Return(r)
  BY DEF Fail, clusterVars
<1>2. \A q \in Replica \ {r} : pc'[q] = pc[q] /\ job'[q] = job[q]
  BY <1>1 DEF Return, Goto, Update, TypeOK
<1>3. pc'[r] = "idle"
  BY <1>1, AtSelf DEF Return
<1>4. NoOrphans' /\ Single'
  BY <1>1, <1>2, <1>3 DEF OrphanInv, NoOrphans, Holds, Single, Yields
<1>5. ASSUME NEW q \in Replica \ {r} PROVE Sound(q)'
  BY <1>1, <1>2, <1>5, SoundStays DEF OrphanInv, Reads
<1>6. Sound(r)'
  BY <1>1, ReturnSound DEF OrphanInv, Sound, Fresh, Reads
<1> QED
  BY <1>1, <1>4, <1>5, <1>6 DEF OrphanInv

---------------------------------------------------------------------------
(* Users, the administrator and the cluster.                               *)

\* A change of the Whisper that neither drops its finalizer nor brings it back
\* from deletion hurts nobody who works on it.
LEMMA UserOrphan ==
  ASSUME TypeOK, OrphanInv, UserCreates \/ UserEdits \/ UserDeletes \/ StatusLost
  PROVE  OrphanInv'
<1>1. UNCHANGED <<secret, chart, replicaVars>>
  BY DEF UserCreates, UserEdits, UserDeletes, StatusLost
<1>2. \/ /\ whisper.phase = "absent" /\ ~whisper'.fin
      \/ /\ whisper.phase # "absent" /\ whisper'.fin = whisper.fin
         /\ whisper'.uid = whisper.uid
         /\ whisper.fin => whisper'.phase \in {whisper.phase, "deleting"}
  <2>1. whisper \in WhisperType
    BY DEF TypeOK
  <2>2. CASE UserCreates
    BY <2>2 DEF UserCreates, Created
  <2>3. CASE UserEdits \/ StatusLost
    BY <2>1, <2>3 DEF UserEdits, StatusLost, WhisperType
  <2>4. CASE UserDeletes
    BY <2>1, <2>4 DEF UserDeletes, Gone, WhisperType
  <2> QED
    BY <2>2, <2>3, <2>4
<1>3. whisper.fin => whisper.phase # "absent"
  BY DEF OrphanInv
<1>4. NoOrphans' /\ (whisper'.fin => whisper'.phase # "absent")
  BY <1>1, <1>2, <1>3 DEF OrphanInv, NoOrphans, Holds
<1>5. Single'
  BY <1>1 DEF OrphanInv, Single, Yields, replicaVars
<1>6. ASSUME NEW q \in Replica PROVE Sound(q)'
  <2>1. Sound(q) /\ UNCHANGED <<secret, chart, leader, store, conf, pc, job>>
    BY <1>1 DEF OrphanInv, replicaVars
  <2>2. Moded(q)' /\ Found(q)' /\ Probes(q)'
    BY <2>1 DEF Sound, Moded, Found, Probes, Copies, Holds
  <2>3. Mine(q)'
    BY <1>2, <1>3, <2>1 DEF Sound, Mine
  <2>4. Reads(q)' => Fresh(q)'
    BY <1>2, <1>3, <2>1 DEF Sound, Fresh, Reads
  <2> QED
    BY <2>2, <2>3, <2>4 DEF Sound
<1> QED
  BY <1>4, <1>5, <1>6 DEF OrphanInv

LEMMA OutsideOrphan ==
  ASSUME TypeOK, OrphanInv,
         \/ \E v \in Value \cup {NoValue} : SourceChanges(v)
         \/ \E ns \in Namespace : LabelChanges(ns) \/ SecretPlanted(ns) \/ SecretRemoved(ns)
  PROVE  OrphanInv'
<1>1. UNCHANGED <<whisper, chart, leader, store, conf, pc, job>>
  BY DEF SourceChanges, LabelChanges, SecretPlanted, SecretRemoved, replicaVars
<1>2. \A ns \in Namespace : Holds(ns)' => Holds(ns) /\ secret'[ns] = secret[ns]
  BY DEF SourceChanges, LabelChanges, SecretPlanted, SecretRemoved, SetSecret, Holds,
         Foreign, NoSecret, TypeOK
<1>3. NoOrphans' /\ Copies' \subseteq Copies
  BY <1>1, <1>2 DEF OrphanInv, NoOrphans, Copies
<1>4. Single'
  BY <1>1 DEF OrphanInv, Single, Yields
<1>5. ASSUME NEW q \in Replica PROVE Sound(q)'
  BY <1>1, <1>3 DEF OrphanInv, Sound, Moded, Mine, Found, Probes, Fresh, Reads
<1> QED
  BY <1>1, <1>3, <1>4, <1>5 DEF OrphanInv

LEMMA ChartOrphan ==
  ASSUME TypeOK, OrphanInv, NEW ns \in Namespace, Enrol(ns) \/ Decommission(ns) \/ Retire(ns)
  PROVE  OrphanInv'
<1>1. UNCHANGED <<whisper, secret, leader, store, conf, pc, job>>
  BY DEF Enrol, Decommission, Retire, replicaVars
<1>2. "enrol" \notin Events => ProbeNamespaces(chart') \subseteq ProbeNamespaces(chart)
  BY DEF Enrol, Decommission, Retire, Happens, ProbeNamespaces, TypeOK, ConfType
<1>3. NoOrphans' /\ Single'
  BY <1>1 DEF OrphanInv, NoOrphans, Holds, Single, Yields
<1>4. ASSUME NEW q \in Replica PROVE Sound(q)'
  BY <1>1, <1>2 DEF OrphanInv, Sound, Moded, Mine, Found, Probes, Fresh, Reads, Copies, Holds
<1> QED
  BY <1>1, <1>3, <1>4 DEF OrphanInv

LEMMA InitOrphan ==
  ASSUME Init, Configured
  PROVE  OrphanInv
<1>1. Idle.mode = "none" /\ Idle.put = {} /\ Idle.targets = {} /\ Gone(1).phase = "absent"
      /\ \A wanted : ~Created(1, wanted).fin
  BY DEF Idle, Job, Gone, Created
<1>2. Copies = {}
  BY DEF Init, Copies, Holds, NoSecret
<1>3. NoOrphans /\ Single /\ ~whisper.fin
  BY <1>1 DEF Init, NoOrphans, Holds, NoSecret, Single
<1>4. ASSUME NEW r \in Replica PROVE Sound(r)
  <2>1. pc[r] = "idle" /\ job[r] = Idle /\ store[r] = Gone(1) /\ conf[r] = chart
    BY DEF Init
  <2> QED
    BY <1>1, <1>2, <2>1 DEF Sound, Moded, Mine, Found, Probes, Fresh, Configured
<1> QED
  BY <1>3, <1>4 DEF OrphanInv

LEMMA StepDownOrphan ==
  ASSUME OrphanInv, NEW r \in Replica, StepDown(r), HandsOver
  PROVE  OrphanInv'
<1>1. UNCHANGED <<whisper, secret, chart, store, conf, pc, job>> /\ r \in leader
      /\ leader' = leader \ {r}
  BY DEF StepDown, clusterVars
<1>2. pc[r] = "idle" \/ Yields(r)
  BY <1>1 DEF HandsOver, Yields
<1>3. NoOrphans' /\ Single'
  BY <1>1, <1>2 DEF OrphanInv, NoOrphans, Holds, Single, Yields
<1>4. \A q \in Replica : Sound(q)'
  BY <1>1, SoundStays DEF OrphanInv, Reads
<1> QED
  BY <1>1, <1>3, <1>4 DEF OrphanInv

LEMMA NextOrphan ==
  ASSUME TypeOK, CopiesConfined, Configured, OneLeader, OrphanInv, [Next]_vars,
         [HandsOver]_vars
  PROVE  OrphanInv'
<1>1. ASSUME NEW r \in Replica, Process(r) PROVE OrphanInv'
  <2>1. CASE Elect(r)
    <3>1. leader' # leader
      BY <2>1 DEF Elect
    <3>2. HandsOver
      BY <3>1 DEF vars
    <3> QED
      BY <2>1, <3>2, ElectOrphan
  <2> QED
    BY <1>1, <2>1, WorkOrphan, ObserveOrphan, RestartOrphan DEF Process, Roll
<1>2. ASSUME NEW r \in Replica, Crash(r) \/ StepDown(r) \/ Fail(r) PROVE OrphanInv'
  <2>1. CASE StepDown(r)
    <3>1. leader' # leader
      BY <2>1 DEF StepDown
    <3>2. HandsOver
      BY <3>1 DEF vars
    <3> QED
      BY <2>1, <3>2, StepDownOrphan
  <2> QED
    BY <1>2, <2>1, RestartOrphan, FailOrphan DEF Crash
<1>3. CASE Environment
  BY <1>2, <1>3, UserOrphan, OutsideOrphan, ChartOrphan DEF Environment
<1>4. CASE UNCHANGED vars
  <2>1. UNCHANGED <<whisper, secret, chart, leader, store, conf, pc, job>>
    BY <1>4 DEF vars, clusterVars
  <2>2. NoOrphans' /\ Single'
    BY <2>1 DEF OrphanInv, NoOrphans, Holds, Single, Yields
  <2>3. \A q \in Replica : Sound(q)'
    BY <2>1, SoundStays DEF OrphanInv, Reads
  <2> QED
    BY <2>1, <2>2, <2>3 DEF OrphanInv
<1> QED
  BY <1>1, <1>3, <1>4 DEF Next

\* OrphanInv is inductive, next to types and confinement.
LEMMA OrphanInvariant ==
  ASSUME OneLeader
  PROVE  Spec /\ []Configured /\ Orderly => []OrphanInv
<1>1. Init /\ Configured => OrphanInv
  BY InitOrphan
<1>2. TypeOK /\ CopiesConfined /\ Configured /\ OrphanInv /\ [Next]_vars
        /\ [HandsOver]_vars => OrphanInv'
  BY NextOrphan
<1> QED
  BY <1>1, <1>2, TypeCorrect, CopiesStayConfined, PTL DEF Spec, Orderly

\* No copy outlives its Whisper: for any number of namespaces, any edits, losses,
\* refusals and crashes, any change of the chart that leaves it a write set, and any
\* step-down in an apply but for the two awaits between a check and its write, if
\* one replica leads at a time and has seen what its predecessor did (dispatcher,
\* apply's checks, cleanup, finalizer).
THEOREM NoCopyOrphaned ==
  ASSUME OneLeader
  PROVE  Spec /\ []Configured /\ Orderly => []NoOrphans
<1>1. OrphanInv => NoOrphans
  BY DEF OrphanInv
<1> QED
  BY <1>1, OrphanInvariant, PTL

---------------------------------------------------------------------------
(* Reconcile implements the safety of Lifecycle.                           *)

CopyOf == [ns \in Namespace |-> IF Holds(ns) THEN secret[ns].uid ELSE 0]

\* Whatever leaves the Whisper's life and the copies alone is a stutter.
LEMMA LifeStutters ==
  ASSUME UNCHANGED secret, whisper'.phase = whisper.phase, whisper'.fin = whisper.fin,
         whisper'.uid = whisper.uid
  PROVE  UNCHANGED Life!vars
BY DEF Life!vars, Holds

\* One secret changes.
LEMMA LifeCopies ==
  ASSUME TypeOK, NEW ns \in Namespace, NEW s, SetSecret(ns, s)
  PROVE  CopyOf' = [CopyOf EXCEPT ![ns] = IF s.kind = "copy" THEN s.uid ELSE 0]
<1>1. secret' = [secret EXCEPT ![ns] = s]
  BY DEF SetSecret
<1>2. \A n \in Namespace : secret'[n] = IF n = ns THEN s ELSE secret[n]
  BY <1>1 DEF TypeOK
<1> QED
  BY <1>2 DEF CopyOf, Holds

LEMMA LifeReclaims ==
  ASSUME TypeOK, NEW ns \in Namespace, SetSecret(ns, NoSecret), UNCHANGED whisper
  PROVE  Life!Next
<1>1. CopyOf' = [CopyOf EXCEPT ![ns] = 0]
  BY LifeCopies DEF NoSecret
<1>2. Life!Reclaim(ns)
  BY <1>1 DEF Life!Reclaim, CopyOf
<1> QED
  BY <1>2 DEF Life!Next

LEMMA WorkLives ==
  ASSUME TypeOK, OrphanInv, NEW r \in Replica, Work(r)
  PROVE  Life!Next \/ UNCHANGED Life!vars
<1>0. Sound(r) /\ whisper \in WhisperType
  BY DEF OrphanInv, TypeOK
<1>1. CASE UNCHANGED <<whisper, secret>>
  BY <1>1, LifeStutters
<1>2. CASE Refused(r)
  BY <1>1, <1>2 DEF Refused, clusterVars
<1>3. CASE AddFinalizer(r) /\ ~Refused(r)
  <2>1. whisper' = [whisper EXCEPT !.fin = TRUE] /\ whisper.phase = "live" /\ ~whisper.fin
        /\ secret' = secret
    BY <1>3 DEF AddFinalizer
  <2>2. whisper'.phase = whisper.phase /\ whisper'.fin = TRUE /\ whisper'.uid = whisper.uid
    BY <1>0, <2>1 DEF WhisperType
  <2>3. Life!Protect
    BY <2>1, <2>2 DEF Life!Protect, Holds
  <2> QED
    BY <2>3 DEF Life!Next
<1>4. CASE RemoveFinalizer(r) /\ ~Refused(r)
  <2>1. pc[r] = "removeFinalizer" /\ whisper.fin /\ secret' = secret
    BY <1>4 DEF RemoveFinalizer
  <2>2. Copies = {} /\ whisper.phase = "deleting"
    BY <1>0, <2>1 DEF Sound, Moded, Found, Mine
  <2>3. whisper' = Gone(whisper.uid)
    BY <1>4, <2>1, <2>2 DEF RemoveFinalizer
  <2>4. whisper'.phase = "absent" /\ whisper'.fin = FALSE /\ whisper'.uid = whisper.uid
    BY <2>3 DEF Gone
  <2>5. CopyOf = [ns \in Namespace |-> 0]
    BY <2>2 DEF CopyOf, Copies
  <2>6. Life!Release
    BY <2>1, <2>2, <2>4, <2>5 DEF Life!Release, Life!Nowhere, CopyOf, Holds
  <2> QED
    BY <2>6 DEF Life!Next
<1>5. CASE RecordSynced(r) /\ ~Refused(r)
  <2>1. whisper' = [whisper EXCEPT !.status = job[r].targets] /\ secret' = secret
    BY <1>5 DEF RecordSynced
  <2>2. whisper'.phase = whisper.phase /\ whisper'.fin = whisper.fin
        /\ whisper'.uid = whisper.uid
    BY <1>0, <2>1 DEF WhisperType
  <2> QED
    BY <2>1, <2>2, LifeStutters
<1>6. CASE Delete(r) /\ ~Refused(r)
  <2>1. CanReclaim(job[r].cur) /\ SetSecret(job[r].cur, NoSecret) /\ whisper' = whisper
    BY <1>6 DEF Delete, DeleteAccepted
  <2>2. job[r].cur \in Namespace
    BY <2>1 DEF CanReclaim, TypeOK, ConfType
  <2> QED
    BY <2>1, <2>2, LifeReclaims
<1>7. CASE Patch(r) /\ ~Refused(r)
  <2>1. /\ CanPatch(job[r].cur) /\ SetSecret(job[r].cur, Copy(job[r].uid, job[r].src))
        /\ whisper' = whisper /\ pc[r] = "patch"
    BY <1>7 DEF Patch
  <2>2. PICK ns \in Namespace : ns = job[r].cur
    BY <2>1 DEF CanPatch, TypeOK, ConfType
  <2>0. r \in leader
    BY <2>1, WorkerYields DEF Yields
  <2>3. whisper.phase # "absent" /\ whisper.fin = TRUE /\ whisper.uid = job[r].uid
    BY <1>0, <2>0, <2>1 DEF Sound, Moded, Mine, WhisperType
  <2>4. CopyOf' = [CopyOf EXCEPT ![ns] = whisper.uid]
    BY <2>1, <2>2, <2>3, LifeCopies DEF Copy
  <2>5. Life!Write(ns)
    BY <2>1, <2>3, <2>4 DEF Life!Write, CopyOf
  <2> QED
    BY <2>5 DEF Life!Next
<1>8. CASE \/ Dispatch(r) \/ ReadSource(r) \/ ResolveTargetsOf(r) \/ Plan(r)
           \/ StartCleanup(r) \/ PlanCleanup(r) \/ DeferLoop(r) \/ EndLoop(r)
           \/ (GetForDelete(r) /\ ~Refused(r)) \/ (GetForWrite(r) /\ ~Refused(r))
           \/ \E ns \in Namespace :
                \/ Probe(r, ns) /\ ~Refused(r)
                \/ NextDelete(r, ns) \/ NextWrite(r, ns)
  <2>1. UNCHANGED <<whisper, secret>>
    BY <1>8 DEF Dispatch, ReadSource, ResolveTargetsOf, Plan, StartCleanup, PlanCleanup,
         DeferLoop, EndLoop, GetForDelete, GetForWrite, Probe, NextDelete, NextWrite,
         clusterVars
  <2> QED
    BY <1>1, <2>1
<1> QED
  BY <1>2, <1>3, <1>4, <1>5, <1>6, <1>7, <1>8 DEF Work

LEMMA EnvironmentLives ==
  ASSUME TypeOK, OrphanInv, Environment
  PROVE  Life!Next \/ UNCHANGED Life!vars
<1>0. whisper \in WhisperType /\ (whisper.fin => whisper.phase # "absent")
  BY DEF OrphanInv, TypeOK
<1>1. CASE UNCHANGED <<whisper, secret>>
  BY <1>1, LifeStutters
<1>2. CASE UserCreates
  <2>1. PICK wanted \in SUBSET Requestable : whisper' = Created(whisper.uid + 1, wanted)
    BY <1>2 DEF UserCreates
  <2>2. /\ whisper.phase = "absent" /\ whisper.fin = FALSE /\ secret' = secret
        /\ whisper'.phase = "live" /\ whisper'.fin = FALSE /\ whisper'.uid = whisper.uid + 1
    BY <1>0, <1>2, <2>1 DEF UserCreates, Created, WhisperType
  <2>3. Life!Create
    BY <2>2 DEF Life!Create, Holds
  <2> QED
    BY <2>3 DEF Life!Next
<1>3. CASE UserDeletes
  <2>1. /\ whisper.phase = "live" /\ secret' = secret /\ whisper'.uid = whisper.uid
        /\ whisper'.fin = whisper.fin
        /\ whisper'.phase = IF whisper.fin THEN "deleting" ELSE "absent"
    BY <1>0, <1>3 DEF UserDeletes, Gone, WhisperType
  <2>2. Life!Delete
    BY <2>1 DEF Life!Delete, Holds
  <2> QED
    BY <2>2 DEF Life!Next
<1>4. CASE UserEdits \/ StatusLost
  <2>1. whisper'.phase = whisper.phase /\ whisper'.fin = whisper.fin
        /\ whisper'.uid = whisper.uid /\ secret' = secret
    BY <1>0, <1>4 DEF UserEdits, StatusLost, WhisperType
  <2> QED
    BY <2>1, LifeStutters
<1>5. ASSUME NEW ns \in Namespace, SecretPlanted(ns)
      PROVE  UNCHANGED Life!vars
  <2>1. SetSecret(ns, Foreign) /\ secret[ns] = NoSecret /\ whisper' = whisper
    BY <1>5 DEF SecretPlanted
  <2>2. CopyOf' = [CopyOf EXCEPT ![ns] = 0] /\ CopyOf[ns] = 0
    BY <2>1, LifeCopies DEF Foreign, NoSecret, CopyOf, Holds
  <2>3. CopyOf' = CopyOf
    BY <2>2 DEF CopyOf
  <2> QED
    BY <2>1, <2>3 DEF Life!vars, CopyOf
<1>6. ASSUME NEW ns \in Namespace, SecretRemoved(ns)
      PROVE  Life!Next
  BY <1>6, LifeReclaims DEF SecretRemoved
<1>7. CASE \/ \E v \in Value \cup {NoValue} : SourceChanges(v)
           \/ \E ns \in Namespace : LabelChanges(ns) \/ Enrol(ns) \/ Decommission(ns) \/ Retire(ns)
           \/ \E r \in Replica : Crash(r) \/ StepDown(r) \/ Fail(r)
  <2>1. UNCHANGED <<whisper, secret>>
    BY <1>7 DEF SourceChanges, LabelChanges, Enrol, Decommission, Retire, Crash, Restart,
         StepDown, Fail, clusterVars
  <2> QED
    BY <1>1, <2>1
<1> QED
  BY <1>2, <1>3, <1>4, <1>5, <1>6, <1>7 DEF Environment

LEMMA NextLives ==
  ASSUME TypeOK, OrphanInv, [Next]_vars
  PROVE  [Life!Next]_(Life!vars)
<1>1. ASSUME NEW r \in Replica, Observe(r) \/ Elect(r) \/ Roll(r)
      PROVE  UNCHANGED Life!vars
  BY <1>1, LifeStutters DEF Observe, Elect, Roll, Restart, clusterVars
<1>2. CASE UNCHANGED vars
  BY <1>2, LifeStutters DEF vars, clusterVars
<1> QED
  BY <1>1, <1>2, WorkLives, EnvironmentLives DEF Next, Process

\* Reconcile takes no step that Lifecycle forbids: no write without a Whisper and
\* its finalizer, no finalizer given up while a copy is left.
THEOREM LivesSafely ==
  ASSUME OneLeader
  PROVE  Spec /\ []Configured /\ Orderly => Life!Spec
<1>1. Init => Life!Init
  BY DEF Init, Life!Init, Life!Nowhere, Created, Holds, NoSecret
<1>2. TypeOK /\ OrphanInv /\ [Next]_vars => [Life!Next]_(Life!vars)
  BY NextLives
<1> QED
  BY <1>1, <1>2, TypeCorrect, OrphanInvariant, PTL DEF Spec, Life!Spec
=============================================================================
