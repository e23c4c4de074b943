-------------------------- MODULE ReconcileProofs --------------------------
(***************************************************************************)
(* What holds of Reconcile for every number of replicas and namespaces,    *)
(* every budget of events, and any number of leaders at once.              *)
(***************************************************************************)
EXTENDS Reconcile, TLAPS

LEMMA UpdateType ==
  ASSUME TypeOK, NEW r \in Replica, NEW locals \in JobType, Update(r, locals)
  PROVE  job' \in [Replica -> JobType]
  BY DEF TypeOK, Update

LEMMA IdleType == Idle \in JobType
  BY ConstantsAssumption DEF Idle, Job, JobType

\* Returning keeps the three variables it sets within their types.
LEMMA ReturnType ==
  ASSUME TypeOK, NEW r \in Replica, Return(r)
  PROVE  /\ pc' \in [Replica -> Pcs]
         /\ job' \in [Replica -> JobType]
         /\ intact' \in SUBSET Replica
  <1>1. job' \in [Replica -> JobType]
    BY UpdateType, IdleType DEF Return
  <1> QED
    BY <1>1 DEF TypeOK, Return, Goto, Pcs

\* The locals of replica r are well typed.
LEMMA LocalsType ==
  ASSUME TypeOK, NEW r \in Replica
  PROVE  job[r] \in JobType
  BY DEF TypeOK

LEMMA GotoType ==
  ASSUME TypeOK, NEW r \in Replica, NEW label \in Pcs, Goto(r, label)
  PROVE  pc' \in [Replica -> Pcs]
  BY DEF TypeOK, Goto

\* A step of the reconcile that leaves the cluster alone.
LEMMA LocalType ==
  ASSUME TypeOK,
         pc' \in [Replica -> Pcs], job' \in [Replica -> JobType],
         intact' \in SUBSET Replica,
         UNCHANGED <<clusterVars, leader, store, conf, spent>>
  PROVE  TypeOK'
  BY DEF TypeOK, clusterVars

LEMMA RefusedType ==
  ASSUME TypeOK, NEW r \in Replica, Refused(r)
  PROVE  TypeOK'
  <1>1. Return(r)
    BY DEF Refused
  <1> QED
    BY <1>1, ReturnType DEF Refused, TypeOK, clusterVars, WhisperType, SecretType

LEMMA DispatchType ==
  ASSUME TypeOK, NEW r \in Replica, Dispatch(r)
  PROVE  TypeOK'
  <1>1. store[r] \in WhisperType
    BY DEF TypeOK
  <1>2. pc' \in [Replica -> Pcs]
    BY DEF TypeOK, Dispatch, DispatchApply, DispatchCleanup, DispatchNew, Goto, Pcs
  <1>3. ApplyJob(store[r]) \in JobType
    BY <1>1, ConstantsAssumption DEF ApplyJob, Job, JobType, WhisperType, Uid
  <1>4. CleanupJob(store[r]) \in JobType
    BY <1>1, ConstantsAssumption DEF CleanupJob, Job, JobType, WhisperType, Uid
  <1>5. job' \in [Replica -> JobType]
    BY <1>3, <1>4, UpdateType DEF TypeOK, Dispatch, DispatchApply, DispatchCleanup, DispatchNew
  <1> QED
    BY <1>2, <1>5 DEF TypeOK, Dispatch, clusterVars

LEMMA FinalizerType ==
  ASSUME TypeOK, NEW r \in Replica, AddFinalizer(r) \/ RemoveFinalizer(r)
  PROVE  TypeOK'
  <1>1. CASE Refused(r)
    BY <1>1, RefusedType
  <1>2. CASE Return(r) /\ whisper' \in WhisperType
             /\ UNCHANGED <<source, secret, labelled, chart, leader, store, conf, spent>>
    BY <1>2, ReturnType DEF TypeOK
  <1>3. /\ [whisper EXCEPT !.fin = TRUE] \in WhisperType
        /\ [whisper EXCEPT !.fin = FALSE] \in WhisperType
        /\ Gone(whisper.uid) \in WhisperType
    BY DEF TypeOK, WhisperType, Gone
  <1> QED
    BY <1>1, <1>2, <1>3 DEF AddFinalizer, RemoveFinalizer

LEMMA PlanningType ==
  ASSUME TypeOK, NEW r \in Replica,
         \/ ReadSource(r) \/ ResolveTargetsOf(r) \/ Plan(r)
         \/ StartCleanup(r) \/ PlanCleanup(r)
  PROVE  TypeOK'
  <1>1. ASSUME Return(r), UNCHANGED <<clusterVars, leader, store, conf, spent>>
        PROVE  TypeOK'
    BY <1>1, RefusedType DEF Refused
  <1>2. ASSUME ReadSource(r), source # NoValue
        PROVE  TypeOK'
    <2>1. pc' \in [Replica -> Pcs]
      BY <1>2, GotoType DEF ReadSource, Pcs
    <2>2. [job[r] EXCEPT !.src = source] \in JobType
      BY LocalsType DEF TypeOK, JobType
    <2>3. job' \in [Replica -> JobType]
      BY <1>2, <2>2, UpdateType DEF ReadSource
    <2> QED
      BY <1>2, <2>1, <2>3, LocalType DEF ReadSource, TypeOK
  <1>3. ASSUME ResolveTargetsOf(r)
        PROVE  TypeOK'
    <2> DEFINE T == Resolve(job[r].wanted, labelled, Protected, conf[r])
               P == ProbeNamespaces(conf[r])
    <2>1. T \in SUBSET Namespace /\ P \in SUBSET Namespace
      BY ConstantsAssumption
         DEF TypeOK, JobType, ConfType, Resolve, Confine, ResolveTargets, Consenting, IsProtected,
             ProbeNamespaces
    <2>2. pc' \in [Replica -> Pcs]
      BY <1>3, GotoType DEF ResolveTargetsOf, Pcs
    <2>3. Update(r, [job[r] EXCEPT !.targets = T, !.todo = P])
      BY <1>3 DEF ResolveTargetsOf
    <2> HIDE DEF T, P
    <2>4. [job[r] EXCEPT !.targets = T, !.todo = P] \in JobType
      BY <2>1, LocalsType DEF JobType
    <2>5. job' \in [Replica -> JobType]
      BY <2>3, <2>4, UpdateType
    <2> QED
      BY <1>3, <2>2, <2>5, LocalType DEF ResolveTargetsOf, TypeOK
  <1>4. ASSUME Plan(r), IsLeader(r)
        PROVE  TypeOK'
    <2>1. pc' \in [Replica -> Pcs]
      BY <1>4, GotoType DEF Plan, Pcs
    <2>2. [job[r] EXCEPT !.put = ToWrite(job[r].known, job[r].targets),
                         !.del = ToDelete(job[r].known, job[r].targets),
                         !.wanted = {}, !.known = {}] \in JobType
      BY LocalsType DEF ToWrite, ToDelete, JobType
    <2>3. job' \in [Replica -> JobType]
      BY <1>4, <2>2, UpdateType DEF Plan
    <2> QED
      BY <1>4, <2>1, <2>3, LocalType DEF Plan, TypeOK
  <1>5. ASSUME StartCleanup(r)
        PROVE  TypeOK'
    <2>1. ProbeNamespaces(conf[r]) \in SUBSET Namespace
      BY DEF TypeOK, ConfType, ProbeNamespaces
    <2>2. pc' \in [Replica -> Pcs]
      BY <1>5, GotoType DEF StartCleanup, Pcs
    <2>3. [job[r] EXCEPT !.todo = ProbeNamespaces(conf[r])] \in JobType
      BY <2>1, LocalsType DEF JobType
    <2>4. job' \in [Replica -> JobType]
      BY <1>5, <2>3, UpdateType DEF StartCleanup, TypeOK
    <2> QED
      BY <1>5, <2>2, <2>4, LocalType DEF StartCleanup, TypeOK
  <1>6. ASSUME PlanCleanup(r)
        PROVE  TypeOK'
    <2>1. pc' \in [Replica -> Pcs]
      BY <1>6, GotoType DEF PlanCleanup, Pcs
    <2>2. [job[r] EXCEPT !.del = job[r].known, !.known = {}] \in JobType
      BY LocalsType DEF JobType
    <2>3. job' \in [Replica -> JobType]
      BY <1>6, <2>2, UpdateType DEF PlanCleanup
    <2> QED
      BY <1>6, <2>1, <2>3, LocalType DEF PlanCleanup, TypeOK
  <1> QED
    BY <1>1, <1>2, <1>3, <1>4, <1>5, <1>6 DEF ReadSource, Plan

LEMMA LoopType ==
  ASSUME TypeOK, NEW r \in Replica,
         \/ DeferLoop(r) \/ EndLoop(r)
         \/ \E ns \in Namespace : Probe(r, ns) \/ NextDelete(r, ns) \/ NextWrite(r, ns)
  PROVE  TypeOK'
  <1>1. ASSUME DeferLoop(r)
        PROVE  TypeOK'
    BY <1>1, RefusedType DEF DeferLoop, Refused
  <1>2. ASSUME EndLoop(r)
        PROVE  TypeOK'
    BY <1>2 DEF EndLoop, TypeOK, Goto, Pcs, clusterVars
  <1>3. ASSUME NEW ns \in Namespace, Probe(r, ns)
        PROVE  TypeOK'
    <2>1. Known(r, ns) \in SUBSET Namespace
      BY DEF Known, TypeOK, JobType
    <2>2. ASSUME CanReclaim(ns)
          PROVE  TypeOK'
      <3> DEFINE K == Known(r, ns)
      <3>1. Update(r, [job[r] EXCEPT !.known = K, !.todo = @ \ {ns}])
        BY <1>3, <2>2 DEF Probe
      <3> HIDE DEF K
      <3>2. [job[r] EXCEPT !.known = K, !.todo = @ \ {ns}] \in JobType
        BY <2>1, LocalsType DEF K, JobType
      <3>3. job' \in [Replica -> JobType]
        BY <3>1, <3>2, UpdateType
      <3> QED
        BY <1>3, <2>2, <3>3, LocalType DEF Probe, TypeOK
    <2> QED
      BY <1>3, <2>2, RefusedType DEF Probe
  <1>4. ASSUME NEW ns \in Namespace, NextDelete(r, ns) \/ NextWrite(r, ns)
        PROVE  TypeOK'
    <2>1. pc' \in [Replica -> Pcs]
      BY <1>4, GotoType DEF NextDelete, NextWrite, Pcs
    <2>2. /\ [job[r] EXCEPT !.del = @ \ {ns}, !.cur = ns] \in JobType
          /\ [job[r] EXCEPT !.put = @ \ {ns}, !.cur = ns] \in JobType
      BY LocalsType DEF JobType
    <2>3. job' \in [Replica -> JobType]
      BY <1>4, <2>2, UpdateType DEF NextDelete, NextWrite
    <2> QED
      BY <1>4, <2>1, <2>3, LocalType DEF NextDelete, NextWrite, TypeOK
  <1> QED
    BY <1>1, <1>2, <1>3, <1>4

LEMMA NextElementType ==
  ASSUME TypeOK, NEW r \in Replica, NextElement(r)
  PROVE  pc' \in [Replica -> Pcs] /\ job' \in [Replica -> JobType]
  <1>1. [job[r] EXCEPT !.cur = NoNamespace] \in JobType
    BY LocalsType DEF JobType
  <1> QED
    BY <1>1, UpdateType, GotoType DEF NextElement, Pcs

LEMMA AccessType ==
  ASSUME TypeOK, NEW r \in Replica,
         \/ GetForDelete(r) \/ Delete(r) \/ GetForWrite(r) \/ Patch(r) \/ RecordSynced(r)
  PROVE  TypeOK'
  <1>1. CASE Refused(r)
    BY <1>1, RefusedType
  <1>2. ASSUME GetForDelete(r) \/ GetForWrite(r), ~Refused(r)
        PROVE  TypeOK'
    <2>1. pc' \in [Replica -> Pcs]
      BY <1>2, GotoType, NextElementType DEF GetForDelete, GetForWrite, Pcs
    <2>2. job' \in [Replica -> JobType]
      BY <1>2, NextElementType DEF GetForDelete, GetForWrite, TypeOK
    <2>3. intact' \in SUBSET Replica
      BY <1>2 DEF GetForDelete, GetForWrite, TypeOK
    <2> QED
      BY <1>2, <2>1, <2>2, <2>3, LocalType DEF GetForDelete, GetForWrite
  <1>3. ASSUME Delete(r), ~Refused(r)
        PROVE  TypeOK'
    <2>1. pc' \in [Replica -> Pcs] /\ job' \in [Replica -> JobType]
      BY <1>3, NextElementType DEF Delete
    <2>2. secret' \in [Namespace -> SecretType]
      BY <1>3, ConstantsAssumption DEF Delete, SetSecret, NoSecret, SecretType, TypeOK
    <2>3. intact' \in SUBSET Replica
      BY <1>3 DEF Delete, StillIntact, TypeOK
    <2> QED
      BY <1>3, <2>1, <2>2, <2>3 DEF Delete, TypeOK
  <1>4. ASSUME Patch(r), ~Refused(r)
        PROVE  TypeOK'
    <2>1. pc' \in [Replica -> Pcs] /\ job' \in [Replica -> JobType]
      BY <1>4, NextElementType DEF Patch
    <2>2. Copy(job[r].uid, job[r].src) \in SecretType
      BY DEF Copy, SecretType, TypeOK, JobType
    <2>3. secret' \in [Namespace -> SecretType]
      BY <1>4, <2>2 DEF Patch, SetSecret, TypeOK
    <2>4. intact' \in SUBSET Replica
      BY <1>4 DEF Patch, StillIntact, TypeOK
    <2> QED
      BY <1>4, <2>1, <2>3, <2>4 DEF Patch, TypeOK
  <1>5. ASSUME RecordSynced(r), ~Refused(r)
        PROVE  TypeOK'
    <2>1. Return(r)
      BY <1>5 DEF RecordSynced
    <2>2. job[r].targets \in SUBSET Namespace
      BY DEF TypeOK, JobType
    <2>3. whisper' \in WhisperType
      BY <1>5, <2>2 DEF RecordSynced, TypeOK, WhisperType
    <2> QED
      BY <1>5, <2>1, <2>3, ReturnType DEF RecordSynced, TypeOK
  <1> QED
    BY <1>1, <1>2, <1>3, <1>4, <1>5

LEMMA WorkType ==
  ASSUME TypeOK, NEW r \in Replica, Work(r)
  PROVE  TypeOK'
  BY DispatchType, FinalizerType, PlanningType, LoopType, AccessType DEF Work

LEMMA ProcessType ==
  ASSUME TypeOK, NEW r \in Replica, Process(r)
  PROVE  TypeOK'
  <1>1. ASSUME Observe(r) \/ Elect(r)
        PROVE  TypeOK'
    BY <1>1 DEF Observe, Elect, TypeOK, clusterVars
  <1>2. ASSUME Roll(r)
        PROVE  TypeOK'
    <2>1. Return(r) /\ Gone(1) \in WhisperType
      BY <1>2, ConstantsAssumption DEF Roll, Restart, Gone, WhisperType, Uid
    <2> QED
      BY <1>2, <2>1, ReturnType DEF Roll, Restart, TypeOK, clusterVars
  <1> QED
    BY <1>1, <1>2, WorkType DEF Process

LEMMA FaultType ==
  ASSUME TypeOK, NEW r \in Replica, Crash(r) \/ StepDown(r) \/ Fail(r)
  PROVE  TypeOK'
  <1>1. spent' \in Nat /\ spent' <= MaxEvents
    BY ConstantsAssumption DEF Crash, StepDown, Fail, Happens, TypeOK
  <1>2. Gone(1) \in WhisperType
    BY ConstantsAssumption DEF Gone, WhisperType, Uid
  <1>3. CASE Crash(r)
    BY <1>1, <1>2, <1>3, ReturnType DEF Crash, Restart, TypeOK, clusterVars
  <1>4. CASE StepDown(r)
    BY <1>1, <1>4 DEF StepDown, TypeOK, clusterVars
  <1>5. CASE Fail(r)
    BY <1>1, <1>5, ReturnType DEF Fail, TypeOK, clusterVars
  <1> QED
    BY <1>3, <1>4, <1>5

LEMMA EnvironmentType ==
  ASSUME TypeOK, Environment
  PROVE  TypeOK'
  <1> USE ConstantsAssumption
  <1>1. ASSUME UserCreates \/ UserEdits \/ UserDeletes \/ StatusLost
        PROVE  TypeOK'
    <2>1. ASSUME NEW wanted \in SUBSET Requestable
          PROVE  /\ [whisper EXCEPT !.wanted = wanted] \in WhisperType
                 /\ whisper.uid < MaxUid => Created(whisper.uid + 1, wanted) \in WhisperType
      BY DEF Created, TypeOK, WhisperType, Uid
    <2>2. /\ Gone(whisper.uid) \in WhisperType
          /\ [whisper EXCEPT !.phase = "deleting"] \in WhisperType
          /\ [whisper EXCEPT !.status = {}] \in WhisperType
      BY DEF Gone, TypeOK, WhisperType
    <2>3. whisper' \in WhisperType
      BY <1>1, <2>1, <2>2 DEF UserCreates, UserEdits, UserDeletes, StatusLost
    <2> QED
      BY <1>1, <2>3 DEF UserCreates, UserEdits, UserDeletes, StatusLost, Happens,
                        replicaVars, TypeOK
  <1>2. ASSUME NEW v \in Value \cup {NoValue}, SourceChanges(v)
        PROVE  TypeOK'
    BY <1>2 DEF SourceChanges, Happens, replicaVars, TypeOK
  <1>3. ASSUME NEW ns \in Namespace, LabelChanges(ns)
        PROVE  TypeOK'
    BY <1>3 DEF LabelChanges, Happens, replicaVars, TypeOK
  <1>4. ASSUME NEW ns \in Namespace, SecretPlanted(ns) \/ SecretRemoved(ns)
        PROVE  TypeOK'
    <2>1. Foreign \in SecretType /\ NoSecret \in SecretType
      BY DEF Foreign, NoSecret, SecretType
    <2> QED
      BY <1>4, <2>1 DEF SecretPlanted, SecretRemoved, SetSecret, StillIntact, Happens,
                        replicaVars, TypeOK
  <1>5. ASSUME NEW ns \in Namespace, Enrol(ns) \/ Decommission(ns) \/ Retire(ns)
        PROVE  TypeOK'
    <2>1. chart' \in ConfType
      BY <1>5 DEF Enrol, Decommission, Retire, TypeOK, ConfType
    <2> QED
      BY <1>5, <2>1 DEF Enrol, Decommission, Retire, Happens, replicaVars, TypeOK
  <1> QED
    BY <1>1, <1>2, <1>3, <1>4, <1>5, FaultType DEF Environment

LEMMA InitType == Init => TypeOK
  <1> SUFFICES ASSUME Init
               PROVE  TypeOK
    OBVIOUS
  <1> USE ConstantsAssumption
  <1>1. whisper \in WhisperType /\ Gone(1) \in WhisperType
    BY DEF Init, Created, Gone, WhisperType, Uid
  <1>2. NoSecret \in SecretType
    BY DEF NoSecret, SecretType
  <1> QED
    BY <1>1, <1>2, IdleType DEF Init, TypeOK, ConfType, Pcs

\* Type correctness, for every value of the constants: the reconciler, its
\* environment and its faults keep every variable in its type.
THEOREM TypeCorrect == Spec => []TypeOK
  <1>1. TypeOK /\ [Next]_vars => TypeOK'
    <2> SUFFICES ASSUME TypeOK, [Next]_vars
                 PROVE  TypeOK'
      OBVIOUS
    <2>1. CASE UNCHANGED vars
      BY <2>1 DEF vars, clusterVars, TypeOK
    <2> QED
      BY <2>1, EnvironmentType, ProcessType DEF Next
  <1> QED
    BY InitType, <1>1, PTL DEF Spec

---------------------------------------------------------------------------
(* CopiesConfined is not inductive: that a replica about to write does not *)
(* write into a protected namespace rests on what it resolved long before. *)
(* RBAC, on the other hand, is checked against the chart at the very       *)
(* instant of the write, so nothing need be remembered of the chart.       *)

Permitted(label, locals) ==
  /\ locals.targets \cap Protected = {}
  /\ locals.put \cap Protected = {}
  /\ label \in {"getWrite", "patch"} => locals.cur \notin Protected

ConfinedInv ==
  /\ CopiesConfined
  /\ \A r \in Replica : Permitted(pc[r], job[r])

\* resolve never yields a protected namespace.
LEMMA ResolveUnprotected ==
  ASSUME NEW wanted, NEW labels, NEW sets
  PROVE  Resolve(wanted, labels, Protected, sets) \cap Protected = {}
  BY DEF Resolve, Confine, ResolveTargets, Consenting, IsProtected

\* A replica moves only its own program counter and locals.
LEMMA OwnLocals ==
  ASSUME TypeOK, NEW r \in Replica,
         Process(r) \/ Crash(r) \/ StepDown(r) \/ Fail(r),
         NEW q \in Replica \ {r}
  PROVE  pc'[q] = pc[q] /\ job'[q] = job[q]
  <1>1. ASSUME Work(r)
        PROVE  pc'[q] = pc[q] /\ job'[q] = job[q]
    BY <1>1 DEF TypeOK, Work, Dispatch, DispatchApply, DispatchCleanup, DispatchNew,
         AddFinalizer, RemoveFinalizer, ReadSource, ResolveTargetsOf, Plan, StartCleanup,
         PlanCleanup, DeferLoop, EndLoop, GetForDelete, Delete, GetForWrite, Patch,
         RecordSynced, Probe, NextDelete, NextWrite, NextElement, Refused, Return, Goto,
         Update
  <1> QED
    BY <1>1 DEF TypeOK, Process, Observe, Elect, Roll, Restart, Crash, StepDown, Fail,
         Return, Goto, Update

LEMMA ReturnPermitted ==
  ASSUME TypeOK, NEW r \in Replica, Return(r)
  PROVE  Permitted(pc'[r], job'[r])
  BY DEF TypeOK, Return, Goto, Update, Idle, Job, Permitted

\* Where a step leaves the replica that takes it.
LEMMA AtSelf ==
  ASSUME TypeOK, NEW r \in Replica
  PROVE  /\ \A label : Goto(r, label) => pc'[r] = label
         /\ \A locals : Update(r, locals) => job'[r] = locals
         /\ NextElement(r) => /\ pc'[r] = "loop"
                              /\ job'[r].targets = job[r].targets
                              /\ job'[r].put = job[r].put
  BY LocalsType DEF TypeOK, Goto, Update, NextElement, JobType

LEMMA WorkPermitted ==
  ASSUME TypeOK, NEW r \in Replica, Permitted(pc[r], job[r]), Work(r)
  PROVE  Permitted(pc'[r], job'[r])
  <1> USE DEF TypeOK, Permitted, Goto, Update
  <1>1. CASE Return(r)
    BY <1>1, ReturnPermitted
  <1>2. ASSUME Dispatch(r)
        PROVE  Permitted(pc'[r], job'[r])
    BY <1>2 DEF Dispatch, DispatchApply, DispatchCleanup, DispatchNew, ApplyJob,
         CleanupJob, Job
  <1>3. ASSUME ReadSource(r), ~Return(r)
        PROVE  Permitted(pc'[r], job'[r])
    BY <1>3, LocalsType DEF ReadSource, JobType
  <1>4. ASSUME ResolveTargetsOf(r)
        PROVE  Permitted(pc'[r], job'[r])
    BY <1>4, LocalsType, ResolveUnprotected DEF ResolveTargetsOf, JobType
  <1>5. ASSUME Plan(r), ~Return(r)
        PROVE  Permitted(pc'[r], job'[r])
    <2> DEFINE D == ToDelete(job[r].known, job[r].targets)
    <2>1. job'[r] = [job[r] EXCEPT !.put = job[r].targets, !.del = D,
                                   !.wanted = {}, !.known = {}]
      BY <1>5, AtSelf DEF Plan, ToWrite
    <2>2. pc'[r] = "loop"
      BY <1>5, AtSelf DEF Plan
    <2> QED
      BY <2>1, <2>2, LocalsType DEF JobType
  <1>6. ASSUME StartCleanup(r) \/ PlanCleanup(r) \/ EndLoop(r)
        PROVE  Permitted(pc'[r], job'[r])
    <2>1. pc'[r] \in {"probe", "loop", "status", "removeFinalizer"}
      BY <1>6 DEF StartCleanup, PlanCleanup, EndLoop
    <2>2. \/ job'[r] = [job[r] EXCEPT !.todo = ProbeNamespaces(conf[r])]
          \/ job'[r] = [job[r] EXCEPT !.del = job[r].known, !.known = {}]
          \/ job'[r] = job[r]
      BY <1>6, AtSelf DEF StartCleanup, PlanCleanup, EndLoop
    <2>3. job'[r].targets = job[r].targets /\ job'[r].put = job[r].put
      BY <2>2, LocalsType DEF JobType
    <2> QED
      BY <2>1, <2>3
  <1>7. ASSUME NEW ns \in Namespace, Probe(r, ns), ~Return(r)
        PROVE  Permitted(pc'[r], job'[r])
    <2> DEFINE K == Known(r, ns)
    <2>1. Update(r, [job[r] EXCEPT !.known = K, !.todo = @ \ {ns}])
      BY <1>7 DEF Probe, Refused
    <2> HIDE DEF K
    <2>2. job'[r].targets = job[r].targets /\ job'[r].put = job[r].put
      BY <2>1, AtSelf, LocalsType DEF JobType
    <2>3. pc'[r] = "probe"
      BY <1>7 DEF Probe, Refused
    <2> QED
      BY <2>2, <2>3
  <1>8. ASSUME NEW ns \in Namespace, NextDelete(r, ns)
        PROVE  Permitted(pc'[r], job'[r])
    <2>1. job'[r] = [job[r] EXCEPT !.del = @ \ {ns}, !.cur = ns] /\ pc'[r] = "getDelete"
      BY <1>8, AtSelf DEF NextDelete
    <2> QED
      BY <2>1, LocalsType DEF JobType
  <1>9. ASSUME NEW ns \in Namespace, NextWrite(r, ns)
        PROVE  Permitted(pc'[r], job'[r])
    <2>1. job'[r] = [job[r] EXCEPT !.put = @ \ {ns}, !.cur = ns] /\ pc'[r] = "getWrite"
      BY <1>9, AtSelf DEF NextWrite
    <2>2. ns \in job[r].put
      BY <1>9 DEF NextWrite
    <2> QED
      BY <2>1, <2>2, LocalsType DEF JobType
  <1>10. ASSUME GetForDelete(r) \/ Delete(r) \/ GetForWrite(r) \/ Patch(r), ~Return(r)
        PROVE  Permitted(pc'[r], job'[r])
    <2>1. CASE NextElement(r)
      BY <2>1, AtSelf
    <2>2. CASE Goto(r, "delete") /\ UNCHANGED job
      BY <2>2
    <2>3. CASE pc[r] = "getWrite" /\ Goto(r, "patch") /\ UNCHANGED job
      BY <2>3
    <2> QED
      BY <1>10, <2>1, <2>2, <2>3 DEF GetForDelete, Delete, GetForWrite, Patch, Refused
  <1>11. ASSUME \/ AddFinalizer(r) \/ RemoveFinalizer(r)
                \/ DeferLoop(r) \/ RecordSynced(r)
         PROVE  Return(r)
    BY <1>11 DEF AddFinalizer, RemoveFinalizer, DeferLoop, RecordSynced, Refused
  <1> QED
    BY <1>1, <1>2, <1>3, <1>4, <1>5, <1>6, <1>7, <1>8, <1>9, <1>10, <1>11 DEF Work

LEMMA ProcessPermitted ==
  ASSUME TypeOK, \A q \in Replica : Permitted(pc[q], job[q]),
         NEW r \in Replica, Process(r) \/ Crash(r) \/ StepDown(r) \/ Fail(r)
  PROVE  \A q \in Replica : Permitted(pc'[q], job'[q])
  <1>1. Permitted(pc'[r], job'[r])
    <2>1. CASE Work(r)
      BY <2>1, WorkPermitted
    <2>2. CASE Roll(r) \/ Crash(r) \/ Fail(r)
      BY <2>2, ReturnPermitted DEF Roll, Crash, Restart, Fail
    <2>3. CASE Observe(r) \/ Elect(r) \/ StepDown(r)
      BY <2>3 DEF Observe, Elect, StepDown
    <2> QED
      BY <2>1, <2>2, <2>3 DEF Process
  <1> QED
    BY <1>1, OwnLocals

\* Only Patch puts a copy where there was none, and the chart stays as it is.
LEMMA ProcessConfined ==
  ASSUME TypeOK, ConfinedInv,
         NEW r \in Replica, Process(r) \/ Crash(r) \/ StepDown(r) \/ Fail(r)
  PROVE  CopiesConfined'
  <1> USE DEF CopiesConfined, Holds
  <1>1. ASSUME UNCHANGED <<secret, chart>>
        PROVE  CopiesConfined'
    BY <1>1 DEF ConfinedInv
  <1>2. ASSUME Delete(r), ~Refused(r)
        PROVE  CopiesConfined'
    BY <1>2 DEF Delete, SetSecret, NoSecret, ConfinedInv, TypeOK
  <1>3. ASSUME Patch(r), ~Refused(r)
        PROVE  CopiesConfined'
    <2>1. job[r].cur \in chart.write \ Protected
      BY <1>3 DEF Patch, CanPatch, ConfinedInv, Permitted
    <2> QED
      BY <1>3, <2>1 DEF Patch, SetSecret, ConfinedInv, TypeOK
  <1>4. ASSUME Refused(r)
        PROVE  CopiesConfined'
    BY <1>1, <1>4 DEF Refused, clusterVars
  <1>5. ASSUME Work(r), ~Delete(r), ~Patch(r)
        PROVE  CopiesConfined'
    BY <1>1, <1>4, <1>5 DEF Work, Dispatch, AddFinalizer, RemoveFinalizer, ReadSource,
         ResolveTargetsOf, Plan, StartCleanup, PlanCleanup, DeferLoop, EndLoop,
         GetForDelete, GetForWrite, RecordSynced, Probe, NextDelete, NextWrite, Refused,
         clusterVars
  <1>6. ASSUME ~Work(r)
        PROVE  CopiesConfined'
    BY <1>1, <1>6 DEF Process, Observe, Elect, Roll, Restart, Crash, StepDown, Fail,
         clusterVars
  <1> QED
    BY <1>2, <1>3, <1>4, <1>5, <1>6

LEMMA EnvironmentConfined ==
  ASSUME TypeOK, ConfinedInv, Environment,
         \A r \in Replica : ~(Crash(r) \/ StepDown(r) \/ Fail(r))
  PROVE  ConfinedInv'
  <1>1. \A r \in Replica : Permitted(pc'[r], job'[r])
    BY DEF Environment, UserCreates, UserEdits, UserDeletes, StatusLost, SourceChanges,
         LabelChanges, SecretPlanted, SecretRemoved, Enrol, Decommission, Retire,
         replicaVars, ConfinedInv
  <1>2. CopiesConfined'
    <2> USE DEF ConfinedInv, CopiesConfined, Holds
    <2>1. ASSUME \/ UserCreates \/ UserEdits \/ UserDeletes \/ StatusLost
                 \/ \E v \in Value \cup {NoValue} : SourceChanges(v)
                 \/ \E ns \in Namespace : LabelChanges(ns)
          PROVE  CopiesConfined'
      BY <2>1 DEF UserCreates, UserEdits, UserDeletes, StatusLost, SourceChanges,
           LabelChanges
    <2>2. ASSUME NEW ns \in Namespace, SecretPlanted(ns) \/ SecretRemoved(ns)
          PROVE  CopiesConfined'
      BY <2>2 DEF SecretPlanted, SecretRemoved, SetSecret, Foreign, NoSecret, TypeOK
    <2>3. ASSUME NEW ns \in Namespace, Enrol(ns) \/ Decommission(ns) \/ Retire(ns)
          PROVE  CopiesConfined'
      BY <2>3 DEF Enrol, Decommission, Retire, TypeOK, ConfType
    <2> QED
      BY <2>1, <2>2, <2>3 DEF Environment
  <1> QED
    BY <1>1, <1>2 DEF ConfinedInv

\* Copies stay where RBAC lets the operator reclaim them and out of protected
\* namespaces, whatever the administrator edits, however old the sets of a pod
\* are, and however many replicas believe they lead.
THEOREM CopiesStayConfined == Spec => []CopiesConfined
  <1>1. Init => ConfinedInv
    BY DEF Init, ConfinedInv, CopiesConfined, Holds, NoSecret, Permitted, Idle, Job
  <1>2. TypeOK /\ ConfinedInv /\ [Next]_vars => ConfinedInv'
    <2> SUFFICES ASSUME TypeOK, ConfinedInv, [Next]_vars
                 PROVE  ConfinedInv'
      OBVIOUS
    <2>1. CASE UNCHANGED vars
      BY <2>1 DEF vars, clusterVars, ConfinedInv, CopiesConfined, Holds
    <2>2. ASSUME NEW r \in Replica, Process(r) \/ Crash(r) \/ StepDown(r) \/ Fail(r)
          PROVE  ConfinedInv'
      BY <2>2, ProcessPermitted, ProcessConfined DEF ConfinedInv
    <2>3. CASE Environment
      BY <2>2, <2>3, EnvironmentConfined
    <2> QED
      BY <2>1, <2>2, <2>3 DEF Next
  <1>3. ConfinedInv => CopiesConfined
    BY DEF ConfinedInv
  <1> QED
    BY <1>1, <1>2, <1>3, TypeCorrect, PTL DEF Spec

---------------------------------------------------------------------------
(* DeletesOnlyOwn rests on what the delete preconditions carry over from   *)
(* the get: while they would still be accepted, the secret is the one that *)
(* was verified.                                                           *)

VerifiedInv ==
  \A r \in Replica :
    r \in intact /\ pc[r] = "delete"
      => /\ job[r].cur \in Namespace
         /\ IsOwnedCopy(secret[job[r].cur], job[r].uid)

\* A secret whose preconditions still hold after a change is not the changed one.
LEMMA StillIntactKept ==
  ASSUME TypeOK, NEW ns, NEW s, SetSecret(ns, s),
         NEW q \in StillIntact(ns, s), job[q].cur \in Namespace
  PROVE  secret'[job[q].cur] = secret[job[q].cur] /\ q \in intact
  BY DEF TypeOK, SetSecret, StillIntact

\* Steps that keep every verified secret, and verify nothing new.
LEMMA FrameVerified ==
  ASSUME VerifiedInv, UNCHANGED secret, intact' \subseteq intact,
         \A q \in Replica : pc'[q] = "delete" => pc[q] = "delete" /\ job'[q] = job[q]
  PROVE  VerifiedInv'
  BY DEF VerifiedInv

LEMMA ReturnVerified ==
  ASSUME TypeOK, VerifiedInv, NEW r \in Replica, Return(r), UNCHANGED secret
  PROVE  VerifiedInv'
  <1>1. \A q \in Replica : pc'[q] = "delete" => pc[q] = "delete" /\ job'[q] = job[q]
    BY DEF TypeOK, Return, Goto, Update
  <1> QED
    BY <1>1, FrameVerified DEF Return

LEMMA WorkVerified ==
  ASSUME TypeOK, VerifiedInv, NEW r \in Replica, Work(r)
  PROVE  VerifiedInv'
  <1>1. \A q \in Replica \ {r} : pc'[q] = pc[q] /\ job'[q] = job[q]
    BY OwnLocals DEF Process
  <1>2. CASE Return(r) /\ UNCHANGED secret
    BY <1>2, ReturnVerified
  <1>3. CASE pc'[r] # "delete" /\ UNCHANGED <<secret, intact>>
    BY <1>1, <1>3, FrameVerified
  <1>4. ASSUME GetForDelete(r), pc'[r] = "delete"
        PROVE  VerifiedInv'
    <2>1. CanReclaim(job[r].cur) /\ IsOwnedCopy(secret[job[r].cur], job[r].uid)
      BY <1>4 DEF GetForDelete, Refused, Return, Goto, NextElement, TypeOK
    <2>2. job[r].cur \in Namespace
      BY <2>1 DEF CanReclaim, TypeOK, ConfType
    <2>3. UNCHANGED <<job, secret>> /\ intact' = intact \cup {r}
      BY <1>4 DEF GetForDelete, Refused, Return, Goto, NextElement, TypeOK, clusterVars
    <2> QED
      BY <1>1, <2>1, <2>2, <2>3 DEF VerifiedInv, IsOwnedCopy
  <1>5. ASSUME NEW ns, NEW s, SetSecret(ns, s), intact' \subseteq StillIntact(ns, s),
               pc'[r] # "delete"
        PROVE  VerifiedInv'
    <2> SUFFICES ASSUME NEW q \in Replica, q \in intact', pc'[q] = "delete"
                 PROVE  /\ job'[q].cur \in Namespace
                        /\ IsOwnedCopy(secret'[job'[q].cur], job'[q].uid)
      BY DEF VerifiedInv, IsOwnedCopy
    <2>1. q # r /\ pc[q] = "delete" /\ job'[q] = job[q]
      BY <1>1, <1>5
    <2>2. q \in intact
      BY <1>5 DEF StillIntact
    <2>3. job[q].cur \in Namespace /\ IsOwnedCopy(secret[job[q].cur], job[q].uid)
      BY <2>1, <2>2 DEF VerifiedInv
    <2>4. secret'[job[q].cur] = secret[job[q].cur]
      BY <1>5, <2>3, StillIntactKept
    <2> QED
      BY <2>1, <2>3, <2>4
  <1>6. ASSUME Delete(r) \/ Patch(r)
        PROVE  VerifiedInv'
    <2>1. CASE Refused(r)
      BY <1>2, <2>1 DEF Refused, clusterVars
    <2>2. ASSUME ~Refused(r)
          PROVE  \E ns, s : SetSecret(ns, s) /\ intact' \subseteq StillIntact(ns, s)
      BY <1>6, <2>2 DEF Delete, Patch
    <2>3. ASSUME ~Refused(r)
          PROVE  pc'[r] # "delete"
      BY <1>6, <2>3, AtSelf DEF Delete, Patch
    <2> QED
      BY <1>5, <2>1, <2>2, <2>3
  <1>7. ASSUME GetForDelete(r), pc'[r] # "delete"
        PROVE  VerifiedInv'
    BY <1>2, <1>3, <1>7 DEF GetForDelete, Refused, clusterVars, Goto, TypeOK
  <1>8. ASSUME \/ Dispatch(r) \/ ResolveTargetsOf(r) \/ StartCleanup(r)
               \/ PlanCleanup(r) \/ EndLoop(r)
               \/ \E ns \in Namespace : NextDelete(r, ns) \/ NextWrite(r, ns)
        PROVE  VerifiedInv'
    BY <1>3, <1>8, AtSelf
       DEF Dispatch, DispatchApply, DispatchCleanup, DispatchNew, ResolveTargetsOf,
           StartCleanup, PlanCleanup, EndLoop, NextDelete, NextWrite, clusterVars
  <1>9. ASSUME \/ AddFinalizer(r) \/ RemoveFinalizer(r) \/ DeferLoop(r)
               \/ RecordSynced(r)
        PROVE  VerifiedInv'
    BY <1>2, <1>9 DEF AddFinalizer, RemoveFinalizer, DeferLoop, RecordSynced, Refused,
                      clusterVars
  <1>10. ASSUME ReadSource(r) \/ Plan(r) \/ GetForWrite(r)
         PROVE  VerifiedInv'
    BY <1>2, <1>3, <1>10, AtSelf
       DEF ReadSource, Plan, GetForWrite, Refused, clusterVars
  <1>11. ASSUME NEW ns \in Namespace, Probe(r, ns)
         PROVE  VerifiedInv'
    BY <1>2, <1>3, <1>11 DEF Probe, Refused, clusterVars
  <1> QED
    BY <1>4, <1>6, <1>7, <1>8, <1>9, <1>10, <1>11 DEF Work

LEMMA NextVerified ==
  ASSUME TypeOK, VerifiedInv, [Next]_vars
  PROVE  VerifiedInv'
  <1>1. ASSUME UNCHANGED <<secret, pc, job>>, intact' \subseteq intact
        PROVE  VerifiedInv'
    BY <1>1, FrameVerified
  <1>2. ASSUME NEW r \in Replica, Process(r) \/ Crash(r) \/ StepDown(r) \/ Fail(r)
        PROVE  VerifiedInv'
    <2>1. CASE Work(r)
      BY <2>1, WorkVerified
    <2>2. CASE Roll(r) \/ Crash(r) \/ Fail(r)
      BY <2>2, ReturnVerified DEF Roll, Crash, Restart, Fail, clusterVars
    <2>3. CASE Observe(r) \/ Elect(r) \/ StepDown(r)
      BY <1>1, <2>3 DEF Observe, Elect, StepDown, clusterVars
    <2> QED
      BY <1>2, <2>1, <2>2, <2>3 DEF Process
  <1>3. ASSUME NEW ns \in Namespace, SecretPlanted(ns) \/ SecretRemoved(ns)
        PROVE  VerifiedInv'
    <2>1. \E s : SetSecret(ns, s) /\ intact' = StillIntact(ns, s)
      BY <1>3 DEF SecretPlanted, SecretRemoved
    <2>2. UNCHANGED <<pc, job>>
      BY <1>3 DEF SecretPlanted, SecretRemoved, replicaVars
    <2>3. ASSUME NEW q \in Replica, q \in intact', pc[q] = "delete"
          PROVE  /\ job[q].cur \in Namespace
                 /\ IsOwnedCopy(secret'[job[q].cur], job[q].uid)
      <3>1. q \in intact
        BY <2>1, <2>3 DEF StillIntact
      <3>2. job[q].cur \in Namespace /\ IsOwnedCopy(secret[job[q].cur], job[q].uid)
        BY <2>3, <3>1 DEF VerifiedInv
      <3> QED
        BY <2>1, <2>3, <3>2, StillIntactKept
    <2> QED
      BY <2>2, <2>3 DEF VerifiedInv, IsOwnedCopy
  <1>4. CASE UNCHANGED vars
    BY <1>1, <1>4 DEF vars, clusterVars
  <1>5. CASE Environment
    BY <1>1, <1>2, <1>3, <1>5
       DEF Environment, UserCreates, UserEdits, UserDeletes, StatusLost, SourceChanges,
           LabelChanges, Enrol, Decommission, Retire, replicaVars
  <1> QED
    BY <1>2, <1>4, <1>5 DEF Next

\* In such a state, only Delete removes a secret, and only its own copy.
LEMMA StepDeletesOwn ==
  ASSUME TypeOK, VerifiedInv, [Next]_vars, NEW ns \in Namespace,
         spent' = spent, secret[ns] # NoSecret, secret'[ns] = NoSecret
  PROVE  \E r \in Replica : pc[r] = "delete" /\ job[r].cur = ns
                            /\ IsOwnedCopy(secret[ns], job[r].uid)
  <1>1. ~ UNCHANGED secret
    OBVIOUS
  <1>2. ~ Environment
    BY DEF Environment, UserCreates, UserEdits, UserDeletes, StatusLost, SourceChanges,
           LabelChanges, SecretPlanted, SecretRemoved, Enrol, Decommission, Retire,
           Crash, StepDown, Fail, Happens, TypeOK
  <1>3. PICK r \in Replica : Process(r)
    BY <1>1, <1>2 DEF Next, vars, clusterVars
  <1>4. (Delete(r) \/ Patch(r)) /\ ~Refused(r)
    BY <1>1, <1>3 DEF Process, Observe, Elect, Roll, Restart, Work, Dispatch,
         AddFinalizer, RemoveFinalizer, ReadSource, ResolveTargetsOf, Plan, StartCleanup,
         PlanCleanup, DeferLoop, EndLoop, GetForDelete, GetForWrite, RecordSynced, Probe,
         NextDelete, NextWrite, Refused, clusterVars
  <1>5. CASE Patch(r)
    BY <1>4, <1>5 DEF Patch, SetSecret, Copy, NoSecret, Refused, TypeOK
  <1>6. CASE Delete(r)
    <2>1. pc[r] = "delete" /\ r \in intact /\ SetSecret(job[r].cur, NoSecret)
      BY <1>4, <1>6 DEF Delete, DeleteAccepted
    <2>2. job[r].cur = ns
      BY <2>1 DEF SetSecret, TypeOK
    <2> QED
      BY <2>1, <2>2 DEF VerifiedInv
  <1> QED
    BY <1>4, <1>5, <1>6

\* The operator removes only its own copies, with any number of replicas
\* reconciling at once and anybody replacing secrets between its requests.
THEOREM OnlyOwnDeleted == Spec => DeletesOnlyOwn
  <1>1. Init => VerifiedInv
    BY DEF Init, VerifiedInv
  <1>2. TypeOK /\ VerifiedInv /\ [Next]_vars => VerifiedInv'
    BY NextVerified
  <1>3. TypeOK /\ VerifiedInv /\ [Next]_vars
          => [\A ns \in Namespace :
                spent' = spent /\ secret[ns] # NoSecret /\ secret'[ns] = NoSecret
                  => \E r \in Replica : pc[r] = "delete" /\ job[r].cur = ns
                                        /\ IsOwnedCopy(secret[ns], job[r].uid)]_vars
    BY StepDeletesOwn
  <1> QED
    BY <1>1, <1>2, <1>3, TypeCorrect, PTL DEF Spec, DeletesOnlyOwn

=============================================================================
