-------------------------- MODULE SchedulingProofs --------------------------
(***************************************************************************)
(* What holds of Scheduling for any number of Whispers, source secrets and *)
(* slots, and any sequence of changes, failures and restarts.              *)
(***************************************************************************)
EXTENDS Scheduling, FiniteSetTheorems, TLAPS

\* The slots taken are finitely many, and no more than there are.
SlotsInv == IsFiniteSet(Running) /\ Cardinality(Running) <= Slots

\* TypeOK without the slots.
Types ==
  /\ whisper \in [Whisper -> Object] /\ store \in [Whisper -> Object]
  /\ missing \in SUBSET Source /\ rumours \in SUBSET Source
  /\ outdated \in SUBSET (Whisper \X Cause)
  /\ unseen \in SUBSET Whisper
  /\ due \in [Whisper -> Delays]
  /\ job \in [Whisper -> {"none", "protect", "apply", "cleanup"}]
  /\ fresh \in SUBSET (Running \X Cause)
  /\ leader \in BOOLEAN /\ stopping \in BOOLEAN
  /\ spent \in Nat /\ spent <= MaxEvents

LEMMA TypesAndSlots == TypeOK <=> Types /\ Cardinality(Running) <= Slots
  BY DEF TypeOK, Types, Running

LEMMA EarlierType ==
  ASSUME NEW d \in Delays, NEW e \in Delays
  PROVE  /\ Earlier(d, e) \in {d, e}
         /\ Earlier(d, "now") = "now"
         /\ Earlier(d, "soon") \in {"soon", "now"}
         /\ d \in {"soon", "now"} => Earlier(d, e) \in {"soon", "now"}
  BY DEF Earlier, Rank, Delays

\* What a request does to the entries of the scheduler.
LEMMA RequestedDue ==
  ASSUME due \in [Whisper -> Delays], NEW ws \in SUBSET Whisper, NEW e \in Delays,
         Requested(ws, e)
  PROVE  /\ due' \in [Whisper -> Delays]
         /\ \A w \in Whisper : due[w] \in {"soon", "now"} => due'[w] \in {"soon", "now"}
         /\ \A w \in ws : e \in {"soon", "now"} => due'[w] \in {"soon", "now"}
  <1>1. \A w \in Whisper : due'[w] = IF w \in ws THEN Earlier(due[w], e) ELSE due[w]
    BY DEF Requested
  <1>2. \A w \in Whisper : due[w] \in Delays
    OBVIOUS
  <1> QED
    BY <1>1, <1>2, EarlierType DEF Requested, Delays

---------------------------------------------------------------------------
(* Types.                                                                  *)

LEMMA InitTypes == Init => Types /\ SlotsInv
  <1> SUFFICES ASSUME Init PROVE Types /\ SlotsInv
    OBVIOUS
  <1>1. Running = {}
    BY DEF Init, Running, Idle
  <1>2. SlotsInv
    BY <1>1, FS_EmptySet, SchedulingAssumption DEF SlotsInv
  <1>3. whisper \in [Whisper -> Object]
    BY DEF Init, Created, Object
  <1>4. store \in [Whisper -> Object]
    BY <1>3 DEF Init, Forgotten, Object
  <1>5. due \in [Whisper -> Delays] /\ job \in [Whisper -> {"none", "protect", "apply", "cleanup"}]
    BY DEF Init, Idle, Delays
  <1>6. unseen \in SUBSET Whisper /\ outdated \in SUBSET (Whisper \X Cause)
    BY DEF Init, Listed
  <1>7. fresh \in SUBSET (Running \X Cause) /\ missing \in SUBSET Source /\ rumours \in SUBSET Source
    BY DEF Init
  <1>8. leader \in BOOLEAN /\ stopping \in BOOLEAN
    BY DEF Init
  <1>9. spent \in Nat /\ spent <= MaxEvents
    BY SchedulingAssumption DEF Init
  <1> QED
    BY <1>2, <1>3, <1>4, <1>5, <1>6, <1>7, <1>8, <1>9 DEF Types

\* The reconcile of w takes a slot, or gives it back.
LEMMA SlotTaken ==
  ASSUME Types, SlotsInv, NEW w \in Whisper, Taken(w),
         NEW j \in {"protect", "apply", "cleanup"}, job' = [job EXCEPT ![w] = j]
  PROVE  SlotsInv' /\ Running' = Running \cup {w}
  <1>1. Running' = Running \cup {w} /\ w \notin Running
    BY DEF Types, Running, Taken
  <1>2. IsFiniteSet(Running \cup {w}) /\ Cardinality(Running \cup {w}) = Cardinality(Running) + 1
    BY <1>1, FS_AddElement DEF SlotsInv
  <1>3. Cardinality(Running) \in Nat
    BY FS_CardinalityType DEF SlotsInv
  <1> QED
    BY <1>1, <1>2, <1>3, SchedulingAssumption DEF Taken, SlotsInv

LEMMA SlotReturned ==
  ASSUME Types, SlotsInv, NEW w \in Whisper, job' = [job EXCEPT ![w] = "none"]
  PROVE  SlotsInv' /\ Running' = Running \ {w}
  <1>1. Running' = Running \ {w}
    BY DEF Types, Running
  <1>2. IsFiniteSet(Running \ {w}) /\ Cardinality(Running \ {w}) <= Cardinality(Running)
    BY FS_Subset DEF SlotsInv
  <1>3. Cardinality(Running) \in Nat /\ Cardinality(Running \ {w}) \in Nat
    BY <1>2, FS_CardinalityType DEF SlotsInv
  <1> QED
    BY <1>1, <1>2, <1>3, SchedulingAssumption DEF SlotsInv

LEMMA SlotsKept ==
  ASSUME SlotsInv, UNCHANGED job
  PROVE  SlotsInv' /\ Running' = Running
  BY DEF SlotsInv, Running

\* What every return leaves behind.
LEMMA ReturnsTypes ==
  ASSUME Types, SlotsInv, NEW w \in Whisper, NEW e \in Delays, Returns(w, e)
  PROVE  /\ SlotsInv'
         /\ due' \in [Whisper -> Delays]
         /\ job' \in [Whisper -> {"none", "protect", "apply", "cleanup"}]
         /\ fresh' \in SUBSET (Running' \X Cause)
  <1>1. SlotsInv' /\ Running' = Running \ {w}
    BY SlotReturned DEF Returns
  <1>2. due' \in [Whisper -> Delays]
    BY RequestedDue DEF Returns, Types
  <1> QED
    BY <1>1, <1>2 DEF Returns, Types

LEMMA NewProcessTypes ==
  ASSUME Types, NewProcess, spent' \in Nat, spent' <= MaxEvents
  PROVE  Types' /\ SlotsInv'
  <1>1. Running' = {}
    BY DEF NewProcess, Idle, Running
  <1>2. SlotsInv'
    BY <1>1, FS_EmptySet, SchedulingAssumption DEF SlotsInv
  <1>3. store' \in [Whisper -> Object]
    BY DEF NewProcess, Types, Forgotten, Object
  <1> QED
    BY <1>1, <1>2, <1>3 DEF NewProcess, Types, Idle, Delays, Listed, clusterVars

LEMMA WatchTypes ==
  ASSUME Types, SlotsInv,
         \/ \E s \in Source : DeliverSource(s)
         \/ \E w \in Whisper : DeliverWhisper(w) \/ TimerFires(w)
  PROVE  Types' /\ SlotsInv'
  <1>1. SlotsInv' /\ Running' = Running
    BY SlotsKept DEF DeliverSource, DeliverWhisper, TimerFires
  <1>2. ASSUME NEW s \in Source, DeliverSource(s) PROVE Types'
    <2>1. due' \in [Whisper -> Delays]
      BY <1>2, RequestedDue DEF DeliverSource, Mapped, Types, Delays
    <2> QED
      BY <1>1, <1>2, <2>1 DEF DeliverSource, Types, clusterVars
  <1>3. ASSUME NEW w \in Whisper, DeliverWhisper(w) PROVE Types'
    <2>1. due' \in [Whisper -> Delays]
      BY <1>3, RequestedDue DEF DeliverWhisper, Types, Delays
    <2>2. store' \in [Whisper -> Object]
      BY <1>3 DEF DeliverWhisper, Types
    <2> QED
      BY <1>1, <1>3, <2>1, <2>2 DEF DeliverWhisper, Types, clusterVars
  <1>4. ASSUME NEW w \in Whisper, TimerFires(w) PROVE Types'
    BY <1>1, <1>4 DEF TimerFires, Types, Delays, clusterVars, watchVars
  <1> QED
    BY <1>1, <1>2, <1>3, <1>4

LEMMA HandOutTypes ==
  ASSUME Types, SlotsInv, NEW w \in Whisper, HandOut(w)
  PROVE  Types' /\ SlotsInv'
  <1>1. CASE NotFound(w) \/ Follow(w)
    <2>1. SlotsInv' /\ Running' = Running
      BY <1>1, SlotsKept DEF NotFound, Follow
    <2> QED
      BY <1>1, <2>1 DEF NotFound, Follow, TurnedAway, Types, Delays, clusterVars, watchVars
  <1>2. CASE Start(w)
    <2>1. Called(store[w]) \in {"protect", "apply", "cleanup"}
      BY DEF Called
    <2>2. SlotsInv' /\ Running' = Running \cup {w}
      BY <1>2, <2>1, SlotTaken DEF Start
    <2>3. fresh' \in SUBSET (Running' \X Cause)
      BY <1>2, <2>2 DEF Start, Types, Cause
    <2> QED
      BY <1>2, <2>1, <2>2, <2>3 DEF Start, Types, Delays, clusterVars, watchVars
  <1> QED
    BY <1>1, <1>2 DEF HandOut

LEMMA LeaveTypes ==
  ASSUME Types, SlotsInv, NEW w \in Whisper, Leave(w)
  PROVE  Types' /\ SlotsInv'
  <1>1. PICK e \in Delays : Returns(w, e)
    BY DEF Leave, ProtectReturns, ApplySucceeds, ApplyFindsNoSource, ApplyDefers,
         CleanupReturns, Synced, Delays
  <1>2. /\ SlotsInv'
        /\ due' \in [Whisper -> Delays]
        /\ job' \in [Whisper -> {"none", "protect", "apply", "cleanup"}]
        /\ fresh' \in SUBSET (Running' \X Cause)
    BY <1>1, ReturnsTypes
  <1>3. whisper' \in [Whisper -> Object] /\ unseen' \in SUBSET Whisper
    <2>1. CASE ProtectReturns(w)
      <3>1. [whisper[w] EXCEPT !.fin = TRUE] \in Object
        <4>1. ASSUME NEW o \in Object PROVE [o EXCEPT !.fin = TRUE] \in Object
          BY DEF Object
        <4> QED
          BY <4>1 DEF Types
      <3>2. whisper' \in {whisper, [whisper EXCEPT ![w] = [whisper[w] EXCEPT !.fin = TRUE]]}
        BY <2>1 DEF ProtectReturns
      <3> QED
        BY <2>1, <3>1, <3>2 DEF ProtectReturns, Types
    <2>2. CASE CleanupReturns(w)
      <3>1. Released(whisper[w]) \in Object
        <4>1. ASSUME NEW o \in Object PROVE Released(o) \in Object
          BY DEF Released, Object
        <4> QED
          BY <4>1 DEF Types
      <3>2. whisper' \in {whisper, [whisper EXCEPT ![w] = Released(whisper[w])]}
        BY <2>2 DEF CleanupReturns
      <3> QED
        BY <2>2, <3>1, <3>2 DEF CleanupReturns, Types
    <2>3. CASE ApplySucceeds(w) \/ ApplyFindsNoSource(w) \/ ApplyDefers(w)
      BY <2>3 DEF ApplySucceeds, ApplyFindsNoSource, ApplyDefers, Types, clusterVars, watchVars
    <2> QED
      BY <2>1, <2>2, <2>3 DEF Leave
  <1> QED
    BY <1>2, <1>3 DEF Leave, ProtectReturns, ApplySucceeds, ApplyFindsNoSource,
         ApplyDefers, CleanupReturns, Types, clusterVars, watchVars

LEMMA EnvironmentTypes ==
  ASSUME Types, SlotsInv, Environment
  PROVE  Types' /\ SlotsInv'
  <1>1. spent' \in Nat /\ spent' <= MaxEvents
    <2>1. \E kind \in Events : Happens(kind)
      BY DEF Environment, Happens, UserEdits, UserCreates, UserDeletes, Fail,
             SourceChanges, ConsentChanges, StepDown, Crash, Signal
    <2> QED
      BY <2>1, SchedulingAssumption DEF Types, Happens
  <1>2. ASSUME NEW w \in Whisper, UserEdits(w) \/ UserCreates(w) \/ UserDeletes(w)
        PROVE  Types' /\ SlotsInv'
    <2>1. PICK object \in Object : WhisperChanges(w, object)
      BY <1>2 DEF UserEdits, UserCreates, UserDeletes, Types, Object, Created
    <2>2. SlotsInv' /\ Running' = Running
      BY <2>1, SlotsKept DEF WhisperChanges
    <2>3. whisper' \in [Whisper -> Object] /\ outdated' \in SUBSET (Whisper \X Cause)
      BY <2>1 DEF WhisperChanges, Outdate, Types, Cause
    <2> QED
      BY <1>1, <2>1, <2>2, <2>3 DEF WhisperChanges, Outdate, Types
  <1>3. ASSUME NEW w \in Whisper, Fail(w) PROVE Types' /\ SlotsInv'
    <2>1. "soon" \in Delays
      BY DEF Delays
    <2> QED
      BY <1>1, <1>3, <2>1, ReturnsTypes DEF Fail, Types, clusterVars, watchVars
  <1>4. ASSUME NEW s \in Source, SourceChanges(s) PROVE Types' /\ SlotsInv'
    <2>1. SlotsInv' /\ Running' = Running
      BY <1>4, SlotsKept DEF SourceChanges
    <2>2. outdated' \in SUBSET (Whisper \X Cause) /\ missing' \in SUBSET Source
      BY <1>4 DEF SourceChanges, Outdate, Referring, Types, Cause
    <2> QED
      BY <1>1, <1>4, <2>1, <2>2 DEF SourceChanges, Outdate, Types
  <1>5. CASE ConsentChanges
    <2>1. SlotsInv' /\ Running' = Running
      BY <1>5, SlotsKept DEF ConsentChanges
    <2>2. outdated' \in SUBSET (Whisper \X Cause)
      BY <1>5 DEF ConsentChanges, Outdate, Types, Cause
    <2> QED
      BY <1>1, <1>5, <2>1, <2>2 DEF ConsentChanges, Outdate, Types, watchVars
  <1>6. CASE StepDown \/ Signal
    <2>1. SlotsInv' /\ Running' = Running
      BY <1>6, SlotsKept DEF StepDown, Signal, runVars
    <2> QED
      BY <1>1, <1>6, <2>1 DEF StepDown, Signal, Types, clusterVars, watchVars, runVars
  <1>7. CASE Crash
    BY <1>1, <1>7, NewProcessTypes DEF Crash
  <1> QED
    BY <1>2, <1>3, <1>4, <1>5, <1>6, <1>7 DEF Environment

LEMMA NextTypes == Types /\ SlotsInv /\ [Next]_vars => Types' /\ SlotsInv'
  <1> SUFFICES ASSUME Types, SlotsInv, [Next]_vars PROVE Types' /\ SlotsInv'
    OBVIOUS
  <1>1. CASE Elect \/ UNCHANGED vars
    <2>1. SlotsInv' /\ Running' = Running
      BY <1>1, SlotsKept DEF Elect, vars, runVars
    <2> QED
      BY <1>1, <2>1 DEF Elect, vars, Types, clusterVars, watchVars, runVars
  <1>2. CASE Retire
    BY <1>2, NewProcessTypes DEF Retire, Types
  <1> QED
    BY <1>1, <1>2, WatchTypes, HandOutTypes, LeaveTypes, EnvironmentTypes DEF Next

LEMMA TypesHold == Spec => [](Types /\ SlotsInv)
  BY InitTypes, NextTypes, PTL DEF Spec

\* Every instance keeps its types, and takes no more slots than there are.
THEOREM TypeCorrect == Spec => []TypeOK
  <1>1. Types /\ SlotsInv => TypeOK
    BY TypesAndSlots DEF SlotsInv
  <1> QED
    BY <1>1, TypesHold, PTL

---------------------------------------------------------------------------
(* No change is lost.                                                      *)

\* The store is behind only where the watch has something left to deliver.
StoreInv == \A w \in Whisper : w \notin unseen => store[w] = whisper[w]

\* A watched change to w that is not reconciled yet has a way to a reconcile.
OnItsWay(w) ==
  Exists(w) /\ <<w, "watched">> \in outdated =>
    \/ w \in unseen \/ whisper[w].source \in rumours
    \/ due[w] \in {"soon", "now"}
    \/ <<w, "watched">> \in fresh

NoLossInv == StoreInv /\ \A w \in Whisper : OnItsWay(w)

LEMMA InitNoLoss == Init => NoLossInv
  <1> SUFFICES ASSUME Init PROVE NoLossInv
    OBVIOUS
  <1>1. \A w \in Whisper : Exists(w)
    BY DEF Init, Exists, Created
  <1> QED
    BY <1>1 DEF Init, NoLossInv, StoreInv, OnItsWay, Listed, Exists

\* A process that starts lists every Whisper there is.
LEMMA NewProcessNoLoss ==
  ASSUME Types, NewProcess
  PROVE  NoLossInv'
  <1>1. \A w \in Whisper : w \in unseen' \/ whisper[w].phase = "absent"
    BY DEF NewProcess, Listed
  <1>2. \A w \in Whisper : whisper[w].phase = "absent" => store'[w] = whisper[w]
    BY DEF NewProcess, Forgotten, Types, Object
  <1> QED
    BY <1>1, <1>2 DEF NewProcess, clusterVars, NoLossInv, StoreInv, OnItsWay, Exists

LEMMA WatchNoLoss ==
  ASSUME Types, NoLossInv,
         \/ \E s \in Source : DeliverSource(s)
         \/ \E w \in Whisper : DeliverWhisper(w) \/ TimerFires(w)
  PROVE  NoLossInv'
  <1>1. due \in [Whisper -> Delays] /\ "now" \in Delays
    BY DEF Types, Delays
  <1>2. ASSUME NEW s \in Source, DeliverSource(s) PROVE NoLossInv'
    <2>1. /\ \A w \in Whisper : due[w] \in {"soon", "now"} => due'[w] \in {"soon", "now"}
          /\ \A w \in Mapped(s) : due'[w] \in {"soon", "now"}
      BY <1>1, <1>2, RequestedDue DEF DeliverSource, Mapped
    <2>2. \A w \in Whisper : Exists(w) /\ w \notin unseen /\ whisper[w].source = s
                               => w \in Mapped(s)
      BY DEF NoLossInv, StoreInv, Exists, Mapped
    <2> QED
      BY <1>2, <2>1, <2>2 DEF DeliverSource, NoLossInv, StoreInv, OnItsWay, Exists, clusterVars
  <1>3. ASSUME NEW v \in Whisper, DeliverWhisper(v) PROVE NoLossInv'
    <2>1. /\ \A w \in Whisper : due[w] \in {"soon", "now"} => due'[w] \in {"soon", "now"}
          /\ Exists(v) => due'[v] \in {"soon", "now"}
      BY <1>1, <1>3, RequestedDue DEF DeliverWhisper
    <2>2. StoreInv'
      BY <1>3 DEF DeliverWhisper, NoLossInv, StoreInv, Types, clusterVars
    <2> QED
      BY <1>3, <2>1, <2>2 DEF DeliverWhisper, NoLossInv, OnItsWay, Exists, clusterVars
  <1>4. ASSUME NEW v \in Whisper, TimerFires(v) PROVE NoLossInv'
    BY <1>1, <1>4 DEF TimerFires, NoLossInv, StoreInv, OnItsWay, Exists, clusterVars, watchVars
  <1> QED
    BY <1>2, <1>3, <1>4

LEMMA HandOutNoLoss ==
  ASSUME Types, NoLossInv, NEW v \in Whisper, HandOut(v)
  PROVE  NoLossInv'
  <1>1. due \in [Whisper -> Delays]
    BY DEF Types
  <1>2. CASE NotFound(v)
    <2>1. v \in unseen \/ ~Exists(v)
      BY <1>2 DEF NotFound, NoLossInv, StoreInv, Exists
    <2> QED
      BY <1>1, <1>2, <2>1 DEF NotFound, NoLossInv, StoreInv, OnItsWay, Exists, clusterVars, watchVars
  <1>3. CASE Follow(v)
    BY <1>1, <1>3 DEF Follow, TurnedAway, NoLossInv, StoreInv, OnItsWay, Exists, clusterVars, watchVars
  <1>4. CASE Start(v)
    <2>1. v \in unseen \/ <<v, "watched">> \in fresh'
      BY <1>4 DEF Start, Cause
    <2>2. fresh \subseteq fresh'
      BY <1>4 DEF Start
    <2> QED
      BY <1>1, <1>4, <2>1, <2>2 DEF Start, NoLossInv, StoreInv, OnItsWay, Exists, clusterVars, watchVars
  <1> QED
    BY <1>2, <1>3, <1>4 DEF HandOut

\* Others are left alone by a return of v, and requests only get earlier.
LEMMA ReturnsNoLoss ==
  ASSUME Types, NoLossInv, NEW v \in Whisper, NEW e \in Delays, Returns(v, e)
  PROVE  /\ \A w \in Whisper : due[w] \in {"soon", "now"} => due'[w] \in {"soon", "now"}
         /\ e = "soon" => due'[v] \in {"soon", "now"}
         /\ \A w \in Whisper : w # v /\ <<w, "watched">> \in fresh => <<w, "watched">> \in fresh'
  BY RequestedDue DEF Returns, Types

LEMMA LeaveNoLoss ==
  ASSUME Types, NoLossInv, NEW v \in Whisper, Leave(v)
  PROVE  NoLossInv'
  <1>1. {"never", "slow", "soon"} \subseteq Delays
    BY DEF Delays
  <1>2. CASE ProtectReturns(v)
    <2>1. PICK e \in {"never", "soon"} :
            /\ Returns(v, e)
            /\ e = "soon" => UNCHANGED <<whisper, unseen>>
            /\ e = "never" => unseen' = unseen \cup {v}
      BY <1>2 DEF ProtectReturns
    <2>2. \A w \in Whisper : w # v => whisper'[w] = whisper[w]
      BY <1>2 DEF ProtectReturns, Types
    <2> QED
      BY <1>1, <1>2, <2>1, <2>2, ReturnsNoLoss
         DEF ProtectReturns, NoLossInv, StoreInv, OnItsWay, Exists
  <1>3. CASE ApplySucceeds(v)
    <2>1. Returns(v, "slow")
      BY <1>3 DEF ApplySucceeds, Synced
    <2>2. <<v, "watched">> \in fresh => <<v, "watched">> \notin outdated'
      BY <1>3 DEF ApplySucceeds, Cause
    <2>3. outdated' \subseteq outdated
      BY <1>3 DEF ApplySucceeds
    <2> QED
      BY <1>1, <1>3, <2>1, <2>2, <2>3, ReturnsNoLoss
         DEF ApplySucceeds, NoLossInv, StoreInv, OnItsWay, Exists, watchVars
  <1>4. CASE ApplyFindsNoSource(v) \/ ApplyDefers(v)
    <2>1. Returns(v, "soon")
      BY <1>4 DEF ApplyFindsNoSource, ApplyDefers
    <2> QED
      BY <1>1, <1>4, <2>1, ReturnsNoLoss
         DEF ApplyFindsNoSource, ApplyDefers, NoLossInv, StoreInv, OnItsWay, Exists, clusterVars, watchVars
  <1>5. CASE CleanupReturns(v)
    <2>1. PICK e \in {"never", "soon"} :
            /\ Returns(v, e)
            /\ \/ e = "soon" /\ UNCHANGED <<whisper, unseen>>
               \/ unseen' = unseen \cup {v}
      BY <1>5 DEF CleanupReturns
    <2>2. \A w \in Whisper : w # v => whisper'[w] = whisper[w]
      BY <1>5 DEF CleanupReturns, Types
    <2> QED
      BY <1>1, <1>5, <2>1, <2>2, ReturnsNoLoss
         DEF CleanupReturns, NoLossInv, StoreInv, OnItsWay, Exists
  <1> QED
    BY <1>2, <1>3, <1>4, <1>5 DEF Leave

LEMMA EnvironmentNoLoss ==
  ASSUME Types, NoLossInv, Environment
  PROVE  NoLossInv'
  <1>1. ASSUME NEW v \in Whisper, UserEdits(v) \/ UserCreates(v) \/ UserDeletes(v)
        PROVE  NoLossInv'
    <2>1. PICK object : WhisperChanges(v, object)
      BY <1>1 DEF UserEdits, UserCreates, UserDeletes
    <2>2. v \in unseen' /\ unseen \subseteq unseen'
      BY <2>1 DEF WhisperChanges
    <2>3. \A w \in Whisper : w # v =>
            /\ whisper'[w] = whisper[w]
            /\ <<w, "watched">> \in outdated' => <<w, "watched">> \in outdated
            /\ <<w, "watched">> \in fresh => <<w, "watched">> \in fresh'
      BY <2>1 DEF WhisperChanges, Outdate, Types
    <2> QED
      BY <2>1, <2>2, <2>3 DEF WhisperChanges, NoLossInv, StoreInv, OnItsWay, Exists
  <1>2. ASSUME NEW v \in Whisper, Fail(v) PROVE NoLossInv'
    <2>1. "soon" \in Delays
      BY DEF Delays
    <2> QED
      BY <1>2, <2>1, ReturnsNoLoss
         DEF Fail, NoLossInv, StoreInv, OnItsWay, Exists, clusterVars, watchVars
  <1>3. ASSUME NEW s \in Source, SourceChanges(s) PROVE NoLossInv'
    <2>1. \A w \in Whisper : Exists(w) /\ whisper[w].source # s =>
            /\ <<w, "watched">> \in outdated' => <<w, "watched">> \in outdated
            /\ <<w, "watched">> \in fresh => <<w, "watched">> \in fresh'
      BY <1>3 DEF SourceChanges, Outdate, Referring
    <2> QED
      BY <1>3, <2>1 DEF SourceChanges, NoLossInv, StoreInv, OnItsWay, Exists
  <1>4. CASE ConsentChanges
    <2>1. \A w \in Whisper :
            /\ <<w, "watched">> \in outdated' => <<w, "watched">> \in outdated
            /\ <<w, "watched">> \in fresh => <<w, "watched">> \in fresh'
      BY <1>4 DEF ConsentChanges, Outdate
    <2> QED
      BY <1>4, <2>1 DEF ConsentChanges, NoLossInv, StoreInv, OnItsWay, Exists, watchVars
  <1>5. CASE StepDown \/ Signal
    BY <1>5 DEF StepDown, Signal, NoLossInv, StoreInv, OnItsWay, Exists, clusterVars, watchVars, runVars
  <1>6. CASE Crash
    BY <1>6, NewProcessNoLoss DEF Crash
  <1> QED
    BY <1>1, <1>2, <1>3, <1>4, <1>5, <1>6 DEF Environment

LEMMA NextNoLoss == Types /\ NoLossInv /\ [Next]_vars => NoLossInv'
  <1> SUFFICES ASSUME Types, NoLossInv, [Next]_vars PROVE NoLossInv'
    OBVIOUS
  <1>1. CASE Elect \/ UNCHANGED vars
    BY <1>1 DEF Elect, vars, NoLossInv, StoreInv, OnItsWay, Exists, clusterVars, watchVars, runVars
  <1>2. CASE Retire
    BY <1>2, NewProcessNoLoss DEF Retire
  <1> QED
    BY <1>1, <1>2, WatchNoLoss, HandOutNoLoss, LeaveNoLoss, EnvironmentNoLoss DEF Next

\* However watches lag, reconciles fail or processes end, a change of a Whisper or
\* of its source never has to wait for the ten-minute requeue.
THEOREM ChangesAreNotLost == Spec => []NoLostChange
  <1>1. NoLossInv => NoLostChange
    BY DEF NoLossInv, OnItsWay, NoLostChange
  <1> QED
    BY <1>1, InitNoLoss, NextNoLoss, TypesHold, PTL DEF Spec
=============================================================================
