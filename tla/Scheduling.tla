----------------------------- MODULE Scheduling -----------------------------
(***************************************************************************)
(* When a Whisper is reconciled: kube's Controller as run() of             *)
(* src/src/controller.rs sets it up, around the dispatcher of one process. *)
(*                                                                         *)
(* Whispers and the source secrets of the operator's namespace are         *)
(* watched; a changed secret is mapped through the reflector store to the  *)
(* Whispers that reference it.  Nothing watches the namespaces: a change   *)
(* of consent is found by the requeue of every return.  Reconciles of      *)
(* different Whispers share a few slots.                                   *)
(*                                                                         *)
(* What a reconcile does is Reconcile's subject; here it succeeds for what *)
(* it has read, fails, or is turned away.  Delays are kept by their order  *)
(* only: "soon" is 5 to 30 seconds, "slow" is 600.                         *)
(***************************************************************************)
EXTENDS Naturals, FiniteSets

CONSTANTS
  Whisper,   \* names of Whispers
  Source,    \* names of source secrets
  Slots,     \* reconciles at once
  Events,    \* kinds of environment events that may happen
  MaxEvents  \* bound: how many of them happen

Kinds == {"spec", "source", "consent", "create", "delete",
          "stepDown", "fail", "crash", "signal"}

ASSUME SchedulingAssumption ==
  /\ Slots \in Nat \ {0}
  /\ Events \subseteq Kinds
  /\ MaxEvents \in Nat

VARIABLES
  whisper,   \* the Whispers at the API server: phase, and the source they name
  missing,   \* source secrets that do not exist
  outdated,  \* Whispers whose copies are not what the cluster asks for, and why
  store,     \* the Whispers in the reflector store
  unseen,    \* Whispers with a change their watch has yet to deliver
  rumours,   \* source secrets with a change their watch has yet to deliver
  due,       \* per Whisper, when the scheduler will hand it out
  job,       \* per Whisper, the reconcile under way
  fresh,     \* which inputs of a reconcile under way have not changed since
  leader,    \* LeaderState reads Leading
  stopping,  \* the shutdown signal has come
  spent      \* environment events so far

clusterVars == <<whisper, missing, outdated>>
watchVars == <<store, unseen, rumours>>
runVars == <<due, job, fresh>>
vars == <<clusterVars, watchVars, runVars, leader, stopping, spent>>

Object == [phase : {"absent", "live", "deleting"}, fin : BOOLEAN, source : Source]
Created(s) == [phase |-> "live", fin |-> FALSE, source |-> s]
Delays == {"never", "slow", "soon", "now"}

\* Causes: the Whisper or its source, which are watched; or a namespace's consent.
Cause == {"watched", "consent"}

\* Type invariant; only what is reconciled is reconciled from fresh inputs, in
\* no more than the slots there are.
TypeOK ==
  /\ whisper \in [Whisper -> Object] /\ store \in [Whisper -> Object]
  /\ missing \in SUBSET Source /\ rumours \in SUBSET Source
  /\ outdated \in SUBSET (Whisper \X Cause)
  /\ unseen \in SUBSET Whisper
  /\ due \in [Whisper -> Delays]
  /\ job \in [Whisper -> {"none", "protect", "apply", "cleanup"}]
  /\ fresh \in SUBSET ({w \in Whisper : job[w] # "none"} \X Cause)
  /\ Cardinality({w \in Whisper : job[w] # "none"}) <= Slots
  /\ leader \in BOOLEAN /\ stopping \in BOOLEAN
  /\ spent \in Nat /\ spent <= MaxEvents

Exists(w) == whisper[w].phase # "absent"
Referring(s) == {w \in Whisper : Exists(w) /\ whisper[w].source = s}

\* A process that starts knows nothing; its first list reports every Whisper.
Listed(objects) == {w \in Whisper : objects[w].phase # "absent"}
Forgotten(objects) == [w \in Whisper |-> [objects[w] EXCEPT !.phase = "absent"]]
Idle(value) == [w \in Whisper |-> value]

Init ==
  /\ \E named \in [Whisper -> Source] : whisper = [w \in Whisper |-> Created(named[w])]
  /\ missing = {} /\ outdated = Whisper \X Cause
  /\ store = Forgotten(whisper) /\ unseen = Listed(whisper) /\ rumours = {}
  /\ due = Idle("never") /\ job = Idle("none") /\ fresh = {}
  /\ leader = FALSE /\ stopping = FALSE
  /\ spent = 0

NewProcess ==
  /\ store' = Forgotten(whisper) /\ unseen' = Listed(whisper) /\ rumours' = {}
  /\ due' = Idle("never") /\ job' = Idle("none") /\ fresh' = {}
  /\ leader' = FALSE /\ stopping' = FALSE
  /\ UNCHANGED clusterVars

---------------------------------------------------------------------------
(* The scheduler: one entry per object, the earliest request wins.         *)

Rank(delay) == CASE delay = "now" -> 0 [] delay = "soon" -> 1
                 [] delay = "slow" -> 2 [] delay = "never" -> 3
Earlier(d, e) == IF Rank(d) <= Rank(e) THEN d ELSE e

\* Every object of ws is requested after the delay.
Requested(ws, delay) ==
  due' = [w \in Whisper |-> IF w \in ws THEN Earlier(due[w], delay) ELSE due[w]]

\* Time passes until the request for w is due.
TimerFires(w) ==
  /\ due[w] \in {"soon", "slow"}
  /\ due' = [due EXCEPT ![w] = "now"]
  /\ UNCHANGED <<clusterVars, watchVars, job, fresh, leader, stopping, spent>>

---------------------------------------------------------------------------
(* The watches.                                                            *)

\* A deleted Whisper leaves the store and is not requested.
DeliverWhisper(w) ==
  /\ w \in unseen
  /\ unseen' = unseen \ {w}
  /\ store' = [store EXCEPT ![w] = whisper[w]]
  /\ Requested(IF Exists(w) THEN {w} ELSE {}, "now")
  /\ UNCHANGED <<clusterVars, rumours, job, fresh, leader, stopping, spent>>

\* Mutant: one secret, one Whisper.
Mapped_One(s) ==
  LET all == {w \in Whisper : store[w].phase # "absent" /\ store[w].source = s}
  IN IF all = {} THEN {} ELSE {CHOOSE w \in all : TRUE}

\* The mapper: the Whispers of the store, maybe behind, that name the secret.
Mapped(s) == {w \in Whisper : store[w].phase # "absent" /\ store[w].source = s}

DeliverSource(s) ==
  /\ s \in rumours
  /\ rumours' = rumours \ {s}
  /\ Requested(Mapped(s), "now")
  /\ UNCHANGED <<clusterVars, store, unseen, job, fresh, leader, stopping, spent>>

---------------------------------------------------------------------------
(* Reconciles.                                                             *)

Running == {w \in Whisper : job[w] # "none"}

\* Mutant: the number of reconciles at once is left unlimited.
Taken_Unlimited(w) == due[w] = "now" /\ job[w] = "none" /\ ~stopping

\* A request leaves the scheduler: no second reconcile of one object, no more
\* than Slots at once, none after the signal.
Taken(w) ==
  /\ due[w] = "now" /\ job[w] = "none"
  /\ Cardinality(Running) < Slots
  /\ ~stopping

\* The object is not in the store any more: "object already deleted".
NotFound(w) ==
  /\ Taken(w) /\ store[w].phase = "absent"
  /\ due' = [due EXCEPT ![w] = "never"]
  /\ UNCHANGED <<clusterVars, watchVars, job, fresh, leader, stopping, spent>>

\* Mutant: a replica that does not lead waits for the next change.
TurnedAway_AwaitChange == "never"

\* The delay of the dispatcher's return when it does not lead.
TurnedAway == "soon"

Follow(w) ==
  /\ Taken(w) /\ store[w].phase # "absent" /\ ~leader
  /\ due' = [due EXCEPT ![w] = TurnedAway]
  /\ UNCHANGED <<clusterVars, watchVars, job, fresh, leader, stopping, spent>>

\* What finalizer() makes of the object in the store.
Called(object) ==
  IF object.phase = "deleting" THEN "cleanup"
  ELSE IF object.fin THEN "apply" ELSE "protect"

Start(w) ==
  /\ Taken(w) /\ store[w].phase # "absent" /\ leader
  /\ due' = [due EXCEPT ![w] = "never"]
  /\ job' = [job EXCEPT ![w] = Called(store[w])]
  /\ fresh' = fresh \cup ({w} \X (IF w \in unseen THEN {"consent"} ELSE Cause))
  /\ UNCHANGED <<clusterVars, watchVars, leader, stopping, spent>>

\* The reconcile of w returns and asks to be run again after the delay.
Returns(w, delay) ==
  /\ job' = [job EXCEPT ![w] = "none"]
  /\ fresh' = fresh \ ({w} \X Cause)
  /\ Requested({w}, delay)

\* The finalizer is added, and nothing else: the watch will report the change. An
\* object that has moved on since refuses the patch.
ProtectReturns(w) ==
  /\ job[w] = "protect"
  /\ IF whisper[w].phase = "live" /\ ~whisper[w].fin
       THEN /\ whisper' = [whisper EXCEPT ![w].fin = TRUE]
            /\ unseen' = unseen \cup {w}
            /\ Returns(w, "never")
       ELSE Returns(w, "soon") /\ UNCHANGED <<whisper, unseen>>
  /\ UNCHANGED <<missing, outdated, store, rumours, leader, stopping, spent>>

\* The delay of a successful apply.
Synced == "slow"

\* The copies are what was read.
ApplySucceeds(w) ==
  /\ job[w] = "apply"
  /\ <<w, "watched">> \in fresh => whisper[w].source \notin missing
  /\ outdated' = outdated \ (fresh \cap ({w} \X Cause))
  /\ Returns(w, Synced)
  /\ UNCHANGED <<whisper, missing, watchVars, leader, stopping, spent>>

\* "not found; will retry"
ApplyFindsNoSource(w) ==
  /\ job[w] = "apply"
  /\ <<w, "watched">> \in fresh => whisper[w].source \in missing
  /\ Returns(w, "soon")
  /\ UNCHANGED <<clusterVars, watchVars, leader, stopping, spent>>

\* A check in its course finds that leadership is lost.
ApplyDefers(w) ==
  /\ job[w] = "apply" /\ ~leader
  /\ Returns(w, "soon")
  /\ UNCHANGED <<clusterVars, watchVars, leader, stopping, spent>>

\* Without its finalizer a Whisper that is being deleted is gone; a live one stays.
Released(object) ==
  [object EXCEPT !.fin = FALSE,
                 !.phase = IF @ = "deleting" THEN "absent" ELSE @]

\* cleanup returns Ok, the finalizer is removed, and the Whisper that waits for it
\* goes. Like the patch that adds it, this one goes by name: it finds the finalizer
\* on the object that is there by now, or fails. (What a deferred cleanup leaves
\* behind is Reconcile's subject.)
CleanupReturns(w) ==
  /\ job[w] = "cleanup"
  /\ IF whisper[w].fin
       THEN /\ whisper' = [whisper EXCEPT ![w] = Released(@)]
            /\ unseen' = unseen \cup {w}
            /\ \/ Returns(w, "never")
               \/ ~leader /\ Returns(w, "soon")
       ELSE Returns(w, "soon") /\ UNCHANGED <<whisper, unseen>>
  /\ UNCHANGED <<missing, outdated, store, rumours, leader, stopping, spent>>

---------------------------------------------------------------------------
(* The process.                                                            *)

Elect ==
  /\ ~leader
  /\ leader' = TRUE
  /\ UNCHANGED <<clusterVars, watchVars, runVars, stopping, spent>>

\* The last reconcile has returned: run() goes on to lock.retire(), the process
\* ends, and the Deployment starts another.
Retire ==
  /\ stopping /\ Running = {}
  /\ NewProcess
  /\ UNCHANGED spent

---------------------------------------------------------------------------
(* The environment.                                                        *)

Happens(kind) ==
  /\ kind \in Events
  /\ spent < MaxEvents
  /\ spent' = spent + 1

\* The Whispers of ws are outdated from now on, those being reconciled included.
Outdate(ws, cause) ==
  /\ outdated' = outdated \cup (ws \X {cause})
  /\ fresh' = fresh \ (ws \X {cause})

WhisperChanges(w, object) ==
  /\ whisper' = [whisper EXCEPT ![w] = object]
  /\ Outdate({w}, "watched")
  /\ unseen' = unseen \cup {w}
  /\ UNCHANGED <<missing, store, rumours, due, job, leader, stopping>>

\* Another source, or other namespaces.
UserEdits(w) ==
  /\ Happens("spec") /\ whisper[w].phase = "live"
  /\ \E s \in Source : WhisperChanges(w, [whisper[w] EXCEPT !.source = s])

UserCreates(w) ==
  /\ Happens("create") /\ ~Exists(w)
  /\ \E s \in Source : WhisperChanges(w, Created(s))

UserDeletes(w) ==
  /\ Happens("delete") /\ whisper[w].phase = "live"
  /\ WhisperChanges(w, [whisper[w] EXCEPT
                          !.phase = IF whisper[w].fin THEN "deleting" ELSE "absent"])

\* A source secret is written, created or deleted.
SourceChanges(s) ==
  /\ Happens("source")
  /\ missing' \in {missing \ {s}, missing \cup {s}}
  /\ Outdate(Referring(s), "watched")
  /\ rumours' = rumours \cup {s}
  /\ UNCHANGED <<whisper, store, unseen, due, job, leader, stopping>>

\* A namespace opts in or out: no watch tells.
ConsentChanges ==
  /\ Happens("consent")
  /\ Outdate({w \in Whisper : Exists(w)}, "consent")
  /\ UNCHANGED <<whisper, missing, watchVars, due, job, leader, stopping>>

StepDown ==
  /\ Happens("stepDown") /\ leader
  /\ leader' = FALSE
  /\ UNCHANGED <<clusterVars, watchVars, runVars, stopping>>

\* A call of the reconcile fails: error, the error policy.
Fail(w) ==
  /\ Happens("fail") /\ job[w] # "none"
  /\ Returns(w, "soon")
  /\ UNCHANGED <<clusterVars, watchVars, leader, stopping>>

Crash == Happens("crash") /\ NewProcess

Signal ==
  /\ Happens("signal") /\ ~stopping
  /\ stopping' = TRUE
  /\ UNCHANGED <<clusterVars, watchVars, runVars, leader>>

Environment ==
  \/ \E w \in Whisper : UserEdits(w) \/ UserCreates(w) \/ UserDeletes(w) \/ Fail(w)
  \/ \E s \in Source : SourceChanges(s)
  \/ ConsentChanges \/ StepDown \/ Crash \/ Signal

Leave(w) ==
  \/ ProtectReturns(w) \/ ApplySucceeds(w) \/ ApplyFindsNoSource(w) \/ ApplyDefers(w) \/ CleanupReturns(w)
HandOut(w) == NotFound(w) \/ Follow(w) \/ Start(w)

Next ==
  \/ Environment \/ Elect \/ Retire
  \/ \E s \in Source : DeliverSource(s)
  \/ \E w \in Whisper : TimerFires(w) \/ DeliverWhisper(w) \/ HandOut(w) \/ Leave(w)

\* Watches deliver, time passes, calls are answered, the election settles. The
\* slots go round: that no Whisper waits for ever while others take them is
\* an assumption about kube, which gives a free slot to any that waits.
Fairness ==
  /\ WF_vars(Elect) /\ WF_vars(Retire)
  /\ \A s \in Source : WF_vars(DeliverSource(s))
  /\ \A w \in Whisper :
       /\ WF_vars(TimerFires(w)) /\ WF_vars(DeliverWhisper(w)) /\ WF_vars(Leave(w))
       /\ SF_vars(HandOut(w))

Spec == Init /\ [][Next]_vars
FairSpec == Spec /\ Fairness

---------------------------------------------------------------------------
(* Properties.                                                             *)

\* A watched change never has to wait for the ten-minute requeue: until it is
\* reconciled it is on its way, or due soon, or being read; neither a secret
\* mapped through a store that is behind, nor a change in the middle of a
\* reconcile, nor a process that ends loses it (the mapper, requeues).
NoLostChange ==
  \A w \in Whisper : Exists(w) /\ <<w, "watched">> \in outdated =>
    \/ w \in unseen \/ whisper[w].source \in rumours
    \/ due[w] \in {"soon", "now"}
    \/ <<w, "watched">> \in fresh

\* Every Whisper is reconciled after the last change, those that no watch reports
\* included, unless its source is missing ("a synced secret could silently never
\* appear", dispatcher).
Progress ==
  <>[](\A w \in Whisper, cause \in Cause :
         Exists(w) /\ <<w, cause>> \in outdated => whisper[w].source \in missing)
=============================================================================
