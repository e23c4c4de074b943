------------------------------ MODULE Election ------------------------------
(***************************************************************************)
(* The leader election of src/src/election.rs: every replica runs one task *)
(* that renews, watches and acquires a coordination.k8s.io Lease and       *)
(* publishes Leading, Following or Standby to the reconciler.              *)
(*                                                                         *)
(* Time is discrete, one tick a second.  `age` is the time since the       *)
(* renewTime of the lease was stamped, `timer` the time a replica has      *)
(* spent in its present await.  Clocks may disagree by MaxSkew.            *)
(*                                                                         *)
(* A replica stands for its running process: identity() draws a nonce, so  *)
(* once the process ends nobody bears its name any more, and the lease it  *)
(* leaves behind is held by Ghost.                                         *)
(***************************************************************************)
EXTENDS Integers, FiniteSets

CONSTANTS
  Replica,
  NoOne,      \* "no holder": an absent holderIdentity
  Ghost,      \* the identity of a process that has ended
  LeaseTime, RenewTime, Grace, Backoff,  \* the constants of election.rs
  ShortTime,  \* the duration a retiring leader leaves on its lease
  CallLimit,  \* the API server answers within this many ticks...
  MaxSkew,    \* how far two clocks disagree
  Timely,     \* ...if TRUE; the code itself sets no timeout on its calls
  Faults,     \* kinds of faults that may happen
  MaxFaults   \* bound: how many of them happen

Kinds == {"error", "crash", "retire", "deleteLease", "clearHolder"}

ASSUME ElectionAssumption ==
  /\ NoOne \notin Replica /\ Ghost \notin Replica /\ NoOne # Ghost
  /\ LeaseTime \in Nat \ {0} /\ RenewTime \in Nat \ {0}
  /\ Grace \in Nat /\ Backoff \in Nat /\ ShortTime \in Nat
  /\ CallLimit \in Nat /\ MaxSkew \in Nat
  /\ Timely \in BOOLEAN
  /\ Faults \subseteq Kinds
  /\ MaxFaults \in Nat

VARIABLES
  lease,    \* the Lease at the API server: does it exist, whose, for how long
  age,      \* ticks since its renewTime was stamped, at most AgeCap
  state,    \* per replica, the published State
  owner,    \* per replica, the holder its owner_changed watch last acted on
  phase,    \* per replica, where its task is
  timer,    \* per replica, ticks spent there, at most AgeCap
  method,   \* per replica, the kind of write acquire has under way
  current,  \* replicas whose read of the lease still has its resourceVersion
  faults,   \* faults so far
  tampered  \* history: somebody but the replicas has changed the lease

leaseVars == <<lease, age, current>>
replicaVars == <<state, owner, phase, timer, method>>
vars == <<leaseVars, replicaVars, faults, tampered>>

\* Beyond this age a lease is expired for every clock: older is not told apart.
AgeCap == LeaseTime + Grace + MaxSkew + 1
Capped(n) == IF n < AgeCap THEN n ELSE AgeCap

States  == {"Leading", "Following", "Standby"}
Calls   == {"get", "put", "ack"}       \* ack: the write is served, not answered
Retiring == {"retireGet", "retirePatch"}
Phases  == {"down", "select", "backoff"} \cup Calls \cup Retiring
Holders == Replica \cup {NoOne, Ghost}

\* Type invariant.
TypeOK ==
  /\ lease \in [exists : BOOLEAN, holder : Holders, term : {LeaseTime, ShortTime}]
  /\ age \in 0 .. AgeCap
  /\ state \in [Replica -> States]
  /\ owner \in [Replica -> Holders]
  /\ phase \in [Replica -> Phases]
  /\ timer \in [Replica -> 0 .. AgeCap]
  /\ method \in [Replica -> {"create", "replace"}]
  /\ current \in SUBSET Replica
  /\ faults \in Nat /\ faults <= MaxFaults
  /\ tampered \in BOOLEAN

NoLease == [exists |-> FALSE, holder |-> NoOne, term |-> LeaseTime]

\* Mutant: the grace of the followers is written into the lease as well.
HeldBy_WithGrace(holder) ==
  [exists |-> TRUE, holder |-> holder, term |-> LeaseTime + Grace]

\* The Lease that acquire writes.
HeldBy(holder) == [exists |-> TRUE, holder |-> holder, term |-> LeaseTime]

Init ==
  /\ lease = NoLease /\ age = 0
  /\ state = [r \in Replica |-> "Standby"]
  /\ owner = [r \in Replica |-> NoOne]
  /\ phase = [r \in Replica |-> "select"]
  /\ timer = [r \in Replica |-> 0]
  /\ method = [r \in Replica |-> "create"]
  /\ current = {}
  /\ faults = 0
  /\ tampered = FALSE

---------------------------------------------------------------------------
(* Moves of one replica's task.                                            *)

Enter(r, label) ==
  /\ phase' = [phase EXCEPT ![r] = label]
  /\ timer' = [timer EXCEPT ![r] = 0]

\* transition: publish, then start the next round of select!.
Publish(r, s) ==
  /\ state' = [state EXCEPT ![r] = s]
  /\ Enter(r, "select")
  /\ UNCHANGED method

\* acquire: renewTime is stamped now, so the timer of the call is its age.
Acquire(r, how) ==
  /\ Enter(r, "put")
  /\ method' = [method EXCEPT ![r] = how]
  /\ UNCHANGED state

\* Mutant: a leader that cannot renew goes on leading.
FailSafe_KeepLeading(s) == s

\* fail_safe
FailSafe(s) == IF s = "Leading" THEN "Standby" ELSE s

\* A failed operation: step down at once, back off afterwards.
Fails(r) ==
  /\ state' = [state EXCEPT ![r] = FailSafe(@)]
  /\ Enter(r, "backoff")
  /\ UNCHANGED method

---------------------------------------------------------------------------
(* The branches of select!.                                                *)

HolderSeen == IF lease.exists THEN lease.holder ELSE NoOne

\* deleted: acquire without a lease to replace.
Deleted(r) ==
  /\ phase[r] = "select" /\ ~lease.exists
  /\ Acquire(r, "create")
  /\ UNCHANGED <<leaseVars, owner, faults>>

\* owner_changed, then new_owner. A lease held by this replica is trusted
\* whatever its age; a lease without holder is created, not replaced.
OwnerChanged(r) ==
  /\ phase[r] = "select" /\ HolderSeen # owner[r]
  /\ owner' = [owner EXCEPT ![r] = HolderSeen]
  /\ \/ HolderSeen = NoOne /\ Acquire(r, "create")
     \/ HolderSeen = r /\ Publish(r, "Leading")
     \/ HolderSeen \notin {NoOne, r} /\ Publish(r, "Following")
  /\ UNCHANGED <<leaseVars, faults>>

\* timer: renew starts with a get.
TimerFires(r) ==
  /\ phase[r] = "select" /\ timer[r] >= RenewTime
  /\ Enter(r, "get")
  /\ UNCHANGED <<leaseVars, state, owner, method, faults>>

---------------------------------------------------------------------------
(* renew                                                                   *)

\* Mutant: no grace on top of the lease's duration.
Expired_NoGrace(skew) == age + skew > lease.term

\* renewTime + duration + GRACE < now, on a clock that is off by skew.
Expired(skew) == age + skew > lease.term + Grace

\* Mutant: another replica's lease is never taken over.
MustFollow_Forever(r, skew) == lease.holder \notin {NoOne, r}

\* What renew makes of the lease the get returns.
MustFollow(r, skew) ==
  /\ lease.holder \notin {NoOne, r}
  /\ state[r] = "Following" => ~Expired(skew)

GetServed(r) ==
  /\ phase[r] = "get"
  /\ \/ /\ ~lease.exists
        /\ Acquire(r, "create")
        /\ UNCHANGED current
     \/ /\ lease.exists
        /\ \E skew \in -MaxSkew .. MaxSkew :
             IF MustFollow(r, skew)
               THEN Publish(r, "Following") /\ UNCHANGED current
               ELSE Acquire(r, "replace") /\ current' = current \cup {r}
  /\ UNCHANGED <<lease, age, owner, faults>>

\* The API server refuses to create what exists, and to replace another version.
Accepted(r) ==
  IF method[r] = "create" THEN ~lease.exists ELSE lease.exists /\ r \in current

\* A served write voids every read of the lease so far.
Take(holder, stamped) ==
  /\ lease' = HeldBy(holder)
  /\ age' = stamped
  /\ current' = {}

PutServed(r) ==
  /\ phase[r] = "put"
  /\ IF Accepted(r)
       THEN /\ Take(r, timer[r])
            /\ phase' = [phase EXCEPT ![r] = "ack"]
            /\ UNCHANGED <<state, timer, method>>
       ELSE /\ Fails(r)
            /\ current' = current \ {r}
            /\ UNCHANGED <<lease, age>>
  /\ UNCHANGED <<owner, faults>>

\* The answer: only now does the replica lead.
Ack(r) ==
  /\ phase[r] = "ack"
  /\ Publish(r, "Leading")
  /\ UNCHANGED <<leaseVars, owner, faults>>

BackoffEnds(r) ==
  /\ phase[r] = "backoff" /\ timer[r] >= Backoff
  /\ Enter(r, "select")
  /\ UNCHANGED <<leaseVars, state, owner, method, faults>>

---------------------------------------------------------------------------
(* The end of a process.                                                   *)

\* Mutant: the identity is the pod's name alone, and outlives the process.
Buried_SameName(r, holder) == holder

\* The holder r is nobody from now on.
Buried(r, holder) == IF holder = r THEN Ghost ELSE holder

\* r's process ends and leaves the lease as l, stamped a ticks ago.
Ends(r, l, a, reads) ==
  /\ lease' = [l EXCEPT !.holder = Buried(r, @)]
  /\ age' = a
  /\ current' = reads \ {r}
  /\ state' = [state EXCEPT ![r] = "Standby"]
  /\ owner' = [q \in Replica |-> IF q = r THEN NoOne ELSE Buried(r, owner[q])]
  /\ method' = [method EXCEPT ![r] = "create"]
  /\ Enter(r, "down")

\* cancel_rx: only a replica that believes it leads has a lease to give up.
Retire(r) ==
  /\ "retire" \in Faults /\ faults < MaxFaults
  /\ phase[r] = "select"
  /\ faults' = faults + 1
  /\ IF state[r] = "Leading"
       THEN /\ Enter(r, "retireGet")
            /\ UNCHANGED <<leaseVars, state, owner, method>>
       ELSE Ends(r, lease, age, current)

\* Give up only a lease that is still ours; a failed get counts as not ours.
RetireGet(r) ==
  /\ phase[r] = "retireGet"
  /\ UNCHANGED faults
  /\ \/ /\ lease.exists /\ lease.holder = r
        /\ Enter(r, "retirePatch")
        /\ UNCHANGED <<leaseVars, state, owner, method>>
     \/ Ends(r, lease, age, current)

\* The patch bears no resourceVersion: it shortens whatever lease it meets.
\* It also bears no field manager, for which the API server may refuse it.
RetirePatch(r) ==
  /\ phase[r] = "retirePatch"
  /\ UNCHANGED faults
  /\ \/ lease.exists /\ Ends(r, [lease EXCEPT !.term = ShortTime], age, {})
     \/ Ends(r, lease, age, current)

\* The process dies anywhere; the write it had sent may still be served.
Crash(r) ==
  /\ "crash" \in Faults /\ faults < MaxFaults
  /\ phase[r] # "down"
  /\ faults' = faults + 1
  /\ \/ Ends(r, lease, age, current)
     \/ phase[r] = "put" /\ Accepted(r) /\ Ends(r, HeldBy(r), timer[r], {})

\* A new process: the first state is Standby, and no holder was seen.
Start(r) ==
  /\ phase[r] = "down"
  /\ Enter(r, "select")
  /\ UNCHANGED <<leaseVars, state, owner, method, faults>>

---------------------------------------------------------------------------
(* What the replicas do not control.                                       *)

\* A call of the task or one of its watches fails.
Error(r) ==
  /\ "error" \in Faults /\ faults < MaxFaults
  /\ phase[r] \in {"select"} \cup Calls
  /\ faults' = faults + 1
  /\ Fails(r)
  /\ current' = current \ {r}
  /\ UNCHANGED <<lease, age, owner>>

\* Somebody deletes the Lease, or clears its holder.
DeleteLease ==
  /\ "deleteLease" \in Faults /\ faults < MaxFaults
  /\ lease.exists
  /\ lease' = NoLease /\ current' = {}
  /\ faults' = faults + 1 /\ tampered' = TRUE
  /\ UNCHANGED <<age, replicaVars>>

ClearHolder ==
  /\ "clearHolder" \in Faults /\ faults < MaxFaults
  /\ lease.exists /\ lease.holder # NoOne
  /\ lease' = [lease EXCEPT !.holder = NoOne] /\ current' = {}
  /\ faults' = faults + 1 /\ tampered' = TRUE
  /\ UNCHANGED <<age, replicaVars>>

\* Either watch has something to report to r.
WatchPending(r) == ~lease.exists \/ HolderSeen # owner[r]

\* r has waited as long as it may where it is. A watch starts anew in every
\* round, with a list: that list is answered like any other call.
Due(r) ==
  \/ phase[r] = "select" /\ timer[r] >= CallLimit /\ WatchPending(r)
  \/ phase[r] = "select" /\ timer[r] >= RenewTime
  \/ phase[r] = "backoff" /\ timer[r] >= Backoff
  \/ phase[r] \in Calls \cup Retiring /\ timer[r] >= CallLimit

\* A second passes. If the system is timely, nobody is left waiting for it.
Tick ==
  /\ Timely => \A r \in Replica : ~Due(r)
  /\ age' = Capped(age + 1)
  /\ timer' = [r \in Replica |-> IF phase[r] = "down" THEN 0
                                                     ELSE Capped(timer[r] + 1)]
  /\ UNCHANGED <<lease, current, state, owner, phase, method, faults, tampered>>

---------------------------------------------------------------------------
Step(r) ==
  /\ UNCHANGED tampered
  /\ \/ Deleted(r) \/ OwnerChanged(r) \/ TimerFires(r)
     \/ GetServed(r) \/ PutServed(r) \/ Ack(r) \/ BackoffEnds(r)
     \/ RetireGet(r) \/ RetirePatch(r)
     \/ Start(r)

Fault ==
  \/ UNCHANGED tampered /\ \E r \in Replica : Retire(r) \/ Crash(r) \/ Error(r)
  \/ DeleteLease \/ ClearHolder

Next == Tick \/ (\E r \in Replica : Step(r)) \/ Fault

\* Time passes, tasks are polled, calls are answered and pods restarted.
Fairness == WF_vars(Tick) /\ \A r \in Replica : WF_vars(Step(r))

Spec == Init /\ [][Next]_vars
FairSpec == Spec /\ Fairness

---------------------------------------------------------------------------
(* Properties.                                                             *)

\* What is_leader tells a reconciler; run has ended it before it retires.
Leads(r) == state[r] = "Leading" /\ phase[r] \notin Retiring

\* Until somebody else changes the lease, a replica that tells its reconciler it
\* leads holds it: a leader that may have been replaced has already stepped down
\* (fail_safe, renew).
LeaseBacked ==
  tampered \/ \A r \in Replica : Leads(r) => lease.exists /\ lease.holder = r

\* Until then no two replicas reconcile at once: a lease never ages into the
\* window in which a follower takes it while its holder leads (GRACE, renew).
AtMostOneLeader ==
  tampered \/ \A p, q \in Replica : Leads(p) /\ Leads(q) => p = q

\* Once faults stop, one replica comes to lead and goes on leading: neither
\* a deleted lease, nor one without holder or held by a process that died,
\* nor the race for it, leaves the operator without leader.
StableLeader == \E r \in Replica : <>[]Leads(r)

\* Election implements the promise that the reconciler relies on: whoever is
\* told is_leader gained it when nobody else had it (Leadership).
Promise == INSTANCE Leadership
  WITH leaders <- {r \in Replica : Leads(r)}, trusted <- ~tampered
KeepsPromise == Promise!Spec
=============================================================================
