# Verification of whisperer

whisperer is a Kubernetes operator. A `Whisper` names a Secret in its own
namespace and a list of target namespaces; the operator keeps a copy of the
Secret in every target that consents, and removes the copies it no longer owes.
This directory holds TLA+ models of the operator, the TLC configurations that
check them, and TLAPS proofs about them. Paths such as `controller.rs` stand for
`src/src/controller.rs`.

## The system

| Component | Where | State it keeps | Operations |
|---|---|---|---|
| Reconciler | `controller.rs` `dispatcher`, `apply`, `cleanup`, `delete_copy`, `delete`, `record_synced` | locals of a reconcile; `status.syncedNamespaces` and the copies at the API server | read source, resolve, probe, delete loop, write loop, record; reclaim everything on deletion |
| Target resolution and plan | `controller.rs` `resolve`, `resolve_targets`, `plan` | none | set algebra |
| Orphan discovery | `controller.rs` `discover_copies` | none | one get per probed namespace |
| Finalizer | kube's `finalizer()`, called by `dispatcher` | the finalizer of the `Whisper` | add, apply, cleanup, remove |
| Leader election | `election.rs` | the Lease; per replica `State` and the last holder seen | acquire, renew, new owner, fail safe, retire |
| Scheduling | kube's `Controller`, set up by `run` | reflector store, delayed requests, slots | watch, map, hand out, requeue, shut down |
| Copy construction | `ext.rs`, `labels.rs`, the apply of `controller.rs` | the secret at the API server, field by field | strip, stamp, server-side apply |
| Whisper resource | `whisper.rs` | spec, status | schema |
| Configuration | `run`, `parse_namespaces`, chart values | write and drain sets of a process | read once, at start |
| RBAC | `chart/templates/rbac.yaml` | RoleBindings per namespace | enrol, drain, retire a namespace |
| Health, metrics, telemetry | `server.rs`, `metrics.rs`, `telemetry.rs` | counters | not modelled |

The election task of a replica publishes its `State` on a channel; the reconciler
reads it (`is_leader`) before it dispatches, before it plans, and before each
element of apply's loops. Everything else goes through the API server: replicas,
users and the administrator share the `Whisper`, the source, the copies, the
namespace labels, the RoleBindings and the Lease.

What is hard, and what each component has to guarantee:

- *Reconciler.* Every request is awaited, so leadership, the snapshot of the
  `Whisper`, the source, the listing and the verified secrets all go stale.
  A process may end between any two requests and any request may fail. Still, a
  copy must never outlive its `Whisper`, never be out of the operator's reach,
  and nobody else's secret may be deleted; in the end the copies agree with the
  spec, and a deletion gets through.
- *Election.* Calls are slow or unanswered, clocks disagree, watches fail, several
  followers see the same expired lease. Still, whoever believes it leads must hold
  the lease, so no two lead; and somebody comes to lead for good.
- *Scheduling.* Watches lag, changes arrive in the middle of a reconcile, a replica
  that does not lead turns every object away, processes end. Still, no change may be
  forgotten, and a change nobody watches (consent) must be found by a requeue.
- *Copy construction.* Tenants may create, edit, clone and delete what the operator
  writes, and two `Whisper`s of one name share a target. Still, what a tenant set must
  stay, only the operator's own objects may be deleted, and a copy must come to mirror
  its source.
- *Configuration and RBAC.* The chart changes while pods with the old one still
  reconcile.

`PROJECT.json` lists every hazard at its line with the properties that watch it.

## Modules

| Module | Content |
|---|---|
| `SyncPlan` | Pure operators: consent, confinement, probe set, plan. |
| `Lifecycle` | Abstract: what the operator promises about one `Whisper` name, its finalizer and its copies. |
| `Reconcile` | The reconciler, one `Whisper` name, any number of replicas, one step per awaited call, and the environment. Extends `SyncPlan`, implements `Lifecycle`. |
| `Leadership` | Abstract: how replicas gain and lose leadership. |
| `Election` | The election loop of every replica against the Lease, in discrete time. Implements `Leadership`. |
| `SecretCopy` | One secret and everybody who writes it, field by field. |
| `Scheduling` | When a `Whisper` is reconciled: watches, requests, slots, leadership, shutdown. |
| `ReconcileProofs`, `ElectionProofs`, `SecretCopyProofs`, `SchedulingProofs` | Theorems about these modules, with proofs. |
| `OrphanProofs` | Further theorems about `Reconcile`, for one replica leading at a time: no orphans, and the safety of `Lifecycle`. |
| `MCReconcile`, `MCElection`, `MCSecretCopy`, `MCScheduling` | Instances for TLC. |

Names ending in an underscore and a word (`Confine_Draining`) are mutants: wrong
variants of the definition that follows them, used to see that the properties
notice a plausible bug.

How the modules fit together:

- `Election` and `Reconcile` meet in `Leadership`. `Election` implements it (run `lease`,
  `KeepsPromise`; theorem `ImplementsLeadership`) with `leaders` the replicas whose `is_leader` answers yes and `trusted`
  as long as nobody else tampers with the Lease. `Reconcile` is written against it: with
  `Exclusive`, its `Elect` has the guard of `Gain`, and its other steps only lose leaders.
  The converse holds for a run only as far as its events go. `solo` and `failover` have no
  `stepDown`: there a replica loses leadership in mid-reconcile by a crash alone, which is
  less than `Leadership` allows. What it allows beyond that breaks the code (`deferred`,
  `late`); how much of it the code stands is the hypothesis `Orderly` of `OrphanProofs`.
- `Scheduling` is the reason for `Reconcile`'s weak fairness of `Work`: there a reconcile
  is one step, and `Progress` says that a `Whisper` is reconciled again as long as
  something is left to do.
- `SecretCopy` opens up one target namespace: `Reconcile` has a secret that is ours, or
  foreign, or absent; here it has fields with managers, the owner may be any `Whisper` of
  the name, and the apply merges or conflicts as the API server decides it.
- `Lifecycle` is what a user relies on: `Reconcile` implements it (`LivesAsPromised`),
  liveness of the deletion included; the theorem `LivesSafely` proves the safety part.

### Reconcile

`whisper`, `source`, `secret`, `labelled` and `chart` are objects at the API
server; `leader`, `store`, `conf`, `pc` and `job` belong to the replicas: what
`LeaderState` reads, the reflector's copy of the `Whisper`, the sets of the
process, and the await and the locals of its reconcile. `intact` holds the
replicas whose verified secret has not changed since, which is what the
preconditions of `delete` test; `spent` counts environment events.

A step of a replica is one request at the instant it is served, plus the code up
to the next await. The steps follow the code top to bottom: `Dispatch`,
`AddFinalizer`; then `ReadSource`, `ResolveTargetsOf`, `Probe`, `Plan` for apply or
`StartCleanup`, `Probe`, `PlanCleanup` for cleanup; then the loops `NextDelete`,
`GetForDelete`, `Delete`, `NextWrite`, `GetForWrite`, `Patch` (or `DeferLoop` when
leadership is gone); then `RecordSynced` or `RemoveFinalizer`. `Refused` is `?`
on a request RBAC or the server rejects. The elements of hash sets are taken in
any order. `Observe` is the watch, `Elect`, `StepDown` and `Restart` what the
election and the kubelet do, `Roll` the rollout of a changed chart.

`CanReclaim` and `CanPatch` are the RoleBindings. They follow `chart` at once, while
each process uses the sets in `conf` with which it started.

Data is abstracted to what the code tells apart: a copy is its owner uid and the
source value it carries; any other secret of that name is `Foreign`. A namespace
outside `labelled` stands for one that did not opt in as well as for one that
does not exist: neither is a target.

### Election

`lease` is the Lease, `age` the time since its `renewTime` was stamped, `state`,
`owner`, `phase`, `timer` and `method` the task of each replica, `current` the
replicas whose read still carries the server's `resourceVersion`, and `tampered` records
that somebody else deleted or edited the Lease. `Deleted`,
`OwnerChanged` and `TimerFires` are the branches of `select!`; `GetServed`,
`PutServed` and `Ack` the calls of `renew` and `acquire`, the write and its answer
apart, so that an answer can be lost; `Error` is `transition`'s failure path, with
the publication before the backoff; `Retire`, `RetireGet`, `RetirePatch` the
shutdown. The shutdown patch has no field manager; since the API server may refuse
such an apply, both outcomes are modelled.

The stamp of a write is taken before the call, so the lease is already `timer` old
when the write is served. A tick is a second. With `Timely`, a tick waits for those
whose timer is due or whose call has lasted `CallLimit`.

A process that ends leaves its lease to `Ghost`: `identity()` draws a nonce, so the
next process in the same pod is nobody's namesake.

### SecretCopy

`secret` is the secret of the copy's name in one target: per field its `value` and the
managers that set it (`by`), and `written`, which records whether the operator wrote
this very object. The fields stand for the classes the code tells apart: the owner
label, the marker label, a key under a tool's prefix, any other label or annotation, a
data key of the source, a data key no source has, and `immutable`. Copies of all
`Whisper`s have one field manager, `Us`.

A manager's name is what a client says it is, and a copy's uid can be read off the copy:
a namespace writer can make an object that passes `is_owned_copy`, as the comment at
`controller.rs` 99-109 says. Tenants therefore write under the names in `Guises`: any
other name (`Them`), the operator's own by an apply (`Us`, the same manager to the API
server), or the operator's own by an update (`Alias`, another manager of the same name,
since the operation is part of what tells managers apart). `posed` records that a tenant
has used the operator's name for this object. In `copy`, tenants create,
edit and clone under all three; in `forged`, clone under the operator's or their own; in
`adopt`, create under their own.

`Dup` is `dup`: strip, then stamp. `Conflicts` and `Applied` are server-side apply, not
forced: a field somebody else set to another value is a conflict, one that `Us` alone
had set and no longer sets is removed, equal values are shared. `Frozen` is the API
server's rule for immutable secrets. The steps are those of the write loop (`GetForWrite`, `Patch`)
and of `delete_copy` (`GetForDelete`, `Delete`), one request each; `Begin` reads the
source. The environment changes sources and targets, and lets tenants create, edit,
remove and clone the secret, labels included (a backup put back has the restorer's manager).

### Scheduling

`whisper` holds the `Whisper`s at the API server, `store` those in the reflector store,
`unseen` and `rumours` what the two watches have yet to deliver. `due` is the
scheduler's entry per object, with delays kept by their order: `soon` is 5 to 30 s,
`slow` is 600 s. `job` is the reconcile under way. `outdated` says for which cause a
`Whisper`'s copies are not what the cluster asks for, and `fresh` which of these causes
the reconcile under way has read; a change in the middle of a reconcile takes them out
of `fresh` and leaves the `Whisper` outdated.

`DeliverWhisper` and `DeliverSource` are the watches, the latter with the mapper that
looks a secret up in the store; `Taken` is what kube hands out: one reconcile per object,
`concurrency` at once, none after the shutdown signal; `Follow` is the dispatcher that
does not lead; `ProtectReturns`, `ApplySucceeds`, `ApplyFindsNoSource`, `ApplyDefers`,
`CleanupReturns` and `Fail` are the ways a reconcile returns, with the `Action` of each.
`finalizer()` adds and removes the finalizer by a patch that tests the object now at the
API server, while the reconcile has its snapshot: in `ProtectReturns` and `CleanupReturns`
the patch may meet a `Whisper` that was created again, fail its test, and end in an error
and a requeue.
`Retire` is the end of `run`: the last reconcile has returned, and a new process starts.

## Runs

| Run | Question | Result |
|---|---|---|
| `solo` | one replica with a stale store, any two events out of twelve kinds, three namespaces (one of them protected), two source values, two uids | `TypeOK`, `CopiesConfined`, `NoOrphans`, `Converges`, `DeletionCompletes`, `LivesAsPromised` hold |
| `split` | two replicas that both lead, stale stores, any two events with drained and retired namespaces | `DeletesOnlyOwn` holds |
| `failover` | two replicas, leadership moved by crashes, any three events | `NoOrphans`, `Converges`, `LivesAsPromised` hold |
| `lease` | two replicas, any three faults, skewed clocks | `TypeOK`, `LeaseBacked`, `AtMostOneLeader`, `KeepsPromise`, `StableLeader` hold |
| `copy` | two `Whisper`s of one name, two values, tenants under three names, any two events out of seven kinds | `TypeOK`, `TenantsValuesKept`, `OnlySignedDeleted`, `Settles` hold |
| `scheduling` | two `Whisper`s, two sources, one slot, any three events out of nine kinds | `TypeOK`, `NoLostChange`, `Progress` hold |
| `deferred` | a replica steps down between dispatch and cleanup | `NoOrphans` is violated |
| `unreachable` | a `Whisper` that lists a namespace without RBAC is deleted | `DeletionCompletes` is violated |
| `late` | a replica steps down between its leadership check and its write | `NoLateWrites` is violated |
| `adopt` | a tenant creates the secret between get and apply | `NeverAdopts` is violated |
| `forged` | a tenant clones a copy under the operator's field manager | `OnlyWrittenDeleted` is violated |
| `confirmed` | four watch errors, every answer within a second | `AtMostOneLeader` is violated |

The properties:

- `CopiesConfined`: a copy is only where RBAC lets the operator reclaim it, and
  never in a protected namespace.
- `NoOrphans`: a copy's `Whisper` exists, has the copy's uid and carries the finalizer.
- `DeletesOnlyOwn`: a step of the operator removes a secret only while it is a copy
  of the `Whisper` being reconciled.
- `Converges`: in the end a live `Whisper` with a source has its finalizer, a status
  that names its targets, the current value in each, and no copy elsewhere.
- `DeletionCompletes`: a deletion does not stay pending.
- `LivesAsPromised`: `Reconcile` implements `Lifecycle`: no write without the finalizer,
  no finalizer given up while a copy is left, no deletion that does not complete.
- `NoLateWrites`: no copy comes into being after its `Whisper` is gone.
- `LeaseBacked`, `AtMostOneLeader`: who believes it leads holds the lease, as long as
  nobody but the replicas changes it.
- `KeepsPromise`: `Election` implements `Leadership`.
- `StableLeader`: in the end one replica leads for good.
- `TenantsValuesKept`: a write never changes a field that another manager has set. (A
  tenant that applies as `Us` is the operator to the API server; its fields are not kept.)
- `OnlySignedDeleted`: the operator deletes only an object that it has written, or that a
  tenant has written under its name; a copy's labels alone, which any restore from a backup
  brings along, do not suffice, nor an object put in a verified copy's place.
- `OnlyWrittenDeleted`: the operator deletes only an object it has written. This is what the
  comment of `FIELD_MANAGER` promises; it holds only if nobody poses as the operator.
- `NeverAdopts`: a write changes only a secret that `MayWrite` would still accept.
- `Settles`: in the end each `Whisper` that wants the copy is mirrored, fields that left
  the source included, or blocked by somebody else's secret or value; one that does not
  want it has no copy.
- `NoLostChange`: a change of a `Whisper` or its source is on its way to a reconcile, or
  due soon; it never waits for the ten-minute requeue.
- `Progress`: every `Whisper` whose source exists is reconciled after the last change,
  changes of consent included.

### Bounds

Two environment events suffice for each race of one event with a reconcile and for
an event while the operator recovers from another; three, in `failover`, reach a
crash during the cleanup of a `Whisper` that is created again. Two uids distinguish a
`Whisper` from a successor of the same name. In `solo`, two events cannot empty
`writeNamespaces`; in `split` they can, which is the unconfigured case of `resolve`, and
`DeletesOnlyOwn` holds there too. Liveness is not claimed with an empty set: RBAC then refuses
every write. `solo` does not retire namespaces: see `unreachable` below for what a retired
namespace that is still recorded does to a sync.

`lease` uses the code's constants (15, 5, 5 and 2 seconds), answers within one
second and one second of skew, and any three of errors, crashes, retirements, a deleted
and an emptied lease. That is the assumption under which the election is safe, no
more: `confirmed` shows that four failures in a row are too many. The limit on calls is an
assumption about the cluster: the code sets no timeout on the calls of the lease
(`election.rs` 193), and without a limit `AtMostOneLeader` does not hold, since a call may be
answered after the lease it stamped has run out. No run is kept for that. The theorems of `ElectionProofs`
say exactly how much is too much (`Margin`, below). A Lease deleted or emptied by
somebody else breaks any safety argument about it, hence `tampered`; that leadership
recovers from it (`StableLeader`) is checked all the same.

`copy` lets two events fall anywhere between the requests of two overlapping reconciles,
such as a clone and an edit, or a planted secret and a changed source; two `Whisper`s are
the least that can dispute a name, and three names of managers are all that the code and
the API server tell apart. `scheduling` has one slot for two `Whisper`s, so that
a reconcile can keep another waiting, and three events, for example a change of source
while the store is behind in a process that then ends.

### Fairness

The reconciler: weak fairness of the work, the watch, the election and the rollout of
each replica. It is what the runtime provides: every return of `apply`, `cleanup` or
`dispatcher`, Ok or Err, queues the object again, which `Scheduling` follows in detail;
the reflector retries; the Deployment restarts pods. The environment owes nothing, and
faults are finite in number. `SecretCopy`: weak fairness of each reconcile, for the same
reason.

The election: weak fairness of time and of each replica's task.

`Scheduling`: weak fairness of the watches, the timers, the answers, the election and
the end of a process, and strong fairness of handing a `Whisper` out. Strong, since a
`Whisper` that is due meets a free slot again and again, not continuously. That it is
chosen at last is an assumption about kube's queue. A `Whisper` could be passed over
for ever only if the reconciles of others always outlasted their own requeue delays.

`solo` and `failover` use `Exclusive` (a replica is elected when no other leads),
which `lease` justifies under its assumptions. `failover` also assumes `CaughtUp`: a
new leader's store has seen the latest change of the `Whisper`. That is an assumption
about the watch and not about the code, which does not check it. Without it a
new leader may apply for a `Whisper` whose cleanup it has not seen.

CHECK_DEADLOCK is off except for `Election`: once the events are spent and everything is
in sync and the `Whisper`s are gone, nothing is left to do.

## What the violations show

- `deferred` (`controller.rs` 540-546). `cleanup` returns Ok when it is no longer
  leader, and `finalizer()` removes the finalizer after any Ok.
- `unreachable` (`controller.rs` 554, 570-572). `cleanup` extends the namespaces it
  visits by all of `spec.namespaces`, also those it may not read. A missing namespace,
  which the README allows, blocks the deletion. The same refused get stands in apply's
  delete loop (380-388): a namespace that was drained and retired while the status
  still named it, because the process ended between the last delete and
  `record_synced`, ends every later sync before its first write.
- `late` (`controller.rs` 412-438). Leadership is checked, then a get is awaited, then
  the patch is sent without anything that ties it to the lease or to the `Whisper`. The
  patch of a replica that stepped down meanwhile lands behind the cleanup of its
  successor; the copy has no `Whisper` any more, and nobody reclaims it. The checks do not
  notice either when the replica has lost the lease and has it again: it then goes on with
  what it planned before its successor's cleanup.
- `adopt` (`controller.rs` 422-438). The get finds nothing, a tenant creates a secret with
  other keys, the apply meets it without conflict and stamps it. It counts as a copy
  from then on, and a later cleanup deletes it, the tenant's keys included.
- `forged` (`controller.rs` 127-133). `is_owned_copy` looks for the name of a manager. A
  tenant clones a copy, labels and all, under that name; the next delete takes the clone.
  The comment of `FIELD_MANAGER` (`labels.rs` 26-29) says that a tenant cannot forge this;
  that of `is_owned_copy` (`controller.rs` 106-109) says that it can, and is right. RBAC is
  the boundary: who can do this can write secrets in the namespace anyway.
- `confirmed` (`election.rs` 175-182). `new_owner` does not look at `renewTime`.

The trace of `confirmed`: a replica creates the lease, the answer is lost, it steps
down; its watch fails a few times, with two seconds of backoff each; when it recovers,
its watch reports the holder, itself, for the first time, and it leads a lease 13
seconds old, with its renewal 5 seconds away. The follower's expiry, on a fast clock,
comes before the renewal is served.

Two things hold by the code's design and are easily missed. While its source is missing,
a `Whisper` reclaims nothing (`controller.rs` 332-338), also not from a namespace dropped
from its spec. And two `Whisper`s of one name whose reconciles overlap, each having found
the target free, take the copy from each other: one field manager writes for both, so the
API server sees no conflict. A reconcile that finds the other's copy leaves it alone. The
README puts every `Whisper` into the operator's namespace, where a name is taken once; the
code watches them everywhere and reads each source in its `Whisper`'s own namespace.

## Theorems

Each holds for all values of the constants that satisfy the module's assumption, and the
hypotheses the statement names: any replicas, namespaces, `Whisper`s, slots and sequences
of events.

| Module | Theorem | Statement | Argument |
|---|---|---|---|
| `ReconcileProofs` | `TypeCorrect` | `Spec => []TypeOK` | `TypeOK` is inductive; one lemma per group of actions. |
| | `CopiesStayConfined` | `Spec => []CopiesConfined` | `ConfinedInv` adds that the targets and the write list of every reconcile avoid the protected namespaces. It is needed because the write happens several requests after the consent check; RBAC alone gives the rest, since `CanPatch` is evaluated when the write is served, `Decommission` keeps the namespace reclaimable and `Retire` demands that it is empty. |
| | `OnlyOwnDeleted` | `Spec => DeletesOnlyOwn` | `VerifiedInv`: a replica about to delete, whose preconditions still hold, faces a copy of its own `Whisper`. It is needed because the verification and the delete are two requests; every action that changes the secret takes the replica out of `intact`. |
| `OrphanProofs` | `NoCopyOrphaned` | `OneLeader` implies `Spec /\ []Configured /\ Orderly => []NoOrphans` | `OrphanInv`, see below. |
| | `LivesSafely` | the same hypotheses imply `Life!Spec` | from `OrphanInv`, every action is one of `Lifecycle` or a stutter: `Patch` is `Write`, since `Mine` gives it a `Whisper` with its finalizer; `RemoveFinalizer` is `Release`, since `Found` leaves no copy by then. |
| `ElectionProofs` | `TypeCorrect` | `Spec => []TypeOK` | ages and timers stay below the cap; one lemma per way to move on. |
| | `LeadersHoldTheLease` | `Margin` implies `Spec => []LeaseBacked` | `LeaseInv`, see below. |
| | `OneLeaderAtMost` | `Margin` implies `Spec => []AtMostOneLeader` | two leaders would both hold one lease. |
| | `ImplementsLeadership` | `Margin` implies `Spec => KeepsPromise` | a replica gains leadership only when `LeaseInv` leaves no other; every other action is `Lose`, a distrust or a stutter. |
| `SecretCopyProofs` | `TypeCorrect` | `Spec => []TypeOK` | `AppliedType`, `EditedType` and `ClonedType` say that an apply, an edit and a clone leave a field there exactly when somebody manages it. |
| | `OnlySignedSecretsDeleted` | `Spec => OnlySignedDeleted` | `SignedInv`: the operator's name manages a field only of an object that was written under it, and a verified secret that has not changed is still a copy. Both are needed: preconditions tie the delete to what was verified, the field manager ties what was verified to a writer under that name. |
| | `OnlyWrittenSecretsDeleted` | `Honest` implies `Spec => OnlyWrittenDeleted` | if no tenant writes under the operator's name (`Honest`), nothing is ever `posed`. The hypothesis is needed: `forged`. |
| | `TheirValuesKept` | `Spec => TenantsValuesKept` | `AppliedKeepsTheirs`: an apply that is not refused leaves a field with another manager as it is. |
| `SchedulingProofs` | `TypeCorrect` | `Spec => []TypeOK` | `SlotsInv` adds that the reconciles under way are finitely many, without which their number says nothing. |
| | `ChangesAreNotLost` | `Spec => []NoLostChange` | `StoreInv`: the store is behind only where the watch has something left to deliver. It is needed where the mapper misses a `Whisper`: its own event is then still to come. |

The theorems of `ReconcileProofs` do not depend on the election: they hold with any
number of leaders.

### The election (`ElectionProofs`)

A replica that believes it leads does not look at the lease's age: it relies on having
renewed in time. The proof turns this into an account of how old the lease may be at each
point of the loop. `Safe(r)` says of a believer that it holds the lease, that nobody else
has a read of its current version under way (a takeover would be served), and that the age
is bounded by what r is doing: since its last confirmation, at most two calls and the errors
so far, `LastSeen`; then its timer, then one call for the get and one for the put
(`LeadFresh`). The hard case is a replica whose write was served and whose answer
was lost: it holds the lease without knowing it, its watch may tell it much later, and it
then leads at once, without looking at `renewTime`. Hence `UnseenFresh`, which bounds that
age by the errors spent meanwhile, and hence the term `Lag(MaxFaults)` in

    Margin == Timely /\ CallLimit < RenewTime
              /\ 4 * CallLimit + Lag(MaxFaults) + RenewTime + MaxSkew <= LeaseTime + Grace

with `Lag(n)` the time that n errors cost, each a call and a backoff. `LeaseInv` joins types,
timers within their patience (`InTime`) and `Safe` of all replicas, the last one only while
nobody else has changed the Lease. TLC checked it as an invariant of the instance `lease`
before the proof.

The inequality is the largest margin for which the safety holds, as far as TLC can tell:
`lease` has 19 on the left and 20 on the right, passes with a `LeaseTime` of 14, and
violates `LeaseBacked` with 13. `confirmed` has 22 against 20. It says what an operator who
changes the code's constants has to keep.

### No orphans (`OrphanProofs`)

`OrphanInv` is `NoOrphans` together with, for each replica: its program counter fits its job
(`Moded`); while it applies, its `Whisper` exists and has the finalizer, and while it cleans
up, no later one has (`Mine`); every copy is among those that its cleanup found or has yet
to probe, at each point of the loops, which is what makes the finalizer's removal right
(`Found`); it probes all the namespaces that may hold a copy (`Probes`); and its snapshot,
however old, tells the truth about the finalizer unless the replica has undone it itself
(`Fresh`). `Fresh` is the part one does not expect: a single replica may reconcile from a
store that is arbitrarily stale, and is right all the same, since only it adds and removes
the finalizer, and a uid is never used again.

The hypotheses are needed, each one: TLC finds an orphan without it.

- `Orderly`: a leader that loses the lease is idle, or in an apply that checks leadership
  again before it writes (`Yields`), and does not lead again before that reconcile is over.
  So a lease may be lost in mid-reconcile; the old leader then goes on reading, deleting and
  recording next to its successor, and defers. It may not be lost between a check and its
  write (`late`), in a cleanup, which does not check again and lets the finalizer go
  (`deferred`), or before the finalizer is added: that patch may meet a later `Whisper` of
  the name, from which a successor with the earlier one still in its store removes it again,
  to apply afterwards from a snapshot that shows it. Nor may a leader come back in the middle
  of a reconcile, whose plan its successor's cleanup has overtaken. The code rules out none of these: it checks leadership between requests and
  not with them. A crash is always orderly, since it ends the reconcile.
- `Exclusive`, with more than one replica: two leaders, one of which writes after the other
  has cleaned up. `ElectionProofs` gives it under `Margin`.
- `CaughtUp`, with more than one replica (`Alone` does not ask for it): a new leader with
  an old store applies for a `Whisper` that its predecessor has cleaned up.
- no `enrol` with more than one replica: a pod with the new chart writes into a namespace
  enrolled just now, and ends before `record_synced`; the wanted namespaces are edited,
  the `Whisper` is deleted, and a pod that still has the old chart leads and cleans up. It
  finds the new namespace neither in the spec nor in the status nor among those it probes.
  (`resolve`'s comment promises that a copy never lands where it cannot be found; that is
  so for each process, not across a rollout.)
- `Configured`: a process started with no `writeNamespaces` writes wherever a later
  RoleBinding lets it, and probes nothing. The code keeps this case for local runs.

`Exclusive`, `CaughtUp` and the absence of `enrol`, or else a single replica, make up
`OneLeader`. `Single` is what they and `Orderly` come to: one leader, and beside it only old
applies that will not write.

TLC checked `OrphanInv` on `solo` and `failover`, whose behaviours all satisfy the
hypotheses, on an instance with enrolments that keeps `Configured`, and on one with two
replicas that step down under `HandsOver` (three events, 11 million states).

### What is only model-checked

Liveness under fairness is out of TLAPS's reach: `Converges`, `DeletionCompletes`,
`StableLeader`, `Settles`, `Progress`, and the deletion that completes in
`LivesAsPromised`. Every safety property of a passing run is a theorem, `NoOrphans` and the
election's under the hypotheses above. `NoOrphans` without `Orderly`, `NoLateWrites`,
`OnlyWrittenDeleted` without `Honest`, `NeverAdopts`, and the election outside `Margin` do
not hold, as the violation runs show.

## Not modelled

- Requests that outlive the process that sent them: a request of a crashed replica is
  served before the crash or never. One that outlives the leadership of its replica is
  modelled (`late`).
- `Whisper`s outside the operator's namespace in `Scheduling`: nothing watches their
  sources, and a change there waits for the ten-minute requeue.
- Watch details: bookmarks, relists, and how far behind a store may be. `Reconcile` takes
  a store that is behind without limit, or not at all (`CaughtUp`).
- The dispute of two `Whisper`s for one name is followed in one namespace only.
- Types of secrets; `string_data`, which a secret read from the API server never has.
- Parsing and validation of the environment and of the CRD's schema: sequential string
  handling, without state.
- Health, metrics and telemetry: stateless endpoints and counters that no control flow
  reads. Scripts and the repository's own model: tooling.

## Plan

1. `SyncPlan`, `Reconcile`, `Election`, their runs, and the first theorems (done).
2. `Leadership` and `Lifecycle`, and the refinements (done).
3. `SecretCopy` and `Scheduling`, their runs and theorems (done).
4. Theorems: `TypeOK` of `Election`, `LeaseBacked`, `AtMostOneLeader` and `KeepsPromise`
   under an inequality between its constants; `NoOrphans` and the safety of `Lifecycle`
   for one replica leading at a time (done).
5. Lemmas on the algebra of `SyncPlan`; the hypotheses of `NoCopyOrphaned` weakened where
   the environment's events alone decide (an enrolment that every process has seen).
6. Requests that outlive their process, in `Reconcile`, if a bound on them keeps the runs
   small enough.
