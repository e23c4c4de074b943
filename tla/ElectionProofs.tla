--------------------------- MODULE ElectionProofs ---------------------------
(***************************************************************************)
(* Theorems about Election, for any number of replicas, any timing         *)
(* constants and any bound on faults.                                      *)
(***************************************************************************)
EXTENDS Election, TLAPS

---------------------------------------------------------------------------
(* Types.                                                                  *)

\* Ages and timers stay within their cap.
LEMMA CappedType ==
  ASSUME NEW n \in Nat
  PROVE  AgeCap \in Nat \ {0} /\ Capped(n) \in 0 .. AgeCap /\ Capped(n) <= n
BY ElectionAssumption DEF Capped, AgeCap

LEMMA EnterType ==
  ASSUME TypeOK, NEW r \in Replica, NEW label \in Phases, Enter(r, label)
  PROVE  phase' \in [Replica -> Phases] /\ timer' \in [Replica -> 0 .. AgeCap]
BY CappedType DEF TypeOK, Enter, AgeCap

LEMMA AcquireType ==
  ASSUME TypeOK, NEW r \in Replica, NEW how \in {"create", "replace"}, Acquire(r, how)
  PROVE  /\ phase' \in [Replica -> Phases] /\ timer' \in [Replica -> 0 .. AgeCap]
         /\ method' \in [Replica -> {"create", "replace"}]
         /\ state' \in [Replica -> States]
<1>1. "put" \in Phases
  BY DEF Phases, Calls
<1>2. Enter(r, "put")
  BY DEF Acquire
<1> QED
  BY <1>1, <1>2, EnterType DEF Acquire, TypeOK

LEMMA PublishType ==
  ASSUME TypeOK, NEW r \in Replica, NEW s \in States, Publish(r, s)
  PROVE  /\ phase' \in [Replica -> Phases] /\ timer' \in [Replica -> 0 .. AgeCap]
         /\ method' \in [Replica -> {"create", "replace"}]
         /\ state' \in [Replica -> States]
<1>1. "select" \in Phases
  BY DEF Phases
<1>2. Enter(r, "select")
  BY DEF Publish
<1> QED
  BY <1>1, <1>2, EnterType DEF Publish, TypeOK

LEMMA FailsType ==
  ASSUME TypeOK, NEW r \in Replica, Fails(r)
  PROVE  /\ phase' \in [Replica -> Phases] /\ timer' \in [Replica -> 0 .. AgeCap]
         /\ method' \in [Replica -> {"create", "replace"}]
         /\ state' \in [Replica -> States]
<1>1. "backoff" \in Phases
  BY DEF Phases
<1>2. Enter(r, "backoff")
  BY DEF Fails
<1>3. FailSafe(state[r]) \in States
  BY DEF TypeOK, FailSafe, States
<1> QED
  BY <1>1, <1>2, <1>3, EnterType DEF Fails, TypeOK

\* A process ends: whatever lease it leaves behind is still one.
LEMMA EndsType ==
  ASSUME TypeOK, NEW r \in Replica, NEW a \in 0 .. AgeCap, NEW reads \in SUBSET Replica,
         NEW l \in [exists : BOOLEAN, holder : Holders, term : {LeaseTime, ShortTime}],
         Ends(r, l, a, reads), faults' \in Nat, faults' <= MaxFaults,
         tampered' \in BOOLEAN
  PROVE  TypeOK'
<1>1. "down" \in Phases /\ Enter(r, "down")
  BY DEF Phases, Ends
<1>2. \A h \in Holders : Buried(r, h) \in Holders
  BY DEF Buried, Holders
<1>3. lease' \in [exists : BOOLEAN, holder : Holders, term : {LeaseTime, ShortTime}]
  BY <1>2 DEF Ends
<1>4. owner' \in [Replica -> Holders]
  BY <1>2 DEF Ends, TypeOK, Holders
<1>5. /\ age' \in 0 .. AgeCap /\ current' \in SUBSET Replica
      /\ state' \in [Replica -> States]
      /\ method' \in [Replica -> {"create", "replace"}]
  BY DEF Ends, TypeOK, States
<1> QED
  BY <1>1, <1>3, <1>4, <1>5, EnterType DEF TypeOK

LEMMA StepType ==
  ASSUME TypeOK, NEW r \in Replica, Step(r)
  PROVE  TypeOK'
<1> USE DEF leaseVars
<1>0. /\ tampered' \in BOOLEAN
      /\ HolderSeen \in Holders
  BY DEF Step, TypeOK, HolderSeen, Holders
<1>1. CASE Deleted(r)
  BY <1>0, <1>1, AcquireType DEF Deleted, TypeOK
<1>2. CASE OwnerChanged(r)
  <2>1. owner' \in [Replica -> Holders]
    BY <1>0, <1>2 DEF OwnerChanged, TypeOK
  <2>2. \/ Acquire(r, "create") \/ Publish(r, "Leading") \/ Publish(r, "Following")
    BY <1>2 DEF OwnerChanged
  <2>3. /\ phase' \in [Replica -> Phases] /\ timer' \in [Replica -> 0 .. AgeCap]
        /\ method' \in [Replica -> {"create", "replace"}]
        /\ state' \in [Replica -> States]
    BY <2>2, AcquireType, PublishType DEF States
  <2> QED
    BY <1>0, <1>2, <2>1, <2>3 DEF OwnerChanged, TypeOK
<1>3. CASE TimerFires(r)
  BY <1>0, <1>3, EnterType DEF TimerFires, TypeOK, Phases, Calls
<1>4. CASE GetServed(r)
  <2>1. \/ Acquire(r, "create") \/ Acquire(r, "replace") \/ Publish(r, "Following")
    BY <1>4 DEF GetServed
  <2>2. /\ phase' \in [Replica -> Phases] /\ timer' \in [Replica -> 0 .. AgeCap]
        /\ method' \in [Replica -> {"create", "replace"}]
        /\ state' \in [Replica -> States]
    BY <2>1, AcquireType, PublishType DEF States
  <2>3. current' \in SUBSET Replica
    BY <1>4 DEF GetServed, TypeOK
  <2> QED
    BY <1>0, <1>4, <2>2, <2>3 DEF GetServed, TypeOK
<1>5. CASE PutServed(r)
  <2>1. CASE Accepted(r)
    <3>1. /\ lease' \in [exists : BOOLEAN, holder : Holders, term : {LeaseTime, ShortTime}]
          /\ age' \in 0 .. AgeCap /\ current' \in SUBSET Replica
      <4>1. HeldBy(r) \in [exists : BOOLEAN, holder : Holders, term : {LeaseTime, ShortTime}]
        BY DEF HeldBy, Holders
      <4>2. lease' = HeldBy(r) /\ age' = timer[r] /\ current' = {}
        BY <1>5, <2>1 DEF PutServed, Take
      <4> QED
        BY <4>1, <4>2 DEF TypeOK
    <3>2. phase' \in [Replica -> Phases]
      BY <1>5, <2>1 DEF PutServed, TypeOK, Phases, Calls
    <3> QED
      BY <1>0, <1>5, <2>1, <3>1, <3>2 DEF PutServed, TypeOK
  <2>2. CASE ~Accepted(r)
    BY <1>0, <1>5, <2>2, FailsType DEF PutServed, TypeOK
  <2> QED
    BY <2>1, <2>2
<1>6. CASE Ack(r)
  BY <1>0, <1>6, PublishType DEF Ack, TypeOK, States
<1>7. CASE BackoffEnds(r)
  BY <1>0, <1>7, EnterType DEF BackoffEnds, TypeOK, Phases
<1>8. CASE RetireGet(r)
  <2>1. CASE Ends(r, lease, age, current)
    BY <1>0, <1>8, <2>1, EndsType DEF RetireGet, TypeOK
  <2>2. CASE Enter(r, "retirePatch") /\ UNCHANGED <<leaseVars, state, owner, method>>
    BY <1>0, <1>8, <2>2, EnterType DEF RetireGet, TypeOK, Phases, Retiring
  <2> QED
    BY <1>8, <2>1, <2>2 DEF RetireGet
<1>9. CASE RetirePatch(r)
  <2>1. CASE Ends(r, lease, age, current)
    BY <1>0, <1>9, <2>1, EndsType DEF RetirePatch, TypeOK
  <2>2. CASE Ends(r, [lease EXCEPT !.term = ShortTime], age, {})
    <3>1. [lease EXCEPT !.term = ShortTime]
            \in [exists : BOOLEAN, holder : Holders, term : {LeaseTime, ShortTime}]
      BY DEF TypeOK
    <3> QED
      BY <1>0, <1>9, <2>2, <3>1, EndsType DEF RetirePatch, TypeOK
  <2> QED
    BY <1>9, <2>1, <2>2 DEF RetirePatch
<1>10. CASE Start(r)
  BY <1>0, <1>10, EnterType DEF Start, TypeOK, Phases
<1> QED
  BY <1>1, <1>2, <1>3, <1>4, <1>5, <1>6, <1>7, <1>8, <1>9, <1>10 DEF Step

LEMMA FaultType ==
  ASSUME TypeOK, Fault
  PROVE  TypeOK'
<1> USE DEF leaseVars, replicaVars
<1>1. ASSUME NEW r \in Replica, UNCHANGED tampered, Retire(r) PROVE TypeOK'
  <2>0. faults' \in Nat /\ faults' <= MaxFaults /\ tampered' \in BOOLEAN
    BY <1>1, ElectionAssumption DEF Retire, TypeOK
  <2>1. CASE state[r] = "Leading"
    BY <1>1, <2>0, <2>1, EnterType DEF Retire, TypeOK, Phases, Retiring
  <2>2. CASE state[r] # "Leading"
    BY <1>1, <2>0, <2>2, EndsType DEF Retire, TypeOK
  <2> QED
    BY <2>1, <2>2
<1>2. ASSUME NEW r \in Replica, UNCHANGED tampered, Crash(r) PROVE TypeOK'
  <2>0. faults' \in Nat /\ faults' <= MaxFaults /\ tampered' \in BOOLEAN
    BY <1>2, ElectionAssumption DEF Crash, TypeOK
  <2>1. CASE Ends(r, lease, age, current)
    BY <2>0, <2>1, EndsType DEF TypeOK
  <2>2. CASE Ends(r, HeldBy(r), timer[r], {})
    BY <2>0, <2>2, EndsType DEF HeldBy, TypeOK, Holders
  <2> QED
    BY <1>2, <2>1, <2>2 DEF Crash
<1>3. ASSUME NEW r \in Replica, UNCHANGED tampered, Error(r) PROVE TypeOK'
  <2>0. faults' \in Nat /\ faults' <= MaxFaults /\ tampered' \in BOOLEAN
    BY <1>3, ElectionAssumption DEF Error, TypeOK
  <2> QED
    BY <1>3, <2>0, FailsType DEF Error, TypeOK
<1>4. CASE DeleteLease
  BY <1>4, ElectionAssumption DEF DeleteLease, NoLease, TypeOK, Holders
<1>5. CASE ClearHolder
  BY <1>5, ElectionAssumption DEF ClearHolder, TypeOK, Holders
<1> QED
  BY <1>1, <1>2, <1>3, <1>4, <1>5 DEF Fault

LEMMA InitType == Init => TypeOK
<1> SUFFICES ASSUME Init PROVE TypeOK
  OBVIOUS
<1>1. 0 \in 0 .. AgeCap
  BY CappedType, ElectionAssumption
<1>2. lease \in [exists : BOOLEAN, holder : Holders, term : {LeaseTime, ShortTime}]
  BY DEF Init, NoLease, Holders
<1>3. faults \in Nat /\ faults <= MaxFaults
  BY ElectionAssumption DEF Init
<1> QED
  BY <1>1, <1>2, <1>3 DEF Init, TypeOK, Holders, States, Phases

LEMMA NextType ==
  ASSUME TypeOK, [Next]_vars
  PROVE  TypeOK'
<1>1. CASE Tick
  <2>1. age' \in 0 .. AgeCap
    BY <1>1, CappedType DEF Tick, TypeOK
  <2>2. timer' \in [Replica -> 0 .. AgeCap]
    <3>1. \A r \in Replica : timer[r] + 1 \in Nat
      BY DEF TypeOK
    <3>2. \A r \in Replica : Capped(timer[r] + 1) \in 0 .. AgeCap
      BY <3>1, CappedType
    <3> QED
      BY <1>1, <3>2, CappedType DEF Tick, TypeOK
  <2> QED
    BY <1>1, <2>1, <2>2 DEF Tick, TypeOK
<1>2. CASE \E r \in Replica : Step(r)
  BY <1>2, StepType
<1>3. CASE Fault
  BY <1>3, FaultType
<1>4. CASE UNCHANGED vars
  BY <1>4 DEF vars, leaseVars, replicaVars, TypeOK
<1> QED
  BY <1>1, <1>2, <1>3, <1>4 DEF Next

\* Type correctness of Election, whatever the timing.
THEOREM TypeCorrect == Spec => []TypeOK
BY InitType, NextType, PTL DEF Spec

---------------------------------------------------------------------------
(* How old the lease of a leader can be.                                   *)

\* An error costs at most one wait for an answer and one backoff.
Lag(n) == n * (Backoff + CallLimit)

\* The timing under which the lease protects its holder: calls are answered,
\* within less than the renew interval; and the lease outlives, on every clock, a
\* leader that needs the last of its errors to learn that it holds the lease, then
\* waits RenewTime and spends two calls on a renewal that fails.
Margin ==
  /\ Timely /\ CallLimit < RenewTime
  /\ 4 * CallLimit + Lag(MaxFaults) + RenewTime + MaxSkew <= LeaseTime + Grace

Held(r) == lease.exists /\ lease.holder = r

\* r leads, or will as soon as its write is answered.
Believes(r) == state[r] = "Leading" \/ phase[r] = "ack"

\* r holds the lease, and its watch has yet to tell it so: then it leads.
Unseen(r) == Held(r) /\ owner[r] # r

\* How long r may stay where it is.
Patience(label) ==
  IF label = "select" THEN RenewTime
  ELSE IF label = "backoff" THEN Backoff
  ELSE IF label = "down" THEN 0
  ELSE CallLimit

InTime == \A r \in Replica : timer[r] <= Patience(phase[r])

\* The age of a lease when its holder last learned that it leads.
LastSeen == 2 * CallLimit + Lag(faults)

\* The age of r's lease while r has not seen it, by what r does.
UnseenFresh(r) ==
  /\ phase[r] \in {"ack", "select", "backoff"} \cup Retiring
  /\ phase[r] = "select" =>
       timer[r] <= CallLimit /\ age <= CallLimit + Lag(faults) + timer[r]
  /\ phase[r] = "backoff" =>
       faults > 0 /\ age + Backoff <= CallLimit + Lag(faults) + timer[r]

\* The age of r's lease while r leads, by what r does.
LeadFresh(r) ==
  /\ phase[r] \notin {"backoff", "down"}
  /\ phase[r] = "select" => age <= LastSeen + timer[r]
  /\ phase[r] \in {"get", "retireGet"} => age <= LastSeen + RenewTime + timer[r]
  /\ phase[r] \in {"put", "retirePatch"} =>
       age <= LastSeen + RenewTime + CallLimit + timer[r]

\* What makes a believer's lease safe: it is its own, nobody has read it for a
\* takeover, and it is too young for that.
Safe(r) ==
  /\ phase[r] \in Retiring => state[r] = "Leading"
  /\ phase[r] = "down" => ~Held(r)
  /\ Believes(r) => Held(r)
  /\ Believes(r) \/ Unseen(r) => lease.term = LeaseTime /\ current \subseteq {r}
  /\ phase[r] = "ack" => age <= timer[r]
  /\ Unseen(r) => UnseenFresh(r)
  /\ state[r] = "Leading" => LeadFresh(r)

AllSafe == \A r \in Replica : Safe(r)

\* The inductive invariant.
LeaseInv == TypeOK /\ InTime /\ (tampered \/ AllSafe)

LEMMA LagStep ==
  ASSUME NEW n \in Nat
  PROVE  Lag(n) \in Nat /\ Lag(n + 1) = Lag(n) + Backoff + CallLimit
BY ElectionAssumption DEF Lag

LEMMA LagMonotone ==
  ASSUME NEW n \in Nat, NEW m \in Nat, n <= m
  PROVE  Lag(n) <= Lag(m)
<1> DEFINE k == Backoff + CallLimit
<1>1. k \in Nat
  BY ElectionAssumption
<1>2. (m - n) * k >= 0
  BY <1>1
<1>3. (m - n) * k = m * k - n * k /\ m * k \in Nat /\ n * k \in Nat
  BY <1>1
<1> QED
  BY <1>2, <1>3 DEF Lag

\* The lease of a believer has not expired, whatever the clock of the reader.
LEMMA NotExpired ==
  ASSUME Margin, TypeOK, InTime, NEW r \in Replica, Safe(r), Believes(r) \/ Unseen(r)
  PROVE  \A skew \in -MaxSkew .. MaxSkew : ~Expired(skew)
<1>0. /\ CallLimit \in Nat /\ RenewTime \in Nat /\ MaxSkew \in Nat /\ Backoff \in Nat
      /\ LeaseTime \in Nat /\ Grace \in Nat /\ MaxFaults \in Nat
  BY ElectionAssumption
<1>1. /\ Lag(faults) \in Nat /\ Lag(MaxFaults) \in Nat /\ Lag(faults) <= Lag(MaxFaults)
  BY <1>0, LagStep, LagMonotone DEF TypeOK
<1>2. timer[r] \in Nat /\ age \in Nat /\ timer[r] <= Patience(phase[r])
  BY CappedType, ElectionAssumption DEF TypeOK, InTime
<1>3. phase[r] \in Phases
  BY DEF TypeOK
<1>4. age <= 4 * CallLimit + Lag(faults) + RenewTime
  <2>1. CASE phase[r] = "ack"
    BY <2>1, <1>0, <1>1, <1>2 DEF Safe, Patience
  <2>2. CASE state[r] = "Leading" /\ phase[r] # "ack"
    BY <2>2, <1>0, <1>1, <1>2, <1>3
    DEF Safe, Patience, LeadFresh, Phases, Calls, Retiring, LastSeen
  <2>3. CASE Unseen(r) /\ phase[r] # "ack" /\ state[r] # "Leading"
    BY <2>3, <1>0, <1>1, <1>2, <1>3 DEF Safe, Patience, UnseenFresh, Retiring
  <2> QED
    BY <2>1, <2>2, <2>3 DEF Believes
<1>5. lease.term = LeaseTime
  BY DEF Safe
<1> QED
  BY <1>0, <1>1, <1>2, <1>4, <1>5 DEF Margin, Expired

---------------------------------------------------------------------------
(* No replica stays longer than it may.                                    *)

LEMMA MoveInTime ==
  ASSUME TypeOK, InTime, NEW r \in Replica, NEW label \in Phases, Enter(r, label)
  PROVE  InTime'
<1>1. Patience(label) >= 0
  BY ElectionAssumption DEF Patience
<1> QED
  BY <1>1 DEF Enter, InTime, TypeOK, Patience

LEMMA StepInTime ==
  ASSUME TypeOK, InTime, NEW r \in Replica, Step(r)
  PROVE  InTime'
<1>1. CASE phase[r] = "put" /\ PutServed(r) /\ Accepted(r)
  BY <1>1 DEF PutServed, InTime, TypeOK, Patience
<1>2. ASSUME NEW s, Publish(r, s) PROVE InTime'
  BY <1>2, MoveInTime DEF Publish, Phases
<1>3. ASSUME NEW how, Acquire(r, how) PROVE InTime'
  BY <1>3, MoveInTime DEF Acquire, Phases, Calls
<1>4. ASSUME Fails(r) PROVE InTime'
  BY <1>4, MoveInTime DEF Fails, Phases
<1>5. ASSUME NEW l, NEW a, NEW reads, Ends(r, l, a, reads) PROVE InTime'
  BY <1>5, MoveInTime DEF Ends, Phases
<1>6. CASE Deleted(r) \/ OwnerChanged(r) \/ GetServed(r) \/ Ack(r)
  BY <1>6, <1>2, <1>3 DEF Deleted, OwnerChanged, GetServed, Ack
<1>7. CASE TimerFires(r) \/ BackoffEnds(r) \/ Start(r)
  BY <1>7, MoveInTime DEF TimerFires, BackoffEnds, Start, Phases, Calls
<1>8. CASE RetireGet(r) \/ RetirePatch(r)
  BY <1>8, <1>5, MoveInTime DEF RetireGet, RetirePatch, Phases, Retiring
<1>9. CASE PutServed(r) /\ ~Accepted(r)
  BY <1>9, <1>4 DEF PutServed
<1> QED
  BY <1>1, <1>6, <1>7, <1>8, <1>9 DEF Step, PutServed

LEMMA FaultInTime ==
  ASSUME TypeOK, InTime, Fault
  PROVE  InTime'
<1>1. ASSUME NEW r \in Replica, NEW l, NEW a, NEW reads, Ends(r, l, a, reads) PROVE InTime'
  BY <1>1, MoveInTime DEF Ends, Phases
<1>2. ASSUME NEW r \in Replica, Retire(r) PROVE InTime'
  BY <1>1, <1>2, MoveInTime DEF Retire, Phases, Retiring
<1>3. ASSUME NEW r \in Replica, Crash(r) PROVE InTime'
  BY <1>1, <1>3 DEF Crash
<1>4. ASSUME NEW r \in Replica, Error(r) PROVE InTime'
  BY <1>4, MoveInTime DEF Error, Fails, Phases
<1>5. CASE DeleteLease \/ ClearHolder
  BY <1>5 DEF DeleteLease, ClearHolder, replicaVars, InTime
<1> QED
  BY <1>2, <1>3, <1>4, <1>5 DEF Fault

LEMMA TickInTime ==
  ASSUME TypeOK, InTime, Timely, Margin, Tick
  PROVE  InTime'
<1> SUFFICES ASSUME NEW r \in Replica PROVE timer'[r] <= Patience(phase'[r])
  BY DEF InTime
<1>1. phase'[r] = phase[r] /\ phase[r] \in Phases /\ ~Due(r)
  BY DEF Tick, TypeOK
<1>2. timer[r] \in Nat
  BY CappedType DEF TypeOK
<1>3. CASE phase[r] = "down"
  BY <1>1, <1>3 DEF Tick, Patience
<1>4. CASE phase[r] # "down"
  <2>1. timer'[r] <= timer[r] + 1
    BY <1>2, <1>4, CappedType DEF Tick
  <2>2. timer[r] < Patience(phase[r])
    BY <1>1, <1>2, <1>4, ElectionAssumption DEF Due, Patience, Phases, Calls, Retiring
  <2>3. Patience(phase[r]) \in Nat /\ timer'[r] \in Nat
    BY <1>2, <1>4, CappedType, ElectionAssumption DEF Patience, Tick
  <2> QED
    BY <1>1, <1>2, <2>1, <2>2, <2>3
<1> QED
  BY <1>3, <1>4

---------------------------------------------------------------------------
(* What a move of r leaves alone.                                          *)

\* The tasks of the others.
Others(r) ==
  \A q \in Replica \ {r} :
    /\ state'[q] = state[q] /\ phase'[q] = phase[q] /\ timer'[q] = timer[q]
    /\ owner'[q] = q <=> owner[q] = q

LEMMA OthersMove ==
  ASSUME TypeOK, NEW r \in Replica,
         Step(r) \/ Retire(r) \/ Crash(r) \/ Error(r)
  PROVE  Others(r)
<1> USE DEF Others, TypeOK
<1>1. ASSUME NEW l, NEW a, NEW reads, Ends(r, l, a, reads) PROVE Others(r)
  <2>1. \A q \in Replica \ {r} : owner'[q] = q <=> owner[q] = q
    BY <1>1, ElectionAssumption DEF Ends, Buried
  <2> QED
    BY <1>1, <2>1 DEF Ends, Enter
<1>2. ASSUME NEW s, Publish(r, s), \A q \in Replica \ {r} : owner'[q] = owner[q]
      PROVE Others(r)
  BY <1>2 DEF Publish, Enter
<1>3. ASSUME NEW how, Acquire(r, how), \A q \in Replica \ {r} : owner'[q] = owner[q]
      PROVE Others(r)
  BY <1>3 DEF Acquire, Enter
<1>4. ASSUME Fails(r), owner' = owner PROVE Others(r)
  BY <1>4 DEF Fails, Enter
<1>5. CASE Deleted(r) \/ OwnerChanged(r) \/ GetServed(r) \/ Ack(r)
  BY <1>5, <1>2, <1>3 DEF Deleted, OwnerChanged, GetServed, Ack
<1>6. CASE TimerFires(r) \/ BackoffEnds(r) \/ Start(r)
  BY <1>6 DEF TimerFires, BackoffEnds, Start, Enter
<1>7. CASE RetireGet(r) \/ RetirePatch(r)
  BY <1>7, <1>1 DEF RetireGet, RetirePatch, Enter
<1>8. CASE PutServed(r)
  BY <1>8, <1>4 DEF PutServed
<1>9. CASE Retire(r)
  BY <1>9, <1>1 DEF Retire, Enter
<1>10. CASE Crash(r) \/ Error(r)
  BY <1>10, <1>1, <1>4 DEF Crash, Error
<1> QED
  BY <1>5, <1>6, <1>7, <1>8, <1>9, <1>10 DEF Step

\* q stays safe while the lease stays what it was to q and nobody else reads it.
LEMMA StaysSafe ==
  ASSUME TypeOK, NEW r \in Replica, NEW q \in Replica \ {r}, Safe(q), Others(r),
         faults' \in {faults, faults + 1},
         Held(q)' <=> Held(q),
         Held(q) => lease'.term = lease.term /\ age' = age,
         Believes(q) \/ Unseen(q) => current' \subseteq {q}
  PROVE  Safe(q)'
<1>0. /\ state'[q] = state[q] /\ phase'[q] = phase[q] /\ timer'[q] = timer[q]
      /\ Believes(q)' <=> Believes(q)
      /\ Unseen(q)' <=> Unseen(q)
  BY DEF Others, Believes, Unseen
<1>1. /\ Lag(faults) \in Nat /\ Lag(faults') \in Nat /\ Lag(faults) <= Lag(faults')
      /\ faults \in Nat /\ faults' >= faults
  BY LagStep, LagMonotone DEF TypeOK
<1>2. timer[q] \in Nat /\ age \in Nat /\ CallLimit \in Nat /\ RenewTime \in Nat
      /\ Backoff \in Nat
  BY CappedType, ElectionAssumption DEF TypeOK
<1>3. ASSUME Unseen(q) PROVE UnseenFresh(q)'
  <2>1. UnseenFresh(q) /\ age' = age
    BY <1>3 DEF Safe, Unseen
  <2> QED
    BY <1>0, <1>1, <1>2, <2>1 DEF UnseenFresh
<1>4. ASSUME state[q] = "Leading" PROVE LeadFresh(q)'
  <2>1. LeadFresh(q) /\ age' = age
    BY <1>4 DEF Safe, Believes
  <2> QED
    BY <1>0, <1>1, <1>2, <2>1 DEF LeadFresh, LastSeen
<1> QED
  BY <1>0, <1>3, <1>4 DEF Safe, Believes, Unseen

\* A replica that neither believes it leads nor holds the lease is safe.
LEMMA NothingToLose ==
  ASSUME NEW q \in Replica, ~Believes(q)', ~Held(q)', phase'[q] \notin Retiring
  PROVE  Safe(q)'
BY DEF Safe, Believes, Unseen

\* While somebody believes it leads, nobody else's write is accepted.
LEMMA NobodyElseWrites ==
  ASSUME NEW q \in Replica, NEW r \in Replica \ {q}, Safe(q),
         Believes(q) \/ Unseen(q)
  PROVE  ~Accepted(r)
BY DEF Safe, Believes, Unseen, Held, Accepted

\* The end of r's process, or the last write that it had sent.
LEMMA EndsSafe ==
  ASSUME TypeOK, AllSafe, NEW r \in Replica, NEW l, NEW a, NEW reads,
         Ends(r, l, a, reads), faults' \in {faults, faults + 1},
         reads = current \/ reads = {},
         \/ l = lease /\ a = age
         \/ l.holder = r /\ \A q \in Replica \ {r} : ~Held(q) \/ ~(Believes(q) \/ Unseen(q)),
         l \in [exists : BOOLEAN, holder : Holders, term : {LeaseTime, ShortTime}]
  PROVE  AllSafe'
<1> USE ElectionAssumption
<1>1. lease' = [l EXCEPT !.holder = Buried(r, l.holder)]
  BY DEF Ends
<1>2. /\ lease'.exists = l.exists /\ lease'.term = l.term
      /\ lease'.holder = IF l.holder = r THEN Ghost ELSE l.holder
  BY <1>1 DEF Buried
<1>3. Safe(r)'
  <2>1. ~Held(r)'
    BY <1>2 DEF Held
  <2>2. state'[r] = "Standby" /\ phase'[r] = "down"
    BY DEF Ends, Enter, TypeOK
  <2> QED
    BY <2>1, <2>2, NothingToLose DEF Believes, Retiring
<1>4. ASSUME NEW q \in Replica \ {r} PROVE Safe(q)'
  <2>0. Safe(q)
    BY DEF AllSafe
  <2>1. Others(r)
    BY DEF Others, Ends, Enter, Buried, TypeOK
  <2>2. CASE l = lease /\ a = age
    <3>1. Held(q)' <=> Held(q)
      BY <1>2, <2>2 DEF Held
    <3>2. Held(q) => lease'.term = lease.term /\ age' = age
      BY <1>2, <2>2 DEF Ends
    <3>3. Believes(q) \/ Unseen(q) => current' \subseteq {q}
      BY <2>0 DEF Ends, Safe
    <3> QED
      BY <2>0, <2>1, <3>1, <3>2, <3>3, StaysSafe
  <2>3. CASE l.holder = r /\ (~Held(q) \/ ~(Believes(q) \/ Unseen(q)))
    <3>1. ~Held(q)'
      BY <1>2, <2>3 DEF Held
    <3>2. ~Believes(q)
      BY <2>0, <2>3 DEF Safe
    <3>3. ~Believes(q)' /\ phase'[q] \notin Retiring
      BY <2>0, <2>1, <3>2 DEF Others, Believes, Safe
    <3> QED
      BY <3>1, <3>3, NothingToLose
  <2> QED
    BY <2>2, <2>3
<1> QED
  BY <1>3, <1>4 DEF AllSafe

---------------------------------------------------------------------------
(* Every step keeps every replica safe.                                    *)

\* The constants, the lags and the waits that the bounds below are made of.
LEMMA Waits ==
  ASSUME TypeOK, InTime, NEW r \in Replica
  PROVE  /\ CallLimit \in Nat /\ RenewTime \in Nat /\ Backoff \in Nat
         /\ timer[r] \in Nat /\ age \in Nat /\ timer[r] <= Patience(phase[r])
         /\ faults \in Nat /\ Lag(faults) \in Nat
         /\ Lag(faults + 1) = Lag(faults) + Backoff + CallLimit
BY CappedType, ElectionAssumption, LagStep DEF TypeOK, InTime

\* r's move leaves the lease alone, and reads it only for a lease nobody relies on.
LEMMA OthersStaySafe ==
  ASSUME TypeOK, AllSafe, NEW r \in Replica, Others(r),
         faults' \in {faults, faults + 1}, UNCHANGED <<lease, age>>,
         \A q \in Replica \ {r} : Believes(q) \/ Unseen(q) => current' \subseteq current
  PROVE  \A q \in Replica \ {r} : Safe(q)'
<1> SUFFICES ASSUME NEW q \in Replica \ {r} PROVE Safe(q)'
  OBVIOUS
<1>1. Safe(q) /\ (Held(q)' <=> Held(q))
  BY DEF AllSafe, Held
<1>2. Believes(q) \/ Unseen(q) => current' \subseteq {q}
  BY <1>1 DEF Safe
<1> QED
  BY <1>1, <1>2, StaysSafe

LEMMA OwnerChangedSafe ==
  ASSUME TypeOK, InTime, AllSafe, NEW r \in Replica, OwnerChanged(r)
  PROVE  AllSafe'
<1> USE ElectionAssumption
<1>1. Safe(r)
  BY DEF AllSafe
<1>2. UNCHANGED leaseVars /\ faults' = faults /\ owner' = [owner EXCEPT ![r] = HolderSeen]
  BY DEF OwnerChanged
<1>3. ASSUME HolderSeen = r, Publish(r, "Leading") PROVE Safe(r)'
  <2>1. Unseen(r) /\ phase[r] = "select"
    BY <1>3 DEF OwnerChanged, Unseen, Held, HolderSeen
  <2>2. age <= LastSeen
    BY <1>1, <2>1, Waits DEF Safe, UnseenFresh, LastSeen
  <2>3. state'[r] = "Leading" /\ phase'[r] = "select" /\ timer'[r] = 0 /\ owner'[r] = r
    BY <1>2, <1>3 DEF Publish, Enter, TypeOK
  <2>4. Held(r)' /\ lease' = lease /\ age' = age /\ current' = current
    BY <1>2, <2>1 DEF Unseen, Held, leaseVars
  <2>5. LeadFresh(r)'
    BY <1>2, <2>2, <2>3, <2>4, Waits DEF LeadFresh, LastSeen
  <2> QED
    BY <1>1, <2>1, <2>3, <2>4, <2>5 DEF Safe, Unseen, Retiring
<1>4. ASSUME HolderSeen # r PROVE Safe(r)'
  <2>1. ~Held(r) /\ ~Believes(r)
    BY <1>1, <1>4 DEF Held, HolderSeen, Safe
  <2>2. ~Held(r)'
    BY <1>2, <2>1 DEF Held, leaseVars
  <2>3. CASE Acquire(r, "create")
    BY <2>1, <2>2, <2>3, NothingToLose DEF Acquire, Enter, Believes, TypeOK, Retiring
  <2>4. CASE Publish(r, "Following")
    BY <2>1, <2>2, <2>4, NothingToLose DEF Publish, Enter, Believes, TypeOK, Retiring
  <2> QED
    BY <1>4, <2>3, <2>4 DEF OwnerChanged
<1>5. Safe(r)'
  BY <1>3, <1>4 DEF OwnerChanged
<1>6. Others(r)
  BY DEF OwnerChanged, Others, Publish, Acquire, Enter, TypeOK
<1> QED
  BY <1>2, <1>5, <1>6, OthersStaySafe DEF AllSafe, leaseVars

LEMMA GetServedSafe ==
  ASSUME Margin, TypeOK, InTime, AllSafe, NEW r \in Replica, GetServed(r), Others(r)
  PROVE  AllSafe'
<1> USE ElectionAssumption
<1>1. Safe(r) /\ phase[r] = "get"
  BY DEF AllSafe, GetServed
<1>2. UNCHANGED <<lease, age, owner, faults>>
  BY DEF GetServed
<1>3. ~Unseen(r)
  BY <1>1 DEF Safe, UnseenFresh, Retiring
<1>4. ASSUME NEW q \in Replica \ {r}, Believes(q) \/ Unseen(q)
      PROVE Publish(r, "Following") /\ UNCHANGED current
  <2>1. Safe(q) /\ Held(q)
    BY <1>4 DEF AllSafe, Safe, Unseen
  <2>2. \A skew \in -MaxSkew .. MaxSkew : ~Expired(skew)
    BY <1>4, <2>1, NotExpired
  <2>3. \A skew \in -MaxSkew .. MaxSkew : MustFollow(r, skew)
    BY <2>1, <2>2 DEF MustFollow, Held
  <2> QED
    BY <2>1, <2>3 DEF GetServed, Held
<1>5. Safe(r)'
  <2>1. CASE Publish(r, "Following") /\ lease.exists /\ \E skew \in -MaxSkew .. MaxSkew : MustFollow(r, skew)
    <3>1. ~Held(r)'
      BY <1>2, <2>1 DEF Held, MustFollow
    <3> QED
      BY <2>1, <3>1, NothingToLose DEF Publish, Enter, Believes, TypeOK, Retiring
  <2>2. CASE \E how : Acquire(r, how) /\ current' \subseteq current \cup {r}
    <3>1. state' = state /\ phase'[r] = "put" /\ timer'[r] = 0
      BY <2>2 DEF Acquire, Enter, TypeOK
    <3>2. ~Unseen(r)' /\ (Held(r)' <=> Held(r))
      BY <1>2, <1>3 DEF Unseen, Held
    <3>3. CASE state[r] = "Leading"
      <4>1. LeadFresh(r) /\ Held(r) /\ lease.term = LeaseTime /\ current \subseteq {r}
        BY <1>1, <3>3 DEF Safe, Believes
      <4>2. LeadFresh(r)'
        BY <1>1, <1>2, <3>1, <4>1, Waits DEF LeadFresh, LastSeen, Patience
      <4> QED
        BY <1>2, <2>2, <3>1, <3>2, <4>1, <4>2 DEF Safe, Retiring
    <3>4. CASE state[r] # "Leading"
      BY <3>1, <3>2, <3>4 DEF Safe, Believes, Retiring
    <3> QED
      BY <3>3, <3>4
  <2> QED
    BY <2>1, <2>2 DEF GetServed
<1> QED
  BY <1>2, <1>4, <1>5, OthersStaySafe DEF AllSafe

LEMMA PutServedSafe ==
  ASSUME TypeOK, InTime, AllSafe, NEW r \in Replica, PutServed(r), Others(r)
  PROVE  AllSafe'
<1> USE ElectionAssumption
<1>1. Safe(r) /\ phase[r] = "put"
  BY DEF AllSafe, PutServed
<1>2. UNCHANGED <<owner, faults>>
  BY DEF PutServed
<1>3. CASE Accepted(r)
  <2>1. /\ lease' = HeldBy(r) /\ age' = timer[r] /\ current' = {}
        /\ phase'[r] = "ack" /\ timer' = timer /\ state' = state
    BY <1>3 DEF PutServed, Take, TypeOK
  <2>2. Held(r)' /\ lease'.term = LeaseTime
    BY <2>1 DEF Held, HeldBy
  <2>3. Safe(r)'
    BY <2>1, <2>2, Waits DEF Safe, UnseenFresh, LeadFresh, Retiring
  <2>4. ASSUME NEW q \in Replica \ {r} PROVE Safe(q)'
    <3>1. Safe(q) /\ ~Believes(q)
      BY <1>3, NobodyElseWrites DEF AllSafe
    <3>2. ~Held(q)'
      BY <2>1 DEF Held, HeldBy
    <3>3. ~Believes(q)' /\ phase'[q] \notin Retiring
      BY <3>1 DEF Others, Believes, Safe
    <3> QED
      BY <3>2, <3>3, NothingToLose
  <2> QED
    BY <2>3, <2>4 DEF AllSafe
<1>4. CASE ~Accepted(r)
  <2>1. Fails(r) /\ current' = current \ {r} /\ UNCHANGED <<lease, age>>
    BY <1>4 DEF PutServed
  <2>2. state'[r] # "Leading" /\ phase'[r] = "backoff"
    BY <2>1 DEF Fails, FailSafe, Enter, TypeOK
  <2>3. ~Unseen(r)'
    BY <1>1, <1>2, <2>1 DEF Safe, Unseen, Held, UnseenFresh, Retiring
  <2>4. Safe(r)'
    BY <2>2, <2>3 DEF Safe, Believes, Retiring
  <2> QED
    BY <1>2, <2>1, <2>4, OthersStaySafe DEF AllSafe
<1> QED
  BY <1>3, <1>4

\* The moves that leave the lease and every read of it alone.
LEMMA QuietSafe ==
  ASSUME TypeOK, InTime, AllSafe, NEW r \in Replica, Others(r), UNCHANGED <<leaseVars, owner>>,
         \/ faults' = faults
            /\ (Deleted(r) \/ TimerFires(r) \/ Ack(r) \/ BackoffEnds(r) \/ Start(r))
         \/ faults' = faults /\ Enter(r, "retirePatch") /\ phase[r] = "retireGet"
            /\ UNCHANGED state
         \/ Retire(r) /\ state[r] = "Leading",
         CallLimit < RenewTime
  PROVE  AllSafe'
<1> USE ElectionAssumption DEF leaseVars
<1>1. Safe(r)
  BY DEF AllSafe
<1>2. UNCHANGED <<lease, age, current, owner>> /\ faults' \in {faults, faults + 1}
  BY DEF Retire
<1>3. /\ Held(r)' <=> Held(r)
      /\ Unseen(r)' <=> Unseen(r)
  BY <1>2 DEF Held, Unseen
<1>4. /\ CallLimit \in Nat /\ RenewTime \in Nat /\ Backoff \in Nat
      /\ timer[r] \in Nat /\ age \in Nat /\ timer[r] <= Patience(phase[r])
      /\ faults \in Nat /\ Lag(faults) \in Nat
      /\ Lag(faults + 1) = Lag(faults) + Backoff + CallLimit
  BY Waits
<1>5. CASE Deleted(r)
  <2>1. ~Held(r) /\ ~Believes(r)
    BY <1>1, <1>5 DEF Deleted, Held, Safe
  <2>2. ~Held(r)' /\ ~Believes(r)' /\ phase'[r] \notin Retiring
    BY <1>3, <1>5, <2>1 DEF Deleted, Acquire, Enter, Believes, TypeOK, Retiring
  <2> QED
    BY <1>2, <2>2, NothingToLose, OthersStaySafe DEF AllSafe
<1>6. CASE TimerFires(r) /\ faults' = faults
  <2>1. phase[r] = "select" /\ phase'[r] = "get" /\ timer'[r] = 0 /\ state' = state
        /\ timer[r] >= RenewTime
    BY <1>6 DEF TimerFires, Enter, TypeOK
  <2>2. ~Unseen(r)
    BY <1>1, <1>4, <2>1 DEF Safe, UnseenFresh
  <2>3. state[r] = "Leading" => LeadFresh(r)'
    BY <1>1, <1>2, <1>4, <1>6, <2>1 DEF Safe, LeadFresh, LastSeen, Patience
  <2>4. Safe(r)'
    BY <1>1, <1>2, <1>3, <2>1, <2>2, <2>3 DEF Safe, Believes, Retiring
  <2> QED
    BY <1>2, <2>4, OthersStaySafe DEF AllSafe
<1>7. CASE Ack(r) /\ faults' = faults
  <2>1. phase[r] = "ack" /\ phase'[r] = "select" /\ timer'[r] = 0 /\ state'[r] = "Leading"
    BY <1>7 DEF Ack, Publish, Enter, TypeOK
  <2>2. Held(r) /\ lease.term = LeaseTime /\ current \subseteq {r} /\ age <= timer[r]
    BY <1>1, <2>1 DEF Safe, Believes
  <2>3. LeadFresh(r)' /\ UnseenFresh(r)'
    BY <1>2, <1>4, <1>7, <2>1, <2>2 DEF LeadFresh, UnseenFresh, LastSeen, Patience
  <2>4. Safe(r)'
    BY <1>2, <1>3, <2>1, <2>2, <2>3 DEF Safe, Retiring
  <2> QED
    BY <1>2, <2>4, OthersStaySafe DEF AllSafe
<1>8. CASE BackoffEnds(r) /\ faults' = faults
  <2>1. phase[r] = "backoff" /\ phase'[r] = "select" /\ timer'[r] = 0 /\ state' = state
    BY <1>8 DEF BackoffEnds, Enter, TypeOK
  <2>2. state[r] # "Leading"
    BY <1>1, <2>1 DEF Safe, LeadFresh
  <2>3. Unseen(r) => UnseenFresh(r)'
    BY <1>1, <1>2, <1>4, <1>8, <2>1 DEF Safe, UnseenFresh, Patience
  <2>4. Safe(r)'
    BY <1>1, <1>2, <1>3, <2>1, <2>2, <2>3 DEF Safe, Believes, Retiring
  <2> QED
    BY <1>2, <2>4, OthersStaySafe DEF AllSafe
<1>9. CASE Start(r)
  <2>1. phase[r] = "down" /\ phase'[r] = "select" /\ state' = state
    BY <1>9 DEF Start, Enter, TypeOK
  <2>2. ~Held(r) /\ state[r] # "Leading"
    BY <1>1, <2>1 DEF Safe, LeadFresh
  <2>3. ~Held(r)' /\ ~Believes(r)' /\ phase'[r] \notin Retiring
    BY <1>3, <2>1, <2>2 DEF Believes, Retiring
  <2> QED
    BY <1>2, <2>3, NothingToLose, OthersStaySafe DEF AllSafe
<1>10. CASE Enter(r, "retirePatch") /\ phase[r] = "retireGet" /\ UNCHANGED state
            /\ faults' = faults
  <2>1. phase'[r] = "retirePatch" /\ timer'[r] = 0 /\ state[r] = "Leading"
    BY <1>1, <1>10 DEF Enter, TypeOK, Safe, Retiring
  <2>2. LeadFresh(r)' /\ (Unseen(r) => UnseenFresh(r)')
    BY <1>1, <1>2, <1>4, <1>10, <2>1 DEF Safe, LeadFresh, UnseenFresh, LastSeen, Patience, Retiring
  <2>3. Safe(r)'
    BY <1>1, <1>2, <1>3, <1>10, <2>1, <2>2 DEF Safe, Believes
  <2> QED
    BY <1>2, <2>3, OthersStaySafe DEF AllSafe
<1>11. CASE Retire(r) /\ state[r] = "Leading"
  <2>1. phase[r] = "select" /\ phase'[r] = "retireGet" /\ timer'[r] = 0 /\ state' = state
        /\ faults' = faults + 1
    BY <1>11 DEF Retire, Enter, TypeOK
  <2>2. LeadFresh(r)' /\ (Unseen(r) => UnseenFresh(r)')
    BY <1>1, <1>2, <1>4, <1>11, <2>1 DEF Safe, LeadFresh, UnseenFresh, LastSeen, Patience, Retiring
  <2>3. Safe(r)'
    BY <1>1, <1>2, <1>3, <1>11, <2>1, <2>2 DEF Safe, Believes
  <2> QED
    BY <1>2, <2>3, OthersStaySafe DEF AllSafe
<1> QED
  BY <1>5, <1>6, <1>7, <1>8, <1>9, <1>10, <1>11

LEMMA LeavesSafe ==
  ASSUME TypeOK, AllSafe, NEW r \in Replica,
         \/ Ends(r, lease, age, current) /\ faults' \in {faults, faults + 1}
         \/ RetirePatch(r)
         \/ Crash(r)
  PROVE  AllSafe'
<1>0. lease \in [exists : BOOLEAN, holder : Holders, term : {LeaseTime, ShortTime}]
  BY DEF TypeOK
<1>1. CASE Ends(r, lease, age, current) /\ faults' \in {faults, faults + 1}
  BY <1>0, <1>1, EndsSafe
<1>2. CASE Ends(r, [lease EXCEPT !.term = ShortTime], age, {}) /\ RetirePatch(r)
  <2>1. Safe(r) /\ phase[r] = "retirePatch" /\ faults' = faults
    BY <1>2 DEF AllSafe, RetirePatch
  <2>2. Held(r)
    BY <2>1 DEF Safe, Believes, Retiring
  <2>3. \A q \in Replica \ {r} : ~Held(q)
    BY <2>2 DEF Held
  <2>4. /\ [lease EXCEPT !.term = ShortTime]
             \in [exists : BOOLEAN, holder : Holders, term : {LeaseTime, ShortTime}]
        /\ [lease EXCEPT !.term = ShortTime].holder = r
    BY <1>0, <2>2 DEF Held
  <2> QED
    BY <1>2, <2>1, <2>3, <2>4, EndsSafe
<1>3. CASE Ends(r, HeldBy(r), timer[r], {}) /\ Accepted(r) /\ Crash(r)
  <2>1. \A q \in Replica \ {r} : ~(Believes(q) \/ Unseen(q))
    BY <1>3, NobodyElseWrites DEF AllSafe
  <2>2. /\ HeldBy(r) \in [exists : BOOLEAN, holder : Holders, term : {LeaseTime, ShortTime}]
        /\ HeldBy(r).holder = r
    BY DEF HeldBy, Holders
  <2>3. faults' = faults + 1
    BY <1>3 DEF Crash
  <2> QED
    BY <1>3, <2>1, <2>2, <2>3, EndsSafe
<1> QED
  BY <1>1, <1>2, <1>3 DEF RetirePatch, Crash

LEMMA ErrorSafe ==
  ASSUME TypeOK, InTime, AllSafe, NEW r \in Replica, Error(r), Others(r)
  PROVE  AllSafe'
<1> USE ElectionAssumption
<1>1. Safe(r)
  BY DEF AllSafe
<1>2. UNCHANGED <<lease, age, owner>> /\ current' = current \ {r} /\ faults' = faults + 1
  BY DEF Error
<1>3. state'[r] # "Leading" /\ phase'[r] = "backoff" /\ timer'[r] = 0
  BY DEF Error, Fails, FailSafe, Enter, TypeOK
<1>4. /\ Held(r)' <=> Held(r)
      /\ Unseen(r)' <=> Unseen(r)
  BY <1>2 DEF Held, Unseen
<1>5. Unseen(r) => UnseenFresh(r)'
  <2>1. Unseen(r) => phase[r] \in {"select", "ack"}
    BY <1>1 DEF Error, Safe, UnseenFresh, Calls, Retiring
  <2>2. Unseen(r) => age <= 2 * CallLimit + Lag(faults)
    BY <1>1, <2>1, Waits DEF Safe, UnseenFresh, Patience
  <2> QED
    BY <1>2, <1>3, <2>2, Waits DEF UnseenFresh
<1>6. Safe(r)'
  BY <1>1, <1>2, <1>3, <1>4, <1>5 DEF Safe, Believes, Retiring
<1> QED
  BY <1>2, <1>6, OthersStaySafe DEF AllSafe

\* A second more of age is a second more of waiting.
LEMMA TickSafe ==
  ASSUME Margin, TypeOK, InTime, InTime', AllSafe, Tick
  PROVE  AllSafe'
<1> USE ElectionAssumption
<1> SUFFICES ASSUME NEW r \in Replica PROVE Safe(r)'
  BY DEF AllSafe
<1>1. Safe(r)
  BY DEF AllSafe
<1>2. UNCHANGED <<lease, current, state, owner, phase, faults>>
  BY DEF Tick
<1>3. /\ Held(r)' <=> Held(r)
      /\ Believes(r)' <=> Believes(r)
      /\ Unseen(r)' <=> Unseen(r)
  BY <1>2 DEF Held, Believes, Unseen
<1>4. /\ CallLimit \in Nat /\ RenewTime \in Nat /\ Backoff \in Nat
      /\ timer[r] \in Nat /\ age \in Nat /\ faults \in Nat /\ Lag(faults) \in Nat
  BY Waits
<1>5. ASSUME phase[r] # "down", NEW n \in Nat, age <= n + timer[r]
      PROVE  age' <= n + timer'[r]
  BY <1>4, <1>5, CappedType DEF Tick, Capped
<1>6. phase[r] = "ack" => age' <= timer'[r]
  <2>1. phase[r] = "ack" => age <= 0 + timer[r]
    BY <1>1, <1>4 DEF Safe
  <2>2. phase[r] = "ack" => age' <= 0 + timer'[r] /\ timer'[r] \in Nat
    BY <1>4, <1>5, <2>1, CappedType DEF Tick
  <2> QED
    BY <2>2
<1>7. ASSUME Unseen(r) PROVE UnseenFresh(r)'
  <2>1. UnseenFresh(r)
    BY <1>1, <1>7 DEF Safe
  <2>2. CASE phase[r] = "select"
    <3>1. timer[r] < CallLimit
      BY <1>4, <1>7, <2>2 DEF Tick, Margin, Due, WatchPending, HolderSeen, Unseen, Held
    <3>2. timer'[r] <= CallLimit
      BY <1>4, <2>2, <3>1, CappedType DEF Tick, Capped
    <3>3. age' <= CallLimit + Lag(faults) + timer'[r]
      BY <1>4, <1>5, <2>1, <2>2 DEF UnseenFresh
    <3> QED
      BY <1>2, <2>2, <3>2, <3>3 DEF UnseenFresh
  <2>3. CASE phase[r] = "backoff"
    <3>1. faults > 0 /\ Lag(faults) >= Backoff + CallLimit
      BY <1>4, <2>1, <2>3, LagStep, LagMonotone DEF UnseenFresh, Lag
    <3>2. age <= (CallLimit + Lag(faults) - Backoff) + timer[r]
      BY <1>4, <2>1, <2>3 DEF UnseenFresh
    <3>3. CallLimit + Lag(faults) - Backoff \in Nat
      BY <1>4, <3>1
    <3>4. age' <= (CallLimit + Lag(faults) - Backoff) + timer'[r]
      BY <1>5, <2>3, <3>2, <3>3
    <3>5. age' \in Nat /\ timer'[r] \in Nat
      BY <1>4, <2>3, CappedType DEF Tick
    <3> QED
      BY <1>2, <1>4, <2>3, <3>1, <3>4, <3>5 DEF UnseenFresh
  <2> QED
    BY <1>2, <2>1, <2>2, <2>3 DEF UnseenFresh
<1>8. ASSUME state[r] = "Leading" PROVE LeadFresh(r)'
  <2>1. LeadFresh(r) /\ phase[r] # "down"
    BY <1>1, <1>8 DEF Safe, LeadFresh
  <2>2. /\ LastSeen \in Nat /\ LastSeen + RenewTime \in Nat
        /\ LastSeen + RenewTime + CallLimit \in Nat
    BY <1>4 DEF LastSeen
  <2>3. LastSeen' = LastSeen
    BY <1>2 DEF LastSeen
  <2>4. phase[r] = "select" => age' <= LastSeen + timer'[r]
    BY <1>5, <2>1, <2>2 DEF LeadFresh
  <2>5. phase[r] \in {"get", "retireGet"} => age' <= LastSeen + RenewTime + timer'[r]
    BY <1>5, <2>1, <2>2 DEF LeadFresh
  <2>6. phase[r] \in {"put", "retirePatch"} =>
          age' <= LastSeen + RenewTime + CallLimit + timer'[r]
    BY <1>5, <2>1, <2>2 DEF LeadFresh
  <2> QED
    BY <1>2, <2>1, <2>3, <2>4, <2>5, <2>6 DEF LeadFresh
<1> QED
  BY <1>1, <1>2, <1>3, <1>6, <1>7, <1>8 DEF Safe

LEMMA InitSafe == Init => LeaseInv
<1> SUFFICES ASSUME Init PROVE InTime /\ AllSafe /\ TypeOK
  BY DEF LeaseInv
<1>1. InTime
  BY ElectionAssumption DEF Init, InTime, Patience
<1>2. AllSafe
  BY DEF Init, AllSafe, Safe, Believes, Unseen, Held, NoLease, Retiring
<1>3. TypeOK
  BY InitType
<1> QED
  BY <1>1, <1>2, <1>3

LEMMA StepSafe ==
  ASSUME Margin, TypeOK, InTime, AllSafe, NEW r \in Replica, Step(r)
  PROVE  AllSafe'
<1>0. Others(r)
  BY OthersMove
<1>1. CASE OwnerChanged(r)
  BY <1>1, OwnerChangedSafe
<1>2. CASE GetServed(r)
  BY <1>0, <1>2, GetServedSafe
<1>3. CASE PutServed(r)
  BY <1>0, <1>3, PutServedSafe
<1>4. CASE Deleted(r) \/ TimerFires(r) \/ Ack(r) \/ BackoffEnds(r) \/ Start(r)
  <2>1. UNCHANGED <<leaseVars, owner>> /\ faults' = faults
    BY <1>4 DEF Deleted, TimerFires, Ack, BackoffEnds, Start
  <2> QED
    BY <1>0, <1>4, <2>1, QuietSafe DEF Margin
<1>5. CASE RetireGet(r)
  <2>1. CASE Ends(r, lease, age, current)
    BY <1>5, <2>1, LeavesSafe DEF RetireGet
  <2>2. CASE Enter(r, "retirePatch") /\ UNCHANGED <<leaseVars, state, owner, method>>
    BY <1>0, <1>5, <2>2, QuietSafe DEF RetireGet, Margin
  <2> QED
    BY <1>5, <2>1, <2>2 DEF RetireGet
<1>6. CASE RetirePatch(r)
  BY <1>6, LeavesSafe
<1> QED
  BY <1>1, <1>2, <1>3, <1>4, <1>5, <1>6 DEF Step

LEMMA FaultSafe ==
  ASSUME Margin, TypeOK, InTime, AllSafe, Fault
  PROVE  tampered' \/ AllSafe'
<1>1. ASSUME NEW r \in Replica, Retire(r) PROVE AllSafe'
  <2>0. Others(r)
    BY <1>1, OthersMove
  <2>1. CASE state[r] = "Leading"
    BY <1>1, <2>0, <2>1, QuietSafe DEF Retire, Margin
  <2>2. CASE state[r] # "Leading"
    BY <1>1, <2>2, LeavesSafe DEF Retire
  <2> QED
    BY <2>1, <2>2
<1>2. ASSUME NEW r \in Replica, Crash(r) PROVE AllSafe'
  BY <1>2, LeavesSafe
<1>3. ASSUME NEW r \in Replica, Error(r) PROVE AllSafe'
  BY <1>3, OthersMove, ErrorSafe
<1>4. CASE DeleteLease \/ ClearHolder
  BY <1>4 DEF DeleteLease, ClearHolder
<1> QED
  BY <1>1, <1>2, <1>3, <1>4 DEF Fault

LEMMA TamperedStays ==
  ASSUME TypeOK, [Next]_vars, tampered
  PROVE  tampered'
BY DEF Next, Tick, Step, Fault, DeleteLease, ClearHolder, vars, TypeOK

\* LeaseInv is inductive, under a timing that leaves the lease its margin.
LEMMA LeaseInvariant ==
  ASSUME Margin
  PROVE  Spec => []LeaseInv
<1>1. Init => LeaseInv
  BY InitSafe
<1>2. LeaseInv /\ [Next]_vars => LeaseInv'
  <2> SUFFICES ASSUME LeaseInv, [Next]_vars PROVE LeaseInv'
    OBVIOUS
  <2>1. TypeOK /\ InTime /\ TypeOK'
    BY NextType DEF LeaseInv
  <2>2. InTime'
    <3>1. CASE Tick
      BY <2>1, <3>1, TickInTime DEF Margin
    <3>2. CASE UNCHANGED vars
      BY <2>1, <3>2 DEF vars, replicaVars, InTime
    <3> QED
      BY <2>1, <3>1, <3>2, StepInTime, FaultInTime DEF Next
  <2>3. CASE tampered
    BY <2>1, <2>2, <2>3, TamperedStays DEF LeaseInv
  <2>4. CASE ~tampered
    <3>1. AllSafe
      BY <2>4 DEF LeaseInv
    <3>2. CASE Tick
      BY <2>1, <2>2, <3>1, <3>2, TickSafe DEF LeaseInv
    <3>3. CASE \E r \in Replica : Step(r)
      BY <2>1, <2>2, <3>1, <3>3, StepSafe DEF LeaseInv
    <3>4. CASE Fault
      BY <2>1, <2>2, <3>1, <3>4, FaultSafe DEF LeaseInv
    <3>5. CASE UNCHANGED vars
      BY <2>1, <2>2, <3>1, <3>5
      DEF LeaseInv, vars, leaseVars, replicaVars, AllSafe, Safe, Believes, Unseen, Held,
          UnseenFresh, LeadFresh, LastSeen
    <3> QED
      BY <3>2, <3>3, <3>4, <3>5 DEF Next
  <2> QED
    BY <2>3, <2>4
<1> QED
  BY <1>1, <1>2, PTL DEF Spec

---------------------------------------------------------------------------
(* The theorems.                                                           *)

LEMMA BackedBy == LeaseInv => LeaseBacked
BY DEF LeaseInv, LeaseBacked, AllSafe, Safe, Leads, Believes, Held

LEMMA OneHolderOneLeader == LeaseBacked => AtMostOneLeader
BY DEF LeaseBacked, AtMostOneLeader

\* Until somebody tampers with the lease, a replica that tells its reconciler it
\* leads holds the lease (renew, new_owner, fail_safe, GRACE): for any number of
\* replicas and any timing that leaves the Margin.
THEOREM LeadersHoldTheLease ==
  ASSUME Margin
  PROVE  Spec => []LeaseBacked
BY LeaseInvariant, BackedBy, PTL

\* Until then no two replicas reconcile at once.
THEOREM OneLeaderAtMost ==
  ASSUME Margin
  PROVE  Spec => []AtMostOneLeader
BY LeadersHoldTheLease, OneHolderOneLeader, PTL

---------------------------------------------------------------------------
(* Election implements Leadership.                                         *)

Leaders == {r \in Replica : Leads(r)}

\* A move of r changes at most whether r leads.
LEMMA OneAtATime ==
  ASSUME NEW r \in Replica, Others(r)
  PROVE  Leaders' \in {Leaders, Leaders \cup {r}, Leaders \ {r}}
<1>1. \A q \in Replica \ {r} : Leads(q)' <=> Leads(q)
  BY DEF Others, Leads
<1>2. CASE Leads(r)' <=> Leads(r)
  <2>1. Leaders' = Leaders
    BY <1>1, <1>2 DEF Leaders
  <2> QED
    BY <2>1
<1>3. CASE Leads(r)' /\ ~Leads(r)
  <2>1. Leaders' = Leaders \cup {r}
    BY <1>1, <1>3 DEF Leaders
  <2> QED
    BY <2>1
<1>4. CASE ~Leads(r)' /\ Leads(r)
  <2>1. Leaders' = Leaders \ {r}
    BY <1>1, <1>4 DEF Leaders
  <2> QED
    BY <2>1
<1> QED
  BY <1>2, <1>3, <1>4

LEMMA MoveKeepsPromise ==
  ASSUME NEW r \in Replica, Others(r), UNCHANGED tampered,
         AtMostOneLeader'
  PROVE  Promise!Next \/ UNCHANGED Promise!vars
<1>1. Leaders' \in {Leaders, Leaders \cup {r}, Leaders \ {r}}
  BY OneAtATime
<1>2. CASE Leaders' = Leaders
  BY <1>2 DEF Promise!vars, Leaders
<1>3. CASE Leaders' = Leaders \cup {r} /\ r \notin Leaders
  <2>1. ~tampered => Leaders = {}
    <3>1. ~tampered => \A q \in Leaders' : q = r
      BY <1>3 DEF AtMostOneLeader, Leaders
    <3> QED
      BY <1>3, <3>1
  <2>2. Promise!Gain(r)
    BY <1>3, <2>1 DEF Promise!Gain, Leaders
  <2> QED
    BY <2>2 DEF Promise!Next
<1>4. CASE Leaders' = Leaders \ {r} /\ r \in Leaders
  <2>1. Promise!Lose(r)
    BY <1>4 DEF Promise!Lose, Leaders
  <2> QED
    BY <2>1 DEF Promise!Next
<1>5. Leaders' = Leaders \/ (Leaders' = Leaders \cup {r} /\ r \notin Leaders)
        \/ (Leaders' = Leaders \ {r} /\ r \in Leaders)
  BY <1>1
<1> QED
  BY <1>2, <1>3, <1>4, <1>5

LEMMA NextKeepsPromise ==
  ASSUME TypeOK, AtMostOneLeader', [Next]_vars
  PROVE  Promise!Next \/ UNCHANGED Promise!vars
<1>1. CASE Tick \/ UNCHANGED vars
  <2>1. Leaders' = Leaders /\ tampered' = tampered
    BY <1>1 DEF Tick, vars, replicaVars, Leaders, Leads
  <2> QED
    BY <2>1 DEF Promise!vars, Leaders
<1>2. ASSUME NEW r \in Replica, UNCHANGED tampered,
             Step(r) \/ Retire(r) \/ Crash(r) \/ Error(r)
      PROVE  Promise!Next \/ UNCHANGED Promise!vars
  BY <1>2, OthersMove, MoveKeepsPromise
<1>3. CASE DeleteLease \/ ClearHolder
  <2>1. Leaders' = Leaders /\ tampered' = TRUE
    BY <1>3 DEF DeleteLease, ClearHolder, replicaVars, Leaders, Leads
  <2>2. Promise!Tamper
    BY <2>1 DEF Promise!Tamper, Leaders
  <2> QED
    BY <2>2 DEF Promise!Next
<1> QED
  BY <1>1, <1>2, <1>3 DEF Next, Step, Fault

\* The election keeps the promise that the reconciler relies on: whoever is
\* told is_leader gained it when nobody else had it, for any number of replicas
\* and any timing that leaves the Margin.
THEOREM ImplementsLeadership ==
  ASSUME Margin
  PROVE  Spec => KeepsPromise
<1>1. Init => Promise!Init
  BY DEF Init, Promise!Init, Leads
<1>2. TypeOK /\ AtMostOneLeader' /\ [Next]_vars => [Promise!Next]_(Promise!vars)
  BY NextKeepsPromise
<1> QED
  BY <1>1, <1>2, TypeCorrect, OneLeaderAtMost, PTL DEF Spec, KeepsPromise, Promise!Spec
=============================================================================
