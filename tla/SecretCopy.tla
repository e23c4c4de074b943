----------------------------- MODULE SecretCopy -----------------------------
(***************************************************************************)
(* One secret in one target namespace, and everybody who writes it: the    *)
(* reconciles of Whispers that share the name (a copy bears the name of    *)
(* its Whisper; Whispers are watched in every namespace, and a Whisper may *)
(* be created again while a replica still reconciles its predecessor), and *)
(* the tenants of the namespace.  src/src/ext.rs builds the copy,          *)
(* src/src/controller.rs gets, applies and deletes it.                     *)
(*                                                                         *)
(* The operator writes by server-side apply, not forced, as one field      *)
(* manager for all Whispers.  A secret is therefore kept field by field,   *)
(* each with its value and its managers.  The name of a manager is what    *)
(* the client says it is, so tenants may write under the operator's.  A    *)
(* step of a reconcile is one request at the instant the server serves it. *)
(***************************************************************************)
EXTENDS Naturals

CONSTANTS
  Whisper,   \* Whispers of one name; each stands for its uid
  Value,     \* contents a secret may have under the source's key
  On,        \* the value of a field that is only there or not
  Absent,    \* the value of a field that is not there
  Guises,    \* managers under which tenants write
  Events,    \* kinds of environment events that may happen
  MaxEvents  \* bound: how many of them happen

Us == "whisperer.jeffl.es"            \* FIELD_MANAGER, applying
Alias == "whisperer.jeffl.es/update"  \* its name, updating: a manager of its own
Them == "tenant"                      \* any other name
Ours == {Us, Alias}
Managers == Ours \cup {Them}

Kinds == {"want", "source", "create", "clone", "edit", "remove", "fail"}

ASSUME CopyAssumption ==
  /\ On \notin Value \cup Whisper /\ Absent \notin Value \cup Whisper
  /\ On # Absent
  /\ Guises \subseteq Managers
  /\ Events \subseteq Kinds
  /\ MaxEvents \in Nat

VARIABLES
  source,  \* per Whisper, its source secret, field by field
  wants,   \* Whispers that have the namespace among their targets
  secret,  \* the secret that bears the name
  pc,      \* per Whisper, the await its reconcile is at
  read,    \* per Whisper, the source its reconcile has read
  intact,  \* Whispers whose verified secret has not changed since
  spent    \* environment events so far

vars == <<source, wants, secret, pc, read, intact, spent>>

---------------------------------------------------------------------------
(* Secrets.                                                                *)

Managed == {"owner", "marker"}  \* keys under MANAGED_PREFIX
Tooling == {"tool"}             \* keys under one of TOOLING_PREFIXES
\* plain: another label or annotation; data: a key of the source's data; other:
\* a key that no source has.
Field == Managed \cup Tooling \cup {"plain", "data", "immutable", "other"}

Contents(f) ==
  CASE f = "owner" -> Whisper \cup {Absent}
    [] f \in {"data", "other"} -> Value \cup {Absent}
    [] OTHER -> {On, Absent}
FieldsType == {fields \in [Field -> Value \cup Whisper \cup {On, Absent}] :
                 \A f \in Field : fields[f] \in Contents(f)}

\* History: written, the operator has written this very object; posed, a tenant
\* has, under the operator's name.
NoSecret == [value |-> [f \in Field |-> Absent], by |-> [f \in Field |-> {}],
             written |-> FALSE, posed |-> FALSE]

\* A source: as crafted as may be, with a tooling label and somebody's marker.
Source(v, plain, immutable, forged) ==
  [f \in Field |-> CASE f = "data" -> v [] f = "plain" -> plain
                     [] f = "immutable" -> immutable [] f = "owner" -> forged
                     [] f = "other" -> Absent [] OTHER -> On]

\* Mutant: the marker's value is stamped under the wrong key.
Stamp_WrongKey(w) == [owner |-> On, marker |-> On]
Stamp(w) == [owner |-> w, marker |-> On]

\* dup: nothing under the operator's own prefix or a tool's is carried over.
Dup(src, w) ==
  [f \in Field |-> IF f \in Managed THEN Stamp(w)[f]
                   ELSE IF f \in Tooling THEN Absent ELSE src[f]]

\* Mutant: labels alone decide.
IsOwnedCopy_Labels(s, w) == s.value["owner"] = w /\ s.value["marker"] = On

\* is_owned_copy: attributed, marked, and our name is among its managers'.
IsOwnedCopy(s, w) ==
  /\ s.value["owner"] = w
  /\ s.value["marker"] = On
  /\ \E f \in Field : s.by[f] \cap Ours # {}

---------------------------------------------------------------------------
(* The API server.                                                         *)

\* Mutant: the apply is forced.
Conflicts_Forced(s, config) == FALSE

\* A field of the configuration that somebody else set to something else.
Conflicts(s, config) ==
  \E f \in Field : /\ config[f] \notin {Absent, s.value[f]}
                   /\ s.by[f] \ {Us} # {}

\* Mutant: a merge patch, which leaves what the source no longer has.
Applied_Merge(s, config) ==
  [value |-> [f \in Field |-> IF config[f] # Absent THEN config[f] ELSE s.value[f]],
   by |-> [f \in Field |-> IF config[f] # Absent THEN s.by[f] \cup {Us} ELSE s.by[f]],
   written |-> TRUE, posed |-> s.posed]

\* The secret after server-side apply: what we alone had set and do not set any
\* more goes; what others agree on is shared.
Applied(s, config) ==
  [value |-> [f \in Field |-> IF config[f] # Absent THEN config[f]
                              ELSE IF s.by[f] = {Us} THEN Absent ELSE s.value[f]],
   by |-> [f \in Field |-> IF config[f] = Absent THEN s.by[f] \ {Us}
                           ELSE IF config[f] = s.value[f] THEN s.by[f] \cup {Us}
                           ELSE {Us}],
   written |-> TRUE, posed |-> s.posed]

\* An immutable secret keeps its data, and stays immutable.
Frozen(s, t) ==
  /\ s.value["immutable"] = On
  /\ \E f \in {"immutable", "data", "other"} : t.value[f] # s.value[f]

Accepts(s, config) == ~Conflicts(s, config) /\ ~Frozen(s, Applied(s, config))

\* The secret becomes s; a change voids the preconditions taken from the old one.
SetSecret(s) ==
  /\ secret' = s
  /\ intact' = IF s = secret THEN intact ELSE {}

---------------------------------------------------------------------------
(* A reconcile of w, as far as this namespace goes.                        *)

Pcs == {"idle", "get", "patch", "getDelete", "delete"}

Goto(w, label) == pc' = [pc EXCEPT ![w] = label]

\* apply has read the source and found the namespace among its targets, or
\* among what is to be reclaimed; cleanup reclaims in the same way.
Begin(w) ==
  /\ pc[w] = "idle"
  /\ read' = [read EXCEPT ![w] = source[w]]
  /\ Goto(w, IF w \in wants THEN "get" ELSE "getDelete")
  /\ UNCHANGED <<source, wants, secret, intact, spent>>

\* Never adopt a secret that is not one of w's copies.
MayWrite(s, w) == s = NoSecret \/ IsOwnedCopy(s, w)

GetForWrite(w) ==
  /\ pc[w] = "get"
  /\ Goto(w, IF MayWrite(secret, w) THEN "patch" ELSE "idle")
  /\ UNCHANGED <<source, wants, secret, read, intact, spent>>

\* The apply bears no precondition: it meets whatever is there by now. An answer
\* of conflict or invalid ends the reconcile, to be tried again.
Patch(w) ==
  LET config == Dup(read[w], w) IN
  /\ pc[w] = "patch"
  /\ IF Accepts(secret, config) THEN SetSecret(Applied(secret, config))
                                ELSE UNCHANGED <<secret, intact>>
  /\ Goto(w, "idle")
  /\ UNCHANGED <<source, wants, read, spent>>

GetForDelete(w) ==
  /\ pc[w] = "getDelete"
  /\ IF IsOwnedCopy(secret, w)
       THEN Goto(w, "delete") /\ intact' = intact \cup {w}
       ELSE Goto(w, "idle") /\ UNCHANGED intact
  /\ UNCHANGED <<source, wants, secret, read, spent>>

\* Uid and resourceVersion of the secret verified are preconditions.
Delete(w) ==
  /\ pc[w] = "delete"
  /\ IF w \in intact THEN SetSecret(NoSecret) ELSE UNCHANGED <<secret, intact>>
  /\ Goto(w, "idle")
  /\ UNCHANGED <<source, wants, read, spent>>

Work(w) ==
  Begin(w) \/ GetForWrite(w) \/ Patch(w) \/ GetForDelete(w) \/ Delete(w)

---------------------------------------------------------------------------
(* Users of the Whispers and of the namespace.                             *)

Happens(kind) ==
  /\ kind \in Events
  /\ spent < MaxEvents
  /\ spent' = spent + 1

\* w's Whisper gains or loses the target: spec, consent, deletion.
WantChanges(w) ==
  /\ Happens("want")
  /\ wants' = (wants \ {w}) \cup ({w} \ wants)
  /\ UNCHANGED <<source, secret, pc, read, intact>>

SourceChanges(w) ==
  /\ Happens("source")
  /\ \E v \in Value, plain, immutable \in {On, Absent} :
       source' = [source EXCEPT
                    ![w] = Source(v, plain, immutable, source[w]["owner"])]
  /\ UNCHANGED <<wants, secret, pc, read, intact>>

\* s with one field set by a tenant under the name m, or taken out.
Edited(s, f, v, m) ==
  [value |-> [s.value EXCEPT ![f] = v],
   by |-> [s.by EXCEPT ![f] = IF v = Absent THEN {} ELSE {m}],
   written |-> s.written,
   posed |-> s.posed \/ (v # Absent /\ m \in Ours)]

\* An object like s that a tenant creates under the name m.
Cloned(s, m) ==
  [value |-> s.value,
   by |-> [f \in Field |-> IF s.value[f] = Absent THEN {} ELSE {m}],
   written |-> FALSE,
   posed |-> m \in Ours]

\* A tenant's own secret of that name: of the source's key, or of another one.
TenantCreates ==
  /\ Happens("create")
  /\ secret = NoSecret
  /\ \E f \in {"data", "other"}, v \in Value, m \in Guises :
       SetSecret(Edited(NoSecret, f, v, m))
  /\ UNCHANGED <<source, wants, pc, read>>

\* A tenant puts a copy of the copy in its place, as a restore from backup does,
\* with its labels and under any name.
TenantClones ==
  /\ Happens("clone")
  /\ secret.written
  /\ \E m \in Guises : SetSecret(Cloned(secret, m))
  /\ UNCHANGED <<source, wants, pc, read>>

\* A tenant edits one field of whatever is there, or takes it out.
TenantEdits ==
  /\ Happens("edit")
  /\ secret # NoSecret
  /\ \E f \in Field \ {"immutable"}, m \in Guises :
       \E v \in Contents(f) \ {secret.value[f]} :
         LET edited == Edited(secret, f, v, m)
         IN ~Frozen(secret, edited) /\ edited # NoSecret /\ SetSecret(edited)
  /\ UNCHANGED <<source, wants, pc, read>>

TenantRemoves ==
  /\ Happens("remove")
  /\ secret # NoSecret
  /\ SetSecret(NoSecret)
  /\ UNCHANGED <<source, wants, pc, read>>

\* A call fails, a process ends or steps down: the reconcile is begun anew.
Fail(w) ==
  /\ Happens("fail")
  /\ pc[w] # "idle"
  /\ Goto(w, "idle")
  /\ UNCHANGED <<source, wants, secret, read, intact>>

Environment ==
  \/ \E w \in Whisper : WantChanges(w) \/ SourceChanges(w) \/ Fail(w)
  \/ TenantCreates \/ TenantClones \/ TenantEdits \/ TenantRemoves

Init ==
  /\ \E v \in Value, forged \in [Whisper -> Whisper] :
       source = [w \in Whisper |-> Source(v, On, Absent, forged[w])]
  /\ wants \in SUBSET Whisper
  /\ secret = NoSecret
  /\ pc = [w \in Whisper |-> "idle"]
  /\ read = source
  /\ intact = {}
  /\ spent = 0

Next == Environment \/ \E w \in Whisper : Work(w)

\* Each Whisper is reconciled over and over (Scheduling).
Fairness == \A w \in Whisper : WF_vars(Work(w))

Spec == Init /\ [][Next]_vars
FairSpec == Spec /\ Fairness

---------------------------------------------------------------------------
(* Safety.                                                                 *)

\* Type invariant; a field is there exactly when somebody manages it.
TypeOK ==
  /\ source \in [Whisper -> FieldsType]
  /\ wants \in SUBSET Whisper
  /\ secret \in [value : FieldsType, by : [Field -> SUBSET Managers],
                  written : BOOLEAN, posed : BOOLEAN]
  /\ \A f \in Field : secret.value[f] = Absent <=> secret.by[f] = {}
  /\ pc \in [Whisper -> Pcs]
  /\ read \in [Whisper -> FieldsType]
  /\ intact \in SUBSET Whisper
  /\ spent \in Nat /\ spent <= MaxEvents

\* A write never changes what anybody else applies or has set, neither in a secret
\* planted since the get nor in a copy edited by hand (the apply in the write loop).
TenantsValuesKept ==
  [][\A w \in Whisper, f \in Field :
       pc[w] = "patch" /\ pc'[w] # "patch" /\ secret.by[f] \ {Us} # {}
         => secret'.value[f] = secret.value[f]]_vars

\* The operator deletes only what was written under its name, by itself or by
\* somebody who poses as it: not a secret that bears the name of a copy, nor one
\* that bears all its labels, nor one put in a copy's place since that was verified
\* (is_owned_copy, delete).
OnlySignedDeleted ==
  [][\A w \in Whisper :
       pc[w] = "delete" /\ pc'[w] # "delete" /\ secret' = NoSecret /\ secret # NoSecret
         => secret.written \/ secret.posed]_vars

\* "Copies carry this manager in their managedFields, which (unlike the labels) a
\* tenant cannot forge - so we use it to confirm a secret is genuinely
\* operator-managed before deleting it" (FIELD_MANAGER).
OnlyWrittenDeleted ==
  [][\A w \in Whisper :
       pc[w] = "delete" /\ pc'[w] # "delete" /\ secret' = NoSecret /\ secret # NoSecret
         => secret.written]_vars

\* "Never adopt a pre-existing secret we didn't create: if an object of this name
\* already exists in the target and isn't one of our copies, refuse to overwrite
\* it" (apply).
NeverAdopts ==
  [][\A w \in Whisper :
       pc[w] = "patch" /\ pc'[w] # "patch" /\ secret' # secret
         => MayWrite(secret, w)]_vars

---------------------------------------------------------------------------
(* Liveness, once the environment has spent its events.                    *)

\* What stands at the name and w may not or cannot write.
Blocked(w) ==
  \/ secret # NoSecret /\ ~IsOwnedCopy(secret, w)
  \/ ~Accepts(secret, Dup(source[w], w))

\* Every field of the source is there, and none that we alone keep there is not
\* the source's any more.
Mirrored(w) ==
  \A f \in Field :
    LET wanted == Dup(source[w], w)[f] IN
    IF wanted # Absent THEN secret.value[f] = wanted ELSE secret.by[f] # {Us}

\* A copy comes to mirror its source, labels taken out of the source included,
\* or is reclaimed, whatever was edited, removed, planted or cloned on the way.
Settles ==
  \A w \in Whisper :
    <>[](IF w \in wants THEN Blocked(w) \/ Mirrored(w) ELSE ~IsOwnedCopy(secret, w))
=============================================================================
