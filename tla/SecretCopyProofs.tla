-------------------------- MODULE SecretCopyProofs --------------------------
(***************************************************************************)
(* What holds of SecretCopy for any number of Whispers that share a name,  *)
(* any values, and any sequence of edits, plants and clones by tenants,    *)
(* under whatever names.                                                   *)
(***************************************************************************)
EXTENDS SecretCopy, TLAPS

SecretType ==
  [value : FieldsType, by : [Field -> SUBSET Managers],
   written : BOOLEAN, posed : BOOLEAN]

\* A field is there exactly when somebody manages it.
WellManaged(s) == \A f \in Field : s.value[f] = Absent <=> s.by[f] = {}

LEMMA ContentsType ==
  ASSUME NEW f \in Field
  PROVE  Absent \in Contents(f) /\ Contents(f) \subseteq Value \cup Whisper \cup {On, Absent}
  BY DEF Contents, Field, Managed, Tooling

\* Whoever crafts it, a source has the fields of a secret.
LEMMA SourceType ==
  ASSUME NEW v \in Value, NEW plain \in {On, Absent}, NEW immutable \in {On, Absent},
         NEW forged \in Whisper \cup {Absent}
  PROVE  Source(v, plain, immutable, forged) \in FieldsType
  <1> DEFINE src == Source(v, plain, immutable, forged)
  <1>1. \A f \in Field : src[f] \in Contents(f)
    BY DEF Source, Contents, Field, Managed, Tooling
  <1>2. \A f \in Field : src[f] \in Value \cup Whisper \cup {On, Absent}
    BY <1>1, ContentsType
  <1>3. src = [f \in Field |-> src[f]]
    BY DEF Source
  <1>4. src \in [Field -> Value \cup Whisper \cup {On, Absent}]
    <2> HIDE DEF src
    <2> QED
      BY <1>2, <1>3
  <1> QED
    BY <1>1, <1>4 DEF FieldsType

LEMMA DupType ==
  ASSUME NEW src \in FieldsType, NEW w \in Whisper
  PROVE  Dup(src, w) \in FieldsType
  <1> DEFINE config == Dup(src, w)
  <1>1. \A f \in Field : config[f] \in Contents(f)
    <2> SUFFICES ASSUME NEW f \in Field PROVE config[f] \in Contents(f)
      OBVIOUS
    <2>1. CASE f = "owner"
      BY <2>1 DEF Dup, Stamp, Contents, Managed
    <2>2. CASE f = "marker"
      BY <2>2 DEF Dup, Stamp, Contents, Managed
    <2>3. CASE f \in Tooling
      BY <2>3 DEF Dup, Contents, Managed, Tooling
    <2>4. CASE f \notin Managed \cup Tooling
      BY <2>4 DEF Dup, FieldsType
    <2> QED
      BY <2>1, <2>2, <2>3, <2>4 DEF Managed
  <1>2. \A f \in Field : config[f] \in Value \cup Whisper \cup {On, Absent}
    BY <1>1, ContentsType
  <1>3. config = [f \in Field |-> config[f]]
    BY DEF Dup
  <1>4. config \in [Field -> Value \cup Whisper \cup {On, Absent}]
    <2> HIDE DEF config
    <2> QED
      BY <1>2, <1>3
  <1> QED
    BY <1>1, <1>4 DEF FieldsType

\* Server-side apply yields a secret whose fields are managed or gone.
LEMMA AppliedType ==
  ASSUME NEW s \in SecretType, WellManaged(s), NEW config \in FieldsType
  PROVE  Applied(s, config) \in SecretType /\ WellManaged(Applied(s, config))
  <1> DEFINE t == Applied(s, config)
             val(f) == IF config[f] # Absent THEN config[f]
                       ELSE IF s.by[f] = {Us} THEN Absent ELSE s.value[f]
             man(f) == IF config[f] = Absent THEN s.by[f] \ {Us}
                       ELSE IF config[f] = s.value[f] THEN s.by[f] \cup {Us}
                       ELSE {Us}
  <1>1. t = [value |-> [f \in Field |-> val(f)], by |-> [f \in Field |-> man(f)],
             written |-> TRUE, posed |-> s.posed]
    BY DEF Applied
  <1>2. \A f \in Field : /\ config[f] \in Contents(f) /\ s.value[f] \in Contents(f)
                         /\ s.by[f] \in SUBSET Managers
    BY DEF SecretType, FieldsType
  <1>3. \A f \in Field : val(f) \in Contents(f) /\ man(f) \in SUBSET Managers
    BY <1>2, ContentsType DEF Managers, Ours
  <1>4. \A f \in Field : val(f) = Absent <=> man(f) = {}
    BY <1>2 DEF WellManaged
  <1>5. [f \in Field |-> val(f)] \in FieldsType
    <2> HIDE DEF val
    <2> QED
      BY <1>3, ContentsType DEF FieldsType
  <1>6. [f \in Field |-> man(f)] \in [Field -> SUBSET Managers]
    BY <1>3
  <1>7. t \in SecretType /\ WellManaged(t)
    <2> HIDE DEF val, man
    <2> QED
      BY <1>1, <1>4, <1>5, <1>6 DEF SecretType, WellManaged
  <1> QED
    BY <1>7

LEMMA NoSecretType == NoSecret \in SecretType /\ WellManaged(NoSecret)
  <1>1. [f \in Field |-> Absent] \in FieldsType
    BY ContentsType DEF FieldsType
  <1> QED
    BY <1>1 DEF NoSecret, SecretType, WellManaged

\* One field is set by a tenant, or taken out.
LEMMA EditedType ==
  ASSUME NEW s \in SecretType, WellManaged(s), NEW f \in Field, NEW v \in Contents(f),
         NEW m \in Managers
  PROVE  Edited(s, f, v, m) \in SecretType /\ WellManaged(Edited(s, f, v, m))
  <1> DEFINE value == [s.value EXCEPT ![f] = v]
             by == [s.by EXCEPT ![f] = IF v = Absent THEN {} ELSE {m}]
             posed == s.posed \/ (v # Absent /\ m \in Ours)
             edited == Edited(s, f, v, m)
  <1>1. /\ s.value \in [Field -> Value \cup Whisper \cup {On, Absent}]
        /\ \A g \in Field : s.value[g] \in Contents(g)
        /\ s.by \in [Field -> SUBSET Managers]
        /\ s.written \in BOOLEAN
    BY DEF SecretType, FieldsType
  <1>2. edited = [value |-> value, by |-> by, written |-> s.written, posed |-> posed]
    BY DEF Edited
  <1>3. value \in FieldsType
    BY <1>1, ContentsType DEF FieldsType
  <1>4. by \in [Field -> SUBSET Managers] /\ posed \in BOOLEAN
    BY <1>1
  <1>5. \A g \in Field : value[g] = Absent <=> by[g] = {}
    BY <1>1 DEF WellManaged
  <1>6. edited \in SecretType /\ WellManaged(edited)
    <2> HIDE DEF value, by, posed
    <2> QED
      BY <1>1, <1>2, <1>3, <1>4, <1>5 DEF SecretType, WellManaged
  <1> QED
    BY <1>6

LEMMA ClonedType ==
  ASSUME NEW s \in SecretType, WellManaged(s), NEW m \in Managers
  PROVE  Cloned(s, m) \in SecretType /\ WellManaged(Cloned(s, m))
  <1> DEFINE by == [f \in Field |-> IF s.value[f] = Absent THEN {} ELSE {m}]
  <1>1. s.value \in FieldsType
    BY DEF SecretType
  <1>2. by \in [Field -> SUBSET Managers]
    OBVIOUS
  <1>3. \A g \in Field : s.value[g] = Absent <=> by[g] = {}
    OBVIOUS
  <1> QED
    BY <1>1, <1>2, <1>3 DEF SecretType, WellManaged, Cloned

---------------------------------------------------------------------------
(* Types.                                                                  *)

LEMMA InitType == Init => TypeOK
  <1> SUFFICES ASSUME Init PROVE TypeOK
    OBVIOUS
  <1>1. PICK v \in Value, forged \in [Whisper -> Whisper] :
          source = [w \in Whisper |-> Source(v, On, Absent, forged[w])]
    BY DEF Init
  <1>2. source \in [Whisper -> FieldsType]
    BY <1>1, SourceType
  <1> QED
    BY <1>2, NoSecretType, CopyAssumption DEF Init, TypeOK, SecretType, WellManaged, Pcs

\* The secret changes only by SetSecret, to what is well typed.
LEMMA SetSecretType ==
  ASSUME TypeOK, NEW s \in SecretType, WellManaged(s), SetSecret(s)
  PROVE  /\ secret' \in SecretType /\ WellManaged(secret')
         /\ intact' \in SUBSET Whisper
  BY DEF TypeOK, SetSecret

LEMMA WorkType ==
  ASSUME TypeOK, NEW w \in Whisper, Work(w)
  PROVE  TypeOK'
  <1>1. secret \in SecretType /\ WellManaged(secret)
    BY DEF TypeOK, SecretType, WellManaged
  <1>2. ASSUME Begin(w) PROVE TypeOK'
    BY <1>2 DEF Begin, TypeOK, Goto, Pcs
  <1>3. ASSUME GetForWrite(w) PROVE TypeOK'
    BY <1>3 DEF GetForWrite, TypeOK, Goto, Pcs
  <1>4. ASSUME Patch(w) PROVE TypeOK'
    <2> DEFINE next == Applied(secret, Dup(read[w], w))
    <2>1. next \in SecretType /\ WellManaged(next)
      BY <1>1, AppliedType, DupType DEF TypeOK
    <2>2. secret' \in SecretType /\ WellManaged(secret') /\ intact' \in SUBSET Whisper
      BY <1>1, <1>4, <2>1, SetSecretType DEF Patch, TypeOK
    <2> QED
      BY <1>4, <2>2 DEF Patch, TypeOK, Goto, Pcs, SecretType, WellManaged
  <1>5. ASSUME GetForDelete(w) PROVE TypeOK'
    BY <1>5 DEF GetForDelete, TypeOK, Goto, Pcs
  <1>6. ASSUME Delete(w) PROVE TypeOK'
    <2>1. secret' \in SecretType /\ WellManaged(secret') /\ intact' \in SUBSET Whisper
      BY <1>1, <1>6, NoSecretType, SetSecretType DEF Delete, TypeOK
    <2> QED
      BY <1>6, <2>1 DEF Delete, TypeOK, Goto, Pcs, SecretType, WellManaged
  <1> QED
    BY <1>2, <1>3, <1>4, <1>5, <1>6 DEF Work

LEMMA EnvironmentType ==
  ASSUME TypeOK, Environment
  PROVE  TypeOK'
  <1>1. secret \in SecretType /\ WellManaged(secret)
    BY DEF TypeOK, SecretType, WellManaged
  <1>2. spent' \in Nat /\ spent' <= MaxEvents
    BY CopyAssumption DEF TypeOK, Environment, Happens, WantChanges, SourceChanges, Fail,
         TenantCreates, TenantClones, TenantEdits, TenantRemoves
  <1>3. ASSUME NEW w \in Whisper, WantChanges(w) PROVE TypeOK'
    BY <1>2, <1>3 DEF WantChanges, TypeOK
  <1>4. ASSUME NEW w \in Whisper, SourceChanges(w) PROVE TypeOK'
    <2>1. PICK v \in Value, plain \in {On, Absent}, immutable \in {On, Absent} :
            source' = [source EXCEPT
                         ![w] = Source(v, plain, immutable, source[w]["owner"])]
      BY <1>4 DEF SourceChanges
    <2>2. source[w]["owner"] \in Whisper \cup {Absent}
      BY DEF TypeOK, FieldsType, Contents, Field, Managed
    <2>3. source' \in [Whisper -> FieldsType]
      BY <2>1, <2>2, SourceType DEF TypeOK
    <2> QED
      BY <1>2, <1>4, <2>3 DEF SourceChanges, TypeOK
  <1>5. ASSUME NEW w \in Whisper, Fail(w) PROVE TypeOK'
    BY <1>2, <1>5 DEF Fail, Goto, Pcs, TypeOK
  <1>6. ASSUME TenantCreates \/ TenantClones \/ TenantEdits \/ TenantRemoves
        PROVE  secret' \in SecretType /\ WellManaged(secret') /\ intact' \in SUBSET Whisper
    <2>1. CASE TenantCreates
      <3>1. PICK f \in {"data", "other"}, v \in Value, m \in Guises :
              SetSecret(Edited(NoSecret, f, v, m))
        BY <2>1 DEF TenantCreates
      <3>2. f \in Field /\ v \in Contents(f) /\ m \in Managers
        BY CopyAssumption DEF Field, Contents
      <3> QED
        BY <3>1, <3>2, NoSecretType, EditedType, SetSecretType
    <2>2. CASE TenantClones
      BY <1>1, <2>2, ClonedType, SetSecretType, CopyAssumption DEF TenantClones
    <2>3. CASE TenantEdits
      <3>1. PICK f \in Field, m \in Guises :
              \E v \in Contents(f) : SetSecret(Edited(secret, f, v, m))
        BY <2>3 DEF TenantEdits
      <3>2. m \in Managers
        BY CopyAssumption
      <3> QED
        BY <1>1, <3>1, <3>2, EditedType, SetSecretType
    <2>4. CASE TenantRemoves
      BY <2>4, NoSecretType, SetSecretType DEF TenantRemoves
    <2> QED
      BY <1>6, <2>1, <2>2, <2>3, <2>4
  <1>7. ASSUME TenantCreates \/ TenantClones \/ TenantEdits \/ TenantRemoves PROVE TypeOK'
    BY <1>2, <1>6, <1>7 DEF TypeOK, SecretType, WellManaged, TenantCreates, TenantClones,
         TenantEdits, TenantRemoves
  <1> QED
    BY <1>3, <1>4, <1>5, <1>7 DEF Environment

LEMMA NextType == TypeOK /\ [Next]_vars => TypeOK'
  <1>1. ASSUME TypeOK, UNCHANGED vars PROVE TypeOK'
    BY <1>1 DEF TypeOK, vars
  <1> QED
    BY <1>1, WorkType, EnvironmentType DEF Next

\* Every instance of SecretCopy keeps its types, and every field its managers.
THEOREM TypeCorrect == Spec => []TypeOK
  BY InitType, NextType, PTL DEF Spec

---------------------------------------------------------------------------
(* The operator deletes only what was written under its name.              *)

Signed(s) == s.written \/ s.posed
BearsOurs(s) == \E f \in Field : s.by[f] \cap Ours # {}

\* What bears the operator's name was written under it; what has been verified and
\* has not changed since is still a copy.
SignedInv ==
  /\ BearsOurs(secret) => Signed(secret)
  /\ \A w \in Whisper : w \in intact /\ pc[w] = "delete" => IsOwnedCopy(secret, w)

LEMMA NoSecretUnsigned == ~BearsOurs(NoSecret)
  BY DEF NoSecret, BearsOurs

LEMMA InitSigned == Init => SignedInv
  BY NoSecretUnsigned DEF Init, SignedInv

\* A replaced secret voids every verification, so that only its managers count.
LEMMA SetSecretSigned ==
  ASSUME SignedInv, NEW s, SetSecret(s), BearsOurs(s) => Signed(s),
         \A w \in Whisper : pc'[w] = "delete" => pc[w] = "delete"
  PROVE  SignedInv'
  BY DEF SignedInv, SetSecret, BearsOurs, Signed, IsOwnedCopy

LEMMA WorkSigned ==
  ASSUME TypeOK, SignedInv, NEW w \in Whisper, Work(w)
  PROVE  SignedInv'
  <1>1. pc \in [Whisper -> Pcs]
    BY DEF TypeOK
  <1>2. ASSUME UNCHANGED <<secret, intact>>, \A q \in Whisper : pc'[q] = "delete" => pc[q] = "delete"
        PROVE  SignedInv'
    BY <1>2 DEF SignedInv, BearsOurs, Signed, IsOwnedCopy
  <1>3. ASSUME Begin(w) \/ GetForWrite(w) PROVE SignedInv'
    BY <1>1, <1>2, <1>3 DEF Begin, GetForWrite, Goto
  <1>4. ASSUME Patch(w) PROVE SignedInv'
    <2> DEFINE config == Dup(read[w], w)
    <2>1. \A q \in Whisper : pc'[q] = "delete" => pc[q] = "delete"
      BY <1>1, <1>4 DEF Patch, Goto
    <2>2. CASE Accepts(secret, config)
      <3>1. SetSecret(Applied(secret, config)) /\ Signed(Applied(secret, config))
        BY <1>4, <2>2 DEF Patch, Applied, Signed
      <3> QED
        BY <2>1, <3>1, SetSecretSigned
    <2>3. CASE ~Accepts(secret, config)
      BY <1>2, <1>4, <2>1, <2>3 DEF Patch
    <2> QED
      BY <2>2, <2>3
  <1>5. ASSUME GetForDelete(w) PROVE SignedInv'
    BY <1>1, <1>5 DEF GetForDelete, Goto, SignedInv, BearsOurs, Signed, IsOwnedCopy
  <1>6. ASSUME Delete(w) PROVE SignedInv'
    <2>1. \A q \in Whisper : pc'[q] = "delete" => pc[q] = "delete"
      BY <1>1, <1>6 DEF Delete, Goto
    <2>2. CASE w \in intact
      BY <1>6, <2>1, <2>2, NoSecretUnsigned, SetSecretSigned DEF Delete
    <2>3. CASE w \notin intact
      BY <1>2, <1>6, <2>1, <2>3 DEF Delete
    <2> QED
      BY <2>2, <2>3
  <1> QED
    BY <1>3, <1>4, <1>5, <1>6 DEF Work

\* Whoever adds the operator's name to a secret signs it.
LEMMA EditedSigned ==
  ASSUME NEW s \in SecretType, NEW f \in Field, NEW v \in Contents(f), NEW m,
         BearsOurs(s) => Signed(s), BearsOurs(Edited(s, f, v, m))
  PROVE  Signed(Edited(s, f, v, m))
  <1> DEFINE by == [s.by EXCEPT ![f] = IF v = Absent THEN {} ELSE {m}]
  <1>1. s.by \in [Field -> SUBSET Managers] /\ Edited(s, f, v, m).by = by
    BY DEF SecretType, Edited
  <1>2. PICK g \in Field : by[g] \cap Ours # {}
    BY <1>1 DEF BearsOurs
  <1>3. CASE v # Absent /\ m \in Ours
    BY <1>3 DEF Signed, Edited
  <1>4. CASE ~(v # Absent /\ m \in Ours)
    <2>1. g # f
      BY <1>1, <1>2, <1>4
    <2>2. BearsOurs(s)
      BY <1>1, <1>2, <2>1 DEF BearsOurs
    <2> QED
      BY <2>2 DEF Signed, Edited
  <1> QED
    BY <1>3, <1>4

LEMMA EnvironmentSigned ==
  ASSUME TypeOK, SignedInv, Environment
  PROVE  SignedInv'
  <1>1. /\ pc \in [Whisper -> Pcs]
        /\ secret \in SecretType /\ WellManaged(secret)
    BY DEF TypeOK, SecretType, WellManaged
  <1>2. \A q \in Whisper : pc'[q] = "delete" => pc[q] = "delete"
    BY <1>1 DEF Environment, WantChanges, SourceChanges, Fail, Goto, TenantCreates,
         TenantClones, TenantEdits, TenantRemoves
  <1>3. ASSUME NEW w \in Whisper, WantChanges(w) \/ SourceChanges(w) \/ Fail(w)
        PROVE  SignedInv'
    BY <1>2, <1>3 DEF WantChanges, SourceChanges, Fail, SignedInv, BearsOurs, Signed,
         IsOwnedCopy
  <1>4. ASSUME NEW s, SetSecret(s), BearsOurs(s) => Signed(s) PROVE SignedInv'
    BY <1>2, <1>4, SetSecretSigned
  <1>5. CASE TenantCreates
    <2>1. PICK f \in {"data", "other"}, v \in Value, m \in Guises :
            SetSecret(Edited(NoSecret, f, v, m))
      BY <1>5 DEF TenantCreates
    <2>2. v \in Contents(f) /\ f \in Field
      BY DEF Field, Contents
    <2>3. BearsOurs(Edited(NoSecret, f, v, m)) => Signed(Edited(NoSecret, f, v, m))
      BY <2>2, EditedSigned, NoSecretType, NoSecretUnsigned
    <2> QED
      BY <1>4, <2>1, <2>3
  <1>6. CASE TenantClones
    <2>1. PICK m \in Guises : SetSecret(Cloned(secret, m))
      BY <1>6 DEF TenantClones
    <2>2. BearsOurs(Cloned(secret, m)) => Signed(Cloned(secret, m))
      BY DEF Cloned, BearsOurs, Signed
    <2> QED
      BY <1>4, <2>1, <2>2
  <1>7. CASE TenantEdits
    <2>1. PICK f \in Field, m \in Guises :
            \E v \in Contents(f) : SetSecret(Edited(secret, f, v, m))
      BY <1>7 DEF TenantEdits
    <2>2. PICK v \in Contents(f) : SetSecret(Edited(secret, f, v, m))
      BY <2>1
    <2>3. BearsOurs(Edited(secret, f, v, m)) => Signed(Edited(secret, f, v, m))
      BY <1>1, EditedSigned DEF SignedInv
    <2> QED
      BY <1>4, <2>2, <2>3
  <1>8. CASE TenantRemoves
    BY <1>4, <1>8, NoSecretUnsigned DEF TenantRemoves
  <1> QED
    BY <1>3, <1>5, <1>6, <1>7, <1>8 DEF Environment

LEMMA NextSigned == TypeOK /\ SignedInv /\ [Next]_vars => SignedInv'
  <1>1. ASSUME SignedInv, UNCHANGED vars PROVE SignedInv'
    BY <1>1 DEF SignedInv, BearsOurs, Signed, IsOwnedCopy, vars
  <1> QED
    BY <1>1, WorkSigned, EnvironmentSigned DEF Next

\* Only Delete takes w out of "delete" and the secret away.
LEMMA StepDeletesSigned ==
  ASSUME TypeOK, SignedInv, [Next]_vars, NEW w \in Whisper,
         pc[w] = "delete", pc'[w] # "delete", secret' = NoSecret, secret # NoSecret
  PROVE  Signed(secret)
  <1>1. pc \in [Whisper -> Pcs]
    BY DEF TypeOK
  <1>2. ~Environment
    BY <1>1 DEF Environment, WantChanges, SourceChanges, Fail, Goto, TenantCreates,
         TenantClones, TenantEdits, TenantRemoves
  <1>3. PICK q \in Whisper : Work(q)
    BY <1>2 DEF Next, vars
  <1>4. Work(w)
    BY <1>1, <1>3 DEF Work, Begin, GetForWrite, Patch, GetForDelete, Delete, Goto
  <1>5. Delete(w) /\ w \in intact
    BY <1>4 DEF Work, Begin, GetForWrite, Patch, GetForDelete, Delete
  <1> QED
    BY <1>5 DEF SignedInv, BearsOurs, IsOwnedCopy

\* The operator deletes only secrets written under its name, whatever tenants plant,
\* clone or edit between its get and its delete, and under whatever names.
THEOREM OnlySignedSecretsDeleted == Spec => OnlySignedDeleted
  <1>1. TypeOK /\ SignedInv /\ [Next]_vars
          => [\A w \in Whisper :
                pc[w] = "delete" /\ pc'[w] # "delete" /\ secret' = NoSecret
                  /\ secret # NoSecret => secret.written \/ secret.posed]_vars
    BY StepDeletesSigned DEF Signed
  <1> QED
    BY <1>1, InitSigned, NextSigned, TypeCorrect, PTL DEF Spec, OnlySignedDeleted

\* Nobody poses as the operator.
Honest == Guises \subseteq {Them}

Unposed == ~secret.posed

LEMMA NextUnposed ==
  ASSUME Honest, Unposed, [Next]_vars
  PROVE  Unposed'
  <1>1. \A m \in Guises : m \notin Ours
    BY DEF Honest, Ours, Us, Alias, Them
  <1>2. ~NoSecret.posed
    BY DEF NoSecret
  <1>3. ASSUME NEW s, ~s.posed, SetSecret(s) PROVE Unposed'
    BY <1>3 DEF SetSecret, Unposed
  <1>4. ASSUME NEW w \in Whisper, Work(w) PROVE Unposed'
    <2>1. CASE Patch(w)
      <3>1. ~Applied(secret, Dup(read[w], w)).posed
        BY DEF Applied, Unposed
      <3> QED
        BY <1>3, <2>1, <3>1 DEF Patch, Unposed
    <2>2. CASE Delete(w)
      BY <1>2, <1>3, <2>2 DEF Delete, Unposed
    <2>3. CASE Begin(w) \/ GetForWrite(w) \/ GetForDelete(w)
      BY <2>3 DEF Begin, GetForWrite, GetForDelete, Unposed
    <2> QED
      BY <1>4, <2>1, <2>2, <2>3 DEF Work
  <1>5. ASSUME NEW s, ~s.posed, NEW f, NEW v, NEW m \in Guises, SetSecret(Edited(s, f, v, m))
        PROVE  Unposed'
    <2>1. ~Edited(s, f, v, m).posed
      BY <1>1, <1>5 DEF Edited
    <2> QED
      BY <1>3, <1>5, <2>1
  <1>6. ASSUME TenantCreates PROVE Unposed'
    BY <1>2, <1>5, <1>6 DEF TenantCreates
  <1>7. ASSUME TenantEdits PROVE Unposed'
    BY <1>5, <1>7 DEF TenantEdits, Unposed
  <1>8. ASSUME TenantClones PROVE Unposed'
    <2>1. PICK m \in Guises : SetSecret(Cloned(secret, m))
      BY <1>8 DEF TenantClones
    <2>2. ~Cloned(secret, m).posed
      BY <1>1 DEF Cloned
    <2> QED
      BY <1>3, <2>1, <2>2
  <1>9. ASSUME TenantRemoves PROVE Unposed'
    BY <1>2, <1>3, <1>9 DEF TenantRemoves
  <1>10. ASSUME NEW w \in Whisper, WantChanges(w) \/ SourceChanges(w) \/ Fail(w)
         PROVE  Unposed'
    BY <1>10 DEF WantChanges, SourceChanges, Fail, Unposed
  <1>11. ASSUME UNCHANGED vars PROVE Unposed'
    BY <1>11 DEF vars, Unposed
  <1> QED
    BY <1>4, <1>6, <1>7, <1>8, <1>9, <1>10, <1>11 DEF Next, Environment

\* As long as nobody poses as the operator, it deletes only what it has written
\* itself: this is what FIELD_MANAGER's comment claims without that condition.
THEOREM OnlyWrittenSecretsDeleted ==
  ASSUME Honest
  PROVE  Spec => OnlyWrittenDeleted
  <1>1. Init => Unposed
    BY DEF Init, NoSecret, Unposed
  <1>2. Unposed /\ [Next]_vars => Unposed'
    BY NextUnposed
  <1>3. TypeOK /\ SignedInv /\ Unposed /\ [Next]_vars
          => [\A w \in Whisper :
                pc[w] = "delete" /\ pc'[w] # "delete" /\ secret' = NoSecret
                  /\ secret # NoSecret => secret.written]_vars
    BY StepDeletesSigned DEF Signed, Unposed
  <1> QED
    BY <1>1, <1>2, <1>3, InitSigned, NextSigned, TypeCorrect, PTL
      DEF Spec, OnlyWrittenDeleted

---------------------------------------------------------------------------
(* What tenants set is kept.                                               *)

\* An apply that is not refused leaves what another manager has set.
LEMMA AppliedKeepsTheirs ==
  ASSUME NEW s, NEW config, Accepts(s, config), NEW f \in Field, s.by[f] \ {Us} # {}
  PROVE  Applied(s, config).value[f] = s.value[f]
  BY DEF Accepts, Conflicts, Applied

LEMMA StepKeepsTheirs ==
  ASSUME TypeOK, [Next]_vars, NEW w \in Whisper, NEW f \in Field,
         pc[w] = "patch", pc'[w] # "patch", secret.by[f] \ {Us} # {}
  PROVE  secret'.value[f] = secret.value[f]
  <1>1. pc \in [Whisper -> Pcs]
    BY DEF TypeOK
  <1>2. CASE Environment
    BY <1>1, <1>2 DEF Environment, WantChanges, SourceChanges, Fail, Goto, TenantCreates,
         TenantClones, TenantEdits, TenantRemoves
  <1>3. CASE ~Environment
    <2>1. PICK q \in Whisper : Work(q)
      BY <1>3 DEF Next, vars
    <2>2. Work(w)
      BY <1>1, <2>1 DEF Work, Begin, GetForWrite, Patch, GetForDelete, Delete, Goto
    <2>3. Patch(w)
      BY <2>2 DEF Work, Begin, GetForWrite, Patch, GetForDelete, Delete
    <2> QED
      BY <2>3, AppliedKeepsTheirs DEF Patch, SetSecret
  <1> QED
    BY <1>2, <1>3

\* A write never changes a field that another manager has set.
THEOREM TheirValuesKept == Spec => TenantsValuesKept
  <1>1. TypeOK /\ [Next]_vars
          => [\A w \in Whisper, f \in Field :
                pc[w] = "patch" /\ pc'[w] # "patch" /\ secret.by[f] \ {Us} # {}
                  => secret'.value[f] = secret.value[f]]_vars
    BY StepKeepsTheirs
  <1> QED
    BY <1>1, TypeCorrect, PTL DEF Spec, TenantsValuesKept
=============================================================================
