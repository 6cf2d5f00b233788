------------------------- MODULE CredentialsProofs -------------------------
(***************************************************************************)
(* Theorems about Credentials for everything that may be entered and every *)
(* sequence of config.yaml files.                                          *)
(***************************************************************************)
EXTENDS Credentials, TLAPS

-----------------------------------------------------------------------------
(* The tables of field names.                                              *)

(* What is taken from a block is what the schema has (seed.go:19-53 and    *)
(* 92-129).                                                                *)
LEMMA TakenIsSchema == \A t \in Types : Taken(t) = Fields(t)
BY DEF Types, Taken, Fields, Required, Optional

LEMMA OptionalIsDefaulted == \A t : Optional(t) \subseteq Defaulted(t)
BY DEF Defaulted

(* An adapter is not mistaken for the lack of one.                         *)
LEMMA NoneIsNoField == \A t \in Types : "none" \notin Fields(t)
BY DEF Types, Fields, Required, Optional

LEMMA TokenIsRequired == "token" \in Required("timeweb")
BY DEF Required

-----------------------------------------------------------------------------
(* Building.                                                               *)

Credential(t, creds) ==
  ValidateCreds(t, creds) /\ \A f \in DOMAIN creds : creds[f] \in Values

LEMMA ValidBuilds ==
  ASSUME NEW t \in Types, NEW creds, Credential(t, creds), NEW b \in [Fields(t) -> Values]
  PROVE  /\ BuildAdapter(t, creds, b) \in [Fields(t) -> Values]
         /\ \A f \in Fields(t) : BuildAdapter(t, creds, b)[f] = FieldValue(t, creds, b, f)
<1>1. ~BuildFails(t, creds)
  BY TokenIsRequired DEF Credential, ValidateCreds, BuildFails
<1>2. \A f \in Fields(t) : FieldValue(t, creds, b, f) \in Values
  BY DEF Credential, FieldValue, At, Values
<1>. QED
  BY <1>1, <1>2 DEF BuildAdapter

(* A required field is the account's own; an optional one it lacks is the  *)
(* block's.                                                                *)
LEMMA FieldsOfValid ==
  ASSUME NEW t \in Types, NEW creds, Credential(t, creds), NEW b, NEW f \in Fields(t)
  PROVE  /\ f \in Required(t) => At(creds, f) # ""
         /\ At(creds, f) # "" => FieldValue(t, creds, b, f) = creds[f]
         /\ At(creds, f) = "" => FieldValue(t, creds, b, f) = b[f]
<1>1. f \in Required(t) => At(creds, f) # ""
  BY DEF Credential, ValidateCreds
<1>2. At(creds, f) = "" => f \in Defaulted(t)
  BY <1>1, OptionalIsDefaulted DEF Fields
<1>. QED
  BY <1>1, <1>2 DEF FieldValue, At

LEMMA BlockIsCredential ==
  ASSUME NEW t \in Types, NEW b \in [Fields(t) -> Values]
  PROVE  /\ \A f \in DOMAIN CredsFromBlock(t, b) : CredsFromBlock(t, b)[f] \in Values
         /\ \A f \in Fields(t) : At(CredsFromBlock(t, b), f) = b[f]
BY TakenIsSchema DEF CredsFromBlock, At

-----------------------------------------------------------------------------
(* The inductive invariant: what is stored is valid, and what is built is  *)
(* built from what is stored and from the block of today.                  *)

Inv ==
  /\ typ \in Types
  /\ block \in [Fields(typ) -> Values]
  /\ row = NoRow \/ Credential(typ, row)
  /\ adapter = NoAdapter \/ (Credential(typ, row) /\ adapter = BuildAdapter(typ, row, block))

LEMMA InitInv == Init => Inv
BY CredentialsAssumption DEF Init, Inv

LEMMA StepInv == Inv /\ [Next]_vars => Inv'
<1>. SUFFICES ASSUME Inv, [Next]_vars
              PROVE  Inv'
  OBVIOUS
<1>1. CASE Seed
  <2>1. Credential(typ, CredsFromBlock(typ, block))
    BY <1>1, BlockIsCredential DEF Seed, Inv, Credential
  <2>2. adapter = NoAdapter \/ row = NoRow
    BY <1>1 DEF Seed
  <2>3. row = NoRow => ~Credential(typ, row)
    <3>1. "none" \in DOMAIN NoRow
      BY DEF NoRow
    <3>. QED
      BY <3>1, NoneIsNoField DEF Credential, ValidateCreds, Inv
  <2>. QED
    BY <1>1, <2>1, <2>3 DEF Seed, Inv
<1>2. ASSUME NEW creds \in Entries(typ), AddAccount(creds)
      PROVE  Inv'
  BY <1>2, CredentialsAssumption DEF AddAccount, Inv, Credential
<1>3. CASE Reload
  BY <1>3 DEF Reload, Inv
<1>4. CASE ChangeConfig
  BY <1>4, CredentialsAssumption DEF ChangeConfig, Inv
<1>5. CASE UNCHANGED vars
  BY <1>5 DEF vars, Inv
<1>. QED
  BY <1>1, <1>2, <1>3, <1>4, <1>5 DEF Next

LEMMA Invariance == Spec => []Inv
BY InitInv, StepInv, PTL DEF Spec

(* An adapter that was built has values, so it is no failure.              *)
LEMMA Built ==
  ASSUME Inv, adapter # NoAdapter
  PROVE  /\ Credential(typ, row)
         /\ adapter \in [Fields(typ) -> Values]
         /\ \A f \in Fields(typ) : adapter[f] = FieldValue(typ, row, block, f)
         /\ adapter # Failed
<1>1. /\ Credential(typ, row)
      /\ adapter \in [Fields(typ) -> Values]
      /\ \A f \in Fields(typ) : adapter[f] = FieldValue(typ, row, block, f)
  BY ValidBuilds DEF Inv
<1>2. "none" \in DOMAIN Failed
  BY DEF Failed
<1>. QED
  BY <1>1, <1>2, NoneIsNoField DEF Inv

-----------------------------------------------------------------------------
(* The types of what is stored and built.                                  *)
THEOREM CredentialsTypeCorrect == Spec => []TypeOK
<1>1. Inv => TypeOK
  <2>. SUFFICES ASSUME Inv
                PROVE  TypeOK
    OBVIOUS
  <2>1. row = NoRow \/ (DOMAIN row \subseteq Fields(typ) /\ \A f \in DOMAIN row : row[f] \in Values)
    BY DEF Inv, Credential, ValidateCreds
  <2>. QED
    BY <2>1, Built DEF TypeOK, Inv
<1>. QED
  BY <1>1, Invariance, PTL

(* No account that validation accepts or seeding takes over is skipped by  *)
(* Reload, and its adapter has all required fields (registry.go:67).       *)
THEOREM StoredAccountsBuild == Spec => []StoredBuilds
<1>1. Inv => StoredBuilds
  <2>. SUFFICES ASSUME Inv
                PROVE  StoredBuilds
    OBVIOUS
  <2>1. NoAdapter # Failed
    <3>1. NoAdapter.none # Failed.none
      BY DEF NoAdapter, Failed
    <3>. QED
      BY <3>1
  <2>2. ASSUME adapter # NoAdapter, NEW f \in Required(typ)
        PROVE  adapter[f] # ""
    <3>1. f \in Fields(typ) /\ typ \in Types
      BY DEF Fields, Inv
    <3>2. Credential(typ, row) /\ adapter[f] = FieldValue(typ, row, block, f)
      BY <2>2, <3>1, Built
    <3>3. At(row, f) # "" /\ FieldValue(typ, row, block, f) = row[f]
      BY <3>1, <3>2, FieldsOfValid
    <3>4. row[f] = At(row, f)
      BY <3>3 DEF At
    <3>. QED
      BY <3>2, <3>3, <3>4
  <2>. QED
    BY <2>1, <2>2, Built DEF StoredBuilds
<1>. QED
  BY <1>1, Invariance, PTL

(* An account keeps its own values and gets the rest from the block of     *)
(* today (seed.go:20).                                                     *)
THEOREM OwnValuesFirst == Spec => []OwnValuesThenDefaults
<1>1. Inv => OwnValuesThenDefaults
  <2>. SUFFICES ASSUME Inv, adapter # NoAdapter, NEW f \in Fields(typ)
                PROVE  /\ At(row, f) # "" => adapter[f] = row[f]
                       /\ At(row, f) = "" => adapter[f] = block[f]
    BY DEF OwnValuesThenDefaults
  <2>1. /\ typ \in Types /\ Credential(typ, row)
        /\ adapter[f] = FieldValue(typ, row, block, f)
    BY Built DEF Inv
  <2>2. /\ At(row, f) # "" => FieldValue(typ, row, block, f) = row[f]
        /\ At(row, f) = "" => FieldValue(typ, row, block, f) = block[f]
    BY <2>1, FieldsOfValid
  <2>. QED
    BY <2>1, <2>2
<1>. QED
  BY <1>1, Invariance, PTL

(* Seeding loses nothing of a block (seed.go:83 and 138).                  *)
THEOREM SeedingLosesNothing == Spec => SeededLikeConfig
<1>. DEFINE Empty == [f \in Fields(typ) |-> ""]
<1>1. Inv /\ [Next]_vars =>
        [row = NoRow /\ row' = CredsFromBlock(typ, block)
           => \A b \in {block, Empty} : BuildAdapter(typ, row', b) = block]_vars
  <2>. SUFFICES ASSUME Inv, Next, row = NoRow, row' = CredsFromBlock(typ, block),
                       NEW b \in {block, Empty}
                PROVE  BuildAdapter(typ, row', b) = block
    OBVIOUS
  <2>1. typ \in Types /\ block \in [Fields(typ) -> Values] /\ b \in [Fields(typ) -> Values]
    BY DEF Inv, Values
  <2>2. ValidateCreds(typ, row')
    BY DEF Next, Seed, AddAccount, Reload, ChangeConfig
  <2>3. Credential(typ, row')
    BY <2>1, <2>2, BlockIsCredential DEF Credential
  <2>4. ASSUME NEW f \in Fields(typ)
        PROVE  FieldValue(typ, row', b, f) = block[f]
    <3>1. At(row', f) = block[f]
      BY <2>1, BlockIsCredential
    <3>2. block[f] = "" => b[f] = ""
      OBVIOUS
    <3>. QED
      BY <3>1, <3>2 DEF FieldValue
  <2>5. /\ BuildAdapter(typ, row', b) \in [Fields(typ) -> Values]
        /\ \A f \in Fields(typ) : BuildAdapter(typ, row', b)[f] = FieldValue(typ, row', b, f)
    BY <2>1, <2>3, ValidBuilds
  <2>6. \A f \in Fields(typ) : BuildAdapter(typ, row', b)[f] = block[f]
    BY <2>4, <2>5
  <2>. HIDE DEF Empty
  <2>. QED
    BY <2>1, <2>5, <2>6
<1>. QED
  BY <1>1, Invariance, PTL DEF Spec, SeededLikeConfig
=============================================================================
