---------------------------- MODULE AccessProofs ----------------------------
(***************************************************************************)
(* Theorems about Access for every number of users and handlers, and every *)
(* configuration.                                                          *)
(***************************************************************************)
EXTENDS Access, TLAPS

(* Of the users no two commands met on: memory and table differ at most by *)
(* the one command that is between them.                                   *)
Agreement(u) ==
  /\ InProgress(u) = {} => (u \in dynamic <=> u \in table)
  /\ \A h, k \in InProgress(u) : h = k
  /\ \A h \in InProgress(u) : u \in table <=> pc[h] = "add"

(* Without administrators nobody may change the whitelist.                 *)
Frozen == admins = {} => (\A h \in Handlers : pc[h] = "idle") /\ dynamic = table

Inv == TypeOK /\ Frozen /\ \A u \in Users \ contended : Agreement(u)

LEMMA InitInv == Init => Inv
BY AccessAssumption DEF Init, Inv, TypeOK, Frozen, Agreement, InProgress

(* A command begins: its user is contended if another one is at work on    *)
(* the same user.                                                          *)
LEMMA BeginStep ==
  ASSUME Inv, NEW h \in Handlers, NEW sender \in Users, NEW u \in Users,
         AddRow(h, sender, u) \/ RemoveRow(h, sender, u)
  PROVE  Inv'
<1>1. PICK label \in {"add", "remove"} :
        /\ Begin(h, label, u)
        /\ table' = IF label = "add" THEN table \cup {u} ELSE table \ {u}
  BY DEF AddRow, RemoveRow
<1>2. admins # {}
  BY DEF AddRow, RemoveRow, MayAdminister
<1>3. TypeOK'
  BY <1>1, AccessAssumption DEF Begin, config, Inv, TypeOK
<1>4. Frozen'
  BY <1>1, <1>2 DEF Begin, config, Frozen
<1>5. ASSUME NEW v \in Users \ contended'
      PROVE  Agreement(v)'
  <2>1. Agreement(v)
    BY <1>1, <1>5 DEF Begin, Inv
  <2>2. CASE v = u
    <3>1. InProgress(v) = {}
      BY <1>1, <1>5, <2>2 DEF Begin
    <3>2. InProgress(v)' = {h}
      BY <1>1, <2>2, <3>1 DEF Begin, InProgress, Inv, TypeOK
    <3>3. pc'[h] = label /\ (v \in table' <=> label = "add")
      BY <1>1, <2>2 DEF Begin, Inv, TypeOK
    <3>. QED
      BY <3>2, <3>3 DEF Agreement
  <2>3. CASE v # u
    <3>1. h \notin InProgress(v)
      BY <1>1, AccessAssumption DEF Begin, InProgress, Inv, TypeOK
    <3>2. InProgress(v)' = InProgress(v)
      BY <1>1, <2>3, <3>1 DEF Begin, InProgress, Inv, TypeOK
    <3>3. /\ v \in table' <=> v \in table
          /\ v \in dynamic' <=> v \in dynamic
          /\ \A k \in InProgress(v) : pc'[k] = pc[k]
      BY <1>1, <2>3, <3>1 DEF Begin, InProgress, Inv, TypeOK
    <3>. QED
      BY <2>1, <3>2, <3>3 DEF Agreement
  <2>. QED
    BY <2>2, <2>3
<1>. QED
  BY <1>3, <1>4, <1>5 DEF Inv

(* A command ends: memory follows the table for its user.                  *)
LEMMA EndStep ==
  ASSUME Inv, NEW h \in Handlers, AddToMemory(h) \/ RemoveFromMemory(h)
  PROVE  Inv'
<1>. DEFINE u == arg[h]
<1>1. /\ pc[h] \in {"add", "remove"} /\ End(h)
      /\ dynamic' = IF pc[h] = "add" THEN dynamic \cup {u} ELSE dynamic \ {u}
  BY DEF AddToMemory, RemoveFromMemory
<1>2. u \in Users /\ h \in InProgress(u)
  BY <1>1 DEF Inv, TypeOK, InProgress
<1>3. TypeOK'
  BY <1>1, <1>2, AccessAssumption DEF End, config, Inv, TypeOK
<1>4. Frozen'
  BY <1>1 DEF End, config, Inv, Frozen
<1>5. ASSUME NEW v \in Users \ contended'
      PROVE  Agreement(v)'
  <2>1. Agreement(v) /\ table' = table
    BY <1>1, <1>5 DEF End, Inv
  <2>2. \A k \in Handlers \ {h} : pc'[k] = pc[k] /\ arg'[k] = arg[k]
    BY <1>1 DEF End, Inv, TypeOK
  <2>3. arg'[h] = Nobody
    BY <1>1 DEF End, Inv, TypeOK
  <2>4. InProgress(v)' = InProgress(v) \ {h}
    BY <2>2, <2>3, AccessAssumption DEF InProgress
  <2>5. CASE v = u
    <3>1. InProgress(v)' = {}
      BY <1>2, <2>1, <2>4, <2>5 DEF Agreement
    <3>2. v \in dynamic' <=> v \in table
      BY <1>1, <1>2, <2>1, <2>5 DEF Agreement
    <3>. QED
      BY <2>1, <3>1, <3>2 DEF Agreement
  <2>6. CASE v # u
    <3>1. h \notin InProgress(v)
      BY <2>6 DEF InProgress
    <3>2. v \in dynamic' <=> v \in dynamic
      BY <1>1, <2>6
    <3>3. \A k \in InProgress(v) : pc'[k] = pc[k]
      BY <2>2, <3>1 DEF InProgress
    <3>. QED
      BY <2>1, <2>4, <3>1, <3>2, <3>3 DEF Agreement
  <2>. QED
    BY <2>5, <2>6
<1>. QED
  BY <1>3, <1>4, <1>5 DEF Inv

LEMMA CrashStep ==
  ASSUME Inv, Crash
  PROVE  Inv'
<1>1. TypeOK' /\ Frozen'
  BY AccessAssumption DEF Crash, config, Inv, TypeOK, Frozen
<1>2. ASSUME NEW v \in Users
      PROVE  Agreement(v)'
  <2>1. InProgress(v)' = {}
    BY AccessAssumption DEF Crash, InProgress
  <2>. QED
    BY <2>1 DEF Crash, Agreement
<1>. QED
  BY <1>1, <1>2 DEF Inv

LEMMA StepInv == Inv /\ [Next]_vars => Inv'
<1>. SUFFICES ASSUME Inv, [Next]_vars
              PROVE  Inv'
  OBVIOUS
<1>1. CASE UNCHANGED vars
  BY <1>1 DEF vars, config, Inv, TypeOK, Frozen, Agreement, InProgress
<1>. QED
  BY <1>1, BeginStep, EndStep, CrashStep DEF Next, HandlerStep

LEMMA Invariance == Spec => []Inv
BY InitInv, StepInv, PTL DEF Spec

-----------------------------------------------------------------------------
(* The types of the ACL and of the commands (acl.go).                      *)
THEOREM AccessTypeCorrect == Spec => []TypeOK
<1>1. Inv => TypeOK
  BY DEF Inv
<1>. QED
  BY <1>1, Invariance, PTL

(* Memory and table agree on each user no two commands met on, for any     *)
(* number of overlapping commands (acl.go:76-96).                          *)
THEOREM MemoryFollowsTable == Spec => []MemoryMatchesTable
<1>1. Inv => MemoryMatchesTable
  BY DEF Inv, Agreement, MemoryMatchesTable
<1>. QED
  BY <1>1, Invariance, PTL

(* A bot that restricts access goes on doing so: where somebody may empty  *)
(* the whitelist there is an administrator, and so access is not open;     *)
(* where nobody may, the whitelist stays as it is (acl.go:58-67).          *)
THEOREM AccessStaysRestricted == Spec => NeverOpensUp
<1>1. Inv /\ [Next]_vars => [Open' => Open]_vars
  <2>. SUFFICES ASSUME Inv, Next, Open'
                PROVE  Open
    OBVIOUS
  <2>1. UNCHANGED config
    BY DEF Next, HandlerStep, AddRow, RemoveRow, Begin, AddToMemory, RemoveFromMemory, End, Crash
  <2>2. admins = {} /\ static = {} /\ dynamic' = {}
    BY <2>1 DEF Open, config
  <2>3. (\A h \in Handlers : pc[h] = "idle") /\ dynamic = table
    BY <2>2 DEF Inv, Frozen
  <2>4. dynamic' = dynamic
    BY <2>2, <2>3 DEF Next, HandlerStep, AddRow, RemoveRow, MayAdminister, AddToMemory,
                      RemoveFromMemory, Crash
  <2>. QED
    BY <2>2, <2>4 DEF Open
<1>. QED
  BY <1>1, Invariance, PTL DEF Spec, NeverOpensUp

(* Two commands are needed for memory and table to part: with one handler  *)
(* at work at a time no user is ever contended, and the whitelist in force *)
(* is the one of the table whenever the handler is done (acl.go:76, 87).   *)
Uncontended == contended = {}

Settled == (\A h \in Handlers : pc[h] = "idle") => dynamic = table

THEOREM OneCommandAtATime ==
  ASSUME \A g, h \in Handlers : g = h
  PROVE  Spec => [](Uncontended /\ Settled)
<1>1. Init => Uncontended
  BY DEF Init, Uncontended
<1>2. Inv /\ Uncontended /\ [Next]_vars => Uncontended'
  <2>. SUFFICES ASSUME Inv, contended = {}, [Next]_vars
                PROVE  contended' = {}
    BY DEF Uncontended
  <2>1. ASSUME NEW h \in Handlers, NEW u \in Users, NEW label, Begin(h, label, u)
        PROVE  contended' = {}
    <3>1. arg[h] = Nobody
      BY <2>1 DEF Begin, Inv, TypeOK
    <3>2. InProgress(u) = {}
      BY <3>1, AccessAssumption DEF InProgress
    <3>. QED
      BY <2>1, <3>2 DEF Begin
  <2>2. ASSUME NEW h \in Handlers, HandlerStep(h)
        PROVE  contended' = {}
    BY <2>1, <2>2 DEF HandlerStep, AddRow, RemoveRow, AddToMemory, RemoveFromMemory, End
  <2>. QED
    BY <2>2 DEF Next, Crash, vars
<1>3. Inv /\ Uncontended => Settled
  <2>. SUFFICES ASSUME Inv, contended = {}, \A h \in Handlers : pc[h] = "idle"
                PROVE  dynamic = table
    BY DEF Settled, Uncontended
  <2>1. \A u \in Users : u \in dynamic <=> u \in table
    <3>1. \A u \in Users : InProgress(u) = {}
      BY AccessAssumption DEF InProgress, Inv, TypeOK
    <3>. QED
      BY <3>1 DEF Inv, Agreement
  <2>2. dynamic \subseteq Users /\ table \subseteq Users
    BY DEF Inv, TypeOK
  <2>. QED
    BY <2>1, <2>2
<1>. QED
  BY <1>1, <1>2, <1>3, Invariance, PTL DEF Spec
=============================================================================
