--------------------------- MODULE RegistryProofs ---------------------------
(***************************************************************************)
(* Theorems about Registry for every set of handlers, names, credentials,  *)
(* every configuration that is seeded, and every choice of faults.         *)
(***************************************************************************)
EXTENDS Registry, TLAPS

-----------------------------------------------------------------------------
(* The statements on the table. An update keeps the id and the name of     *)
(* every row; an insert takes an id above all that were ever issued.       *)

Unique == \A a, b \in accounts : a.id = b.id \/ a.name = b.name => a = b

TableTypeOK ==
  /\ accounts \in SUBSET Account
  /\ nextId \in 1..(MaxId + 1)
  /\ issued \in SUBSET (Ids \X Names)
  /\ Unique

IssuedInv ==
  /\ \A p \in issued : p[1] < nextId
  /\ \A a \in accounts : <<a.id, a.name>> \in issued

TableInv == TableTypeOK /\ IssuedInv /\ KeysNeverReused

\* A statement that keeps ids and names of the rows it does not delete.
Updates ==
  /\ \A b \in accounts' : b \in Account
  /\ \A b \in accounts' : \E a \in accounts : a.id = b.id /\ a.name = b.name
  /\ \A b, c \in accounts' : b.id = c.id => b = c
  /\ UNCHANGED <<nextId, issued>>

\* An insert: a row of a new name under an id never used.
Inserts ==
  \E b \in Account :
    /\ b.id = nextId /\ ~HasName(b.name) /\ nextId <= MaxId
    /\ accounts' = accounts \cup {b}
    /\ issued' = issued \cup {<<b.id, b.name>>}
    /\ nextId' = nextId + 1

\* What a statement may do to the table.
TableStep == Updates \/ Inserts

(* An UPDATE rewrites each row on its own.                                 *)
LEMMA UpdateStep ==
  ASSUME TableInv, NEW f \in [accounts -> Account],
         \A a \in accounts : f[a].id = a.id /\ f[a].name = a.name,
         accounts' = {f[a] : a \in accounts}, UNCHANGED <<nextId, issued>>
  PROVE  TableStep
<1>1. ASSUME NEW b \in accounts', NEW d \in accounts', b.id = d.id
      PROVE  b = d
  <2>1. PICK x \in accounts, y \in accounts : b = f[x] /\ d = f[y]
    OBVIOUS
  <2>2. x.id = y.id
    BY <1>1, <2>1
  <2>. QED
    BY <2>1, <2>2 DEF TableInv, TableTypeOK, Unique
<1>2. \A b \in accounts' : b \in Account /\ \E a \in accounts : a.id = b.id /\ a.name = b.name
  OBVIOUS
<1>. QED
  BY <1>1, <1>2 DEF TableStep, Updates

(* INSERT ... ON CONFLICT DO UPDATE updates or inserts.                    *)
LEMMA UpsertStep ==
  ASSUME TableInv, NEW n \in Names, NEW c \in Creds, Upsert(n, c)
  PROVE  TableStep
<1>1. CASE /\ accounts' = {IF a.name = n THEN [a EXCEPT !.enabled = TRUE, !.creds = c] ELSE a :
                            a \in accounts}
           /\ UNCHANGED <<nextId, issued>>
  <2>. DEFINE f == [a \in accounts |->
                     IF a.name = n THEN [a EXCEPT !.enabled = TRUE, !.creds = c] ELSE a]
  <2>1. ASSUME NEW a \in accounts
        PROVE  f[a] \in Account /\ f[a].id = a.id /\ f[a].name = a.name
    BY DEF TableInv, TableTypeOK, Account
  <2>2. f \in [accounts -> Account] /\ accounts' = {f[a] : a \in accounts}
    BY <1>1, <2>1
  <2>. HIDE DEF f
  <2>. QED
    BY <1>1, <2>1, <2>2, UpdateStep
<1>2. CASE /\ ~HasName(n) /\ IssueId <= MaxId
           /\ accounts' = accounts \cup
                           {[id |-> IssueId, name |-> n, enabled |-> TRUE, creds |-> c]}
           /\ issued' = issued \cup {<<IssueId, n>>}
           /\ nextId' = IssueId + 1
  <2>. DEFINE b == [id |-> nextId, name |-> n, enabled |-> TRUE, creds |-> c]
  <2>1. b \in Account
    BY <1>2, RegistryAssumption DEF TableInv, TableTypeOK, Account, Ids, IssueId
  <2>. QED
    BY <1>2, <2>1 DEF IssueId, TableStep, Inserts
<1>. QED
  BY <1>1, <1>2 DEF Upsert

(* UPDATE ... SET enabled updates.                                         *)
LEMMA SetAccountEnabledStep ==
  ASSUME TableInv, NEW id, NEW value \in BOOLEAN, SetAccountEnabled(id, value)
  PROVE  TableStep
<1>. DEFINE f == [a \in accounts |-> IF a.id = id THEN [a EXCEPT !.enabled = value] ELSE a]
<1>1. ASSUME NEW a \in accounts
      PROVE  f[a] \in Account /\ f[a].id = a.id /\ f[a].name = a.name
  BY DEF TableInv, TableTypeOK, Account
<1>2. f \in [accounts -> Account] /\ accounts' = {f[a] : a \in accounts}
      /\ UNCHANGED <<nextId, issued>>
  BY <1>1 DEF SetAccountEnabled
<1>. HIDE DEF f
<1>. QED
  BY <1>1, <1>2, UpdateStep

(* DELETE, and doing nothing, keep the other rows.                         *)
LEMMA DeleteAccountStep ==
  ASSUME TableInv, NEW id, DeleteAccount(id) \/ UNCHANGED tableVars
  PROVE  TableStep
BY DEF TableInv, TableTypeOK, Unique, DeleteAccount, tableVars, TableStep, Updates

(* Every statement keeps the table in order, reuses no id, and brings no   *)
(* deleted row back.                                                       *)
LEMMA TableStepKeeps ==
  ASSUME TableInv, TableStep
  PROVE  /\ TableInv'
         /\ \A p \in issued : ~HasId(p[1]) => \A a \in accounts' : a.id # p[1]
<1>0. MaxId \in Nat \ {0} /\ nextId \in Nat /\ nextId \in 1..(MaxId + 1)
  BY RegistryAssumption DEF TableInv, TableTypeOK
<1>1. CASE Updates
  <2>1. TableTypeOK'
    BY <1>1 DEF Updates, TableInv, TableTypeOK, Unique
  <2>2. IssuedInv' /\ KeysNeverReused'
    BY <1>1 DEF Updates, TableInv, IssuedInv, KeysNeverReused
  <2>. QED
    BY <1>1, <2>1, <2>2 DEF Updates, TableInv, HasId
<1>2. CASE Inserts
  <2>1. PICK b \in Account :
          /\ b.id = nextId /\ ~HasName(b.name) /\ nextId <= MaxId
          /\ accounts' = accounts \cup {b}
          /\ issued' = issued \cup {<<b.id, b.name>>}
          /\ nextId' = nextId + 1
    BY <1>2 DEF Inserts
  <2>2. \A a \in accounts : a.id < nextId /\ a.name # b.name
    BY <2>1 DEF TableInv, IssuedInv, HasName
  <2>3. \A p \in issued : p[1] \in Nat /\ p[1] < nextId
    BY DEF TableInv, TableTypeOK, IssuedInv, Ids
  <2>4. TableTypeOK'
    <3>1. b.id \in Ids /\ b.name \in Names
      BY DEF Account
    <3>2. Unique'
      BY <1>0, <2>1, <2>2 DEF TableInv, TableTypeOK, Unique, Account, Ids
    <3>. QED
      BY <1>0, <2>1, <3>1, <3>2 DEF TableInv, TableTypeOK
  <2>5. IssuedInv'
    BY <1>0, <2>1, <2>3 DEF TableInv, IssuedInv
  <2>6. KeysNeverReused'
    BY <1>0, <2>1, <2>3 DEF TableInv, KeysNeverReused
  <2>7. \A p \in issued : ~HasId(p[1]) => \A a \in accounts' : a.id # p[1]
    BY <1>0, <2>1, <2>3 DEF HasId
  <2>. QED
    BY <2>4, <2>5, <2>6, <2>7 DEF TableInv
<1>. QED
  BY <1>1, <1>2 DEF TableStep

-----------------------------------------------------------------------------
(* Every step of the specification is a statement on the table, at most.   *)

\* What a toggle button has read.
ToggleArg == [kind : {"toggle"}, id : Ids, enabled : BOOLEAN]
ArgInv == \A h \in Handlers : pc[h] = "toggle" => arg[h] \in ToggleArg

\* The steps of a handler that execute a statement.
StartsChange(h) ==
  \/ \E n \in Names, c \in Creds : AddInsert(h, n, c)
  \/ \E id \in Ids : CmdDelete(h, id) \/ ButtonDelete(h, id)
  \/ \E id \in Ids, value \in BOOLEAN : CmdSetEnabled(h, id, value)
  \/ ToggleWrite(h)

(* The steps, by what they do to the table.                                *)
LEMMA NextCases ==
  ASSUME [Next]_vars
  PROVE  \/ Boot \/ SeedOne \/ SeedDone \/ Load \/ Crash
         \/ \E h \in Handlers : \/ StartsChange(h) \/ ToggleRead(h)
                               \/ AddSelect(h) \/ ReloadRead(h) \/ ReloadSwap(h)
         \/ UNCHANGED vars
BY DEF Next, StartUp, HandlerStarts, HandlerContinues, StartsChange

(* What a step does to the table.                                          *)
LEMMA NextTableStep ==
  ASSUME TableInv, ArgInv, toSeed \in Seq(Names), [Next]_vars
  PROVE  TableStep
<1>1. UNCHANGED tableVars => TableStep
  BY DeleteAccountStep
<1>2. CASE SeedOne
  <2>1. toSeed # <<>> => Head(toSeed) \in Names
    OBVIOUS
  <2>. QED
    BY <1>1, <1>2, <2>1, UpsertStep, RegistryAssumption DEF SeedOne
<1>3. ASSUME NEW h \in Handlers, StartsChange(h) PROVE TableStep
  <2>1. CASE \E n \in Names, c \in Creds : AddInsert(h, n, c)
    BY <2>1, UpsertStep DEF AddInsert
  <2>2. CASE \E id \in Ids : CmdDelete(h, id) \/ ButtonDelete(h, id)
    BY <1>1, <2>2, DeleteAccountStep DEF CmdDelete, ButtonDelete
  <2>3. CASE \E id \in Ids, value \in BOOLEAN : CmdSetEnabled(h, id, value)
    BY <2>3, SetAccountEnabledStep DEF CmdSetEnabled
  <2>4. CASE ToggleWrite(h)
    <3>1. (~arg[h].enabled) \in BOOLEAN
      OBVIOUS
    <3>. QED
      BY <1>1, <2>4, <3>1, SetAccountEnabledStep DEF ToggleWrite
  <2>. QED
    BY <1>3, <2>1, <2>2, <2>3, <2>4 DEF StartsChange
<1>4. CASE Boot \/ SeedDone \/ Load \/ Crash
           \/ (\E h \in Handlers : ToggleRead(h) \/ AddSelect(h) \/ ReloadRead(h) \/ ReloadSwap(h))
           \/ UNCHANGED vars
  BY <1>1, <1>4 DEF Boot, SeedDone, Load, Crash, ToggleRead, AddSelect, ReloadRead, ReloadSwap, vars
<1>. QED
  BY <1>2, <1>3, <1>4, NextCases

-----------------------------------------------------------------------------
(* The handlers and the live accounts. That the live accounts are the      *)
(* enabled rows when nobody is at work needs that a handler about to swap  *)
(* holds the enabled rows, unless somebody who has changed them is still   *)
(* to reload, or its rows are outdated.                                    *)

HandlerTypeOK ==
  /\ live \in SUBSET Account
  /\ phase \in {"down", "seeding", "loading", "up"}
  /\ toSeed \in Seq(Names)
  /\ pc \in [Handlers -> {"idle", "select", "toggle", "reload", "swap"}]
  /\ arg \in [Handlers -> Arg]
  /\ snap \in [Handlers -> SUBSET Account]
  /\ outdated \in SUBSET Handlers
  /\ missed \in BOOLEAN
  /\ ArgInv

\* Who has changed the table, or may have, and is still to read it.
ToReload == {h \in Handlers : pc[h] \in {"select", "reload"}}

ReloadInv ==
  /\ phase # "up" => \A h \in Handlers : pc[h] = "idle"
  /\ \A h \in Handlers :
       pc[h] = "swap" /\ h \notin outdated /\ ToReload = {} => snap[h] = EnabledRows
  /\ phase = "up" /\ ~missed /\ ToReload = {} /\ AboutToSwap = {} => live = EnabledRows

(* Where a handler stands and what it holds is of the types given.         *)
LEMMA HandlerTypeStep ==
  ASSUME TableInv, HandlerTypeOK, [Next]_vars
  PROVE  HandlerTypeOK'
<1>. USE DEF handlerVars, historyVars
<1>0. EnabledRows \in SUBSET Account /\ NoArg \in Arg
  BY DEF EnabledRows, TableInv, TableTypeOK, Arg
<1>1. CASE Boot \/ SeedDone
  <2>1. toSeed' \in Seq(Names)
    <3>1. toSeed \in Seq(Names) /\ SeedList \in Seq(Names) /\ <<>> \in Seq(Names)
      BY RegistryAssumption DEF HandlerTypeOK
    <3>2. toSeed' \in {toSeed, SeedList, <<>>}
      BY <1>1 DEF Boot, SeedDone
    <3>. QED
      BY <3>1, <3>2
  <2>. QED
    BY <1>1, <2>1 DEF Boot, SeedDone, HandlerTypeOK, ArgInv
<1>2. CASE SeedOne
  BY <1>2 DEF SeedOne, HandlerTypeOK, ArgInv
<1>3. CASE Load
  BY <1>0, <1>3 DEF Load, HandlerTypeOK, ArgInv
<1>4. CASE Crash
  BY <1>0, <1>4 DEF Crash, HandlerTypeOK, ArgInv
<1>5. ASSUME NEW h \in Handlers, StartsChange(h) PROVE HandlerTypeOK'
  <2>1. CASE \E n \in Names, c \in Creds : AddInsert(h, n, c)
    <3>1. PICK n \in Names : arg' = [arg EXCEPT ![h] = [kind |-> "add", name |-> n]]
      BY <2>1 DEF AddInsert
    <3>2. [kind |-> "add", name |-> n] \in Arg
      BY DEF Arg
    <3>3. /\ pc' = [pc EXCEPT ![h] = "select"]
          /\ UNCHANGED <<live, phase, toSeed, snap, outdated, missed>>
      BY <2>1 DEF AddInsert, Goto
    <3>. QED
      BY <3>1, <3>2, <3>3 DEF HandlerTypeOK, ArgInv
  <2>2. CASE \/ \E id \in Ids : CmdDelete(h, id) \/ ButtonDelete(h, id)
             \/ \E id \in Ids, value \in BOOLEAN : CmdSetEnabled(h, id, value)
             \/ ToggleWrite(h)
    <3>1. ThenReload(h) /\ UNCHANGED <<live, phase, toSeed, outdated, missed>>
      BY <2>2 DEF CmdDelete, ButtonDelete, CmdSetEnabled, ToggleWrite
    <3>. QED
      BY <1>0, <3>1 DEF ThenReload, Goto, HandlerTypeOK, ArgInv
  <2>. QED
    BY <1>5, <2>1, <2>2 DEF StartsChange
<1>6. ASSUME NEW h \in Handlers, ToggleRead(h) PROVE HandlerTypeOK'
  <2>1. PICK a \in accounts :
          arg' = [arg EXCEPT ![h] = [kind |-> "toggle", id |-> a.id, enabled |-> a.enabled]]
    BY <1>6 DEF ToggleRead
  <2>2. [kind |-> "toggle", id |-> a.id, enabled |-> a.enabled] \in ToggleArg
    BY DEF TableInv, TableTypeOK, Account, ToggleArg
  <2>3. ToggleArg \subseteq Arg
    BY DEF ToggleArg, Arg
  <2>. QED
    BY <1>6, <2>1, <2>2, <2>3 DEF ToggleRead, Goto, HandlerTypeOK, ArgInv
<1>7. ASSUME NEW h \in Handlers, AddSelect(h) \/ ReloadRead(h) \/ ReloadSwap(h)
      PROVE  HandlerTypeOK'
  <2>1. /\ phase' = phase /\ toSeed' = toSeed
        /\ live' \in {live, snap[h]}
        /\ outdated' \in {outdated, outdated \cup AboutToSwap, outdated \ {h}}
        /\ missed' = missed \/ missed' = TRUE \/ missed' = (h \in outdated)
    BY <1>7 DEF AddSelect, ReloadRead, ReloadSwap, DoneUnreloaded
  <2>2. live' \in SUBSET Account /\ outdated' \in SUBSET Handlers
    BY <2>1 DEF HandlerTypeOK, AboutToSwap
  <2>3. missed' \in BOOLEAN
    <3>1. CASE missed' = missed
      BY <3>1 DEF HandlerTypeOK
    <3>2. CASE missed' = TRUE
      BY <3>2
    <3>3. CASE missed' = (h \in outdated)
      BY <3>3
    <3>. QED
      BY <2>1, <3>1, <3>2, <3>3
  <2>4. /\ pc' \in [Handlers -> {"idle", "select", "toggle", "reload", "swap"}]
        /\ arg' \in [Handlers -> Arg]
        /\ snap' \in [Handlers -> SUBSET Account]
        /\ ArgInv'
    BY <1>0, <1>7 DEF AddSelect, ReloadRead, ReloadSwap, DoneUnreloaded, Done, ThenReload,
         Goto, HandlerTypeOK, ArgInv
  <2>. QED
    BY <2>1, <2>2, <2>3, <2>4 DEF HandlerTypeOK
<1>8. CASE UNCHANGED vars
  BY <1>8 DEF vars, HandlerTypeOK, ArgInv
<1>. QED
  BY <1>1, <1>2, <1>3, <1>4, <1>5, <1>6, <1>7, <1>8, NextCases

(* A change is followed by a reload that reads it, or marked as missed.    *)
LEMMA ReloadStep ==
  ASSUME HandlerTypeOK, ReloadInv, [Next]_vars
  PROVE  ReloadInv'
<1>. USE DEF handlerVars, historyVars, tableVars
<1>1. CASE Boot \/ SeedOne \/ SeedDone
  BY <1>1 DEF Boot, SeedOne, SeedDone, ReloadInv
<1>2. CASE Load
  BY <1>2 DEF Load, ReloadInv, EnabledRows
<1>3. CASE Crash
  BY <1>3 DEF Crash, ReloadInv
<1>4. ASSUME NEW h \in Handlers, StartsChange(h) PROVE ReloadInv'
  <2>1. phase = "up" /\ phase' = "up" /\ pc' \in {[pc EXCEPT ![h] = "select"], [pc EXCEPT ![h] = "reload"]}
    BY <1>4 DEF StartsChange, AddInsert, CmdDelete, ButtonDelete, CmdSetEnabled, ToggleWrite,
         Idle, At, ThenReload, Goto
  <2>2. h \in ToReload'
    BY <2>1 DEF ToReload, HandlerTypeOK
  <2>. QED
    BY <2>1, <2>2 DEF ReloadInv
<1>5. ASSUME NEW h \in Handlers, ToggleRead(h) PROVE ReloadInv'
  <2>1. ToReload' = ToReload /\ AboutToSwap' = AboutToSwap /\ EnabledRows' = EnabledRows
    BY <1>5 DEF ToggleRead, Idle, Goto, ToReload, AboutToSwap, EnabledRows, HandlerTypeOK
  <2>2. /\ UNCHANGED <<phase, live, snap, outdated, missed>> /\ phase = "up"
        /\ \A g \in Handlers : pc'[g] = "swap" => pc[g] = "swap"
    BY <1>5 DEF ToggleRead, Idle, Goto, HandlerTypeOK
  <2>. QED
    BY <2>1, <2>2 DEF ReloadInv
<1>6. ASSUME NEW h \in Handlers, DoneUnreloaded(h), phase = "up",
             UNCHANGED <<accounts, live, phase>>
      PROVE  ReloadInv'
  <2>1. \A g \in Handlers : pc'[g] = "swap" => g \in AboutToSwap
    BY <1>6 DEF DoneUnreloaded, Done, Goto, AboutToSwap, HandlerTypeOK
  <2>. QED
    BY <1>6, <2>1 DEF DoneUnreloaded, ReloadInv
<1>7. ASSUME NEW h \in Handlers, AddSelect(h) PROVE ReloadInv'
  <2>1. CASE ThenReload(h) /\ UNCHANGED historyVars
    <3>1. h \in ToReload' /\ phase' = "up"
      BY <1>7, <2>1 DEF AddSelect, At, ThenReload, Goto, ToReload, HandlerTypeOK
    <3>. QED
      BY <3>1 DEF ReloadInv
  <2>2. CASE DoneUnreloaded(h)
    BY <1>6, <1>7, <2>2 DEF AddSelect, At
  <2>. QED
    BY <1>7, <2>1, <2>2 DEF AddSelect
<1>8. ASSUME NEW h \in Handlers, ReloadRead(h) PROVE ReloadInv'
  <2>1. CASE /\ snap' = [snap EXCEPT ![h] = EnabledRows]
             /\ Goto(h, "swap")
             /\ outdated' = outdated \cup AboutToSwap
    <3>1. /\ phase = "up" /\ phase' = "up" /\ EnabledRows' = EnabledRows
          /\ h \in AboutToSwap' /\ snap'[h] = EnabledRows
          /\ \A g \in Handlers \ {h} : pc'[g] = "swap" => g \in outdated'
      BY <1>8, <2>1 DEF ReloadRead, At, Goto, AboutToSwap, EnabledRows, HandlerTypeOK
    <3>. QED
      BY <3>1 DEF ReloadInv
  <2>2. CASE DoneUnreloaded(h)
    BY <1>6, <1>8, <2>2 DEF ReloadRead, At
  <2>. QED
    BY <1>8, <2>1, <2>2 DEF ReloadRead
<1>9. ASSUME NEW h \in Handlers, ReloadSwap(h) PROVE ReloadInv'
  <2>1. /\ phase = "up" /\ phase' = "up" /\ EnabledRows' = EnabledRows
        /\ pc[h] = "swap" /\ live' = snap[h]
        /\ missed' = (h \in outdated) /\ outdated' = outdated \ {h}
        /\ pc'[h] = "idle"
        /\ \A g \in Handlers \ {h} : pc'[g] = pc[g] /\ snap'[g] = snap[g]
    BY <1>9 DEF ReloadSwap, At, Done, Goto, EnabledRows, HandlerTypeOK
  <2>2. ToReload' = ToReload
    BY <2>1 DEF ToReload
  <2>3. \A g \in Handlers :
          pc'[g] = "swap" /\ g \notin outdated' /\ ToReload' = {} => snap'[g] = EnabledRows'
    BY <2>1, <2>2 DEF ReloadInv
  <2>4. ~missed' /\ ToReload' = {} => live' = EnabledRows'
    BY <2>1, <2>2 DEF ReloadInv
  <2>. QED
    BY <2>1, <2>3, <2>4 DEF ReloadInv
<1>10. CASE UNCHANGED vars
  <2>1. ToReload' = ToReload /\ AboutToSwap' = AboutToSwap /\ EnabledRows' = EnabledRows
    BY <1>10 DEF vars, ToReload, AboutToSwap, EnabledRows
  <2>. QED
    BY <1>10, <2>1 DEF vars, ReloadInv
<1>. QED
  BY <1>1, <1>2, <1>3, <1>4, <1>5, <1>7, <1>8, <1>9, <1>10, NextCases

-----------------------------------------------------------------------------
(* The theorems.                                                           *)

RegistryInv == TableInv /\ HandlerTypeOK /\ ReloadInv

(* The inductive invariant of the registry.                                *)
LEMMA RegistryInvariant == Spec => []RegistryInv
<1>1. Init => RegistryInv
  <2>. SUFFICES ASSUME Init PROVE RegistryInv
    OBVIOUS
  <2>1. TableInv
    BY RegistryAssumption DEF Init, TableInv, TableTypeOK, Unique, IssuedInv, KeysNeverReused
  <2>2. HandlerTypeOK
    <3>1. <<>> \in Seq(Names) /\ NoArg \in Arg
      BY DEF Arg
    <3>. QED
      BY <3>1 DEF Init, HandlerTypeOK, ArgInv
  <2>3. ReloadInv
    BY DEF Init, ReloadInv
  <2>. QED
    BY <2>1, <2>2, <2>3 DEF RegistryInv
<1>2. RegistryInv /\ [Next]_vars => RegistryInv'
  BY NextTableStep, TableStepKeeps, HandlerTypeStep, ReloadStep DEF RegistryInv, HandlerTypeOK
<1>. QED
  BY <1>1, <1>2, PTL DEF Spec

(* Every variable of the registry keeps its type, and the table its unique *)
(* keys.                                                                   *)
THEOREM RegistryTypeCorrect == Spec => []TypeOK
<1>1. RegistryInv => TypeOK
  BY DEF RegistryInv, TableInv, TableTypeOK, Unique, HandlerTypeOK, TypeOK
<1>. QED
  BY <1>1, RegistryInvariant, PTL

(* An account's key denotes one account for ever (provider.go:60).         *)
THEOREM KeysAreStable == Spec => []KeysNeverReused
<1>1. RegistryInv => KeysNeverReused
  BY DEF RegistryInv, TableInv
<1>. QED
  BY <1>1, RegistryInvariant, PTL

(* No handler, however late, brings a deleted account back                 *)
(* (handlers.go:572).                                                      *)
THEOREM DeletionIsFinal == Spec => DeletedStaysDeleted
<1>1. RegistryInv /\ [Next]_vars =>
        [\A p \in issued : ~HasId(p[1]) => \A a \in accounts' : a.id # p[1]]_vars
  BY NextTableStep, TableStepKeeps DEF RegistryInv, HandlerTypeOK
<1>. QED
  BY <1>1, RegistryInvariant, PTL DEF Spec, DeletedStaysDeleted

(* Once every handler is done, the live accounts are the enabled rows,     *)
(* unless a reload failed or was overtaken (registry.go:56-78).            *)
THEOREM LiveAccountsFollowTable == Spec => []LiveMatchesTable
<1>1. RegistryInv => LiveMatchesTable
  BY DEF RegistryInv, ReloadInv, ToReload, AboutToSwap, LiveMatchesTable
<1>. QED
  BY <1>1, RegistryInvariant, PTL

-----------------------------------------------------------------------------
(* The boundary of the finding about HotReload: handlers have to overlap,  *)
(* or a statement to fail, for an account to go unnoticed.                 *)

Alone == \A g, h \in Handlers : g = h

\* Nothing is missed, and a row that was inserted is there to be selected.
AloneInv ==
  /\ missed = FALSE /\ outdated = {}
  /\ \A h \in Handlers : pc[h] = "select" => HasName(arg[h].name)

(* The row of an upsert is in the table.                                   *)
LEMMA UpsertPresent ==
  ASSUME NEW n, NEW c, Upsert(n, c), TableInv
  PROVE  HasName(n)'
<1>1. CASE HasName(n) /\ accounts' = {IF a.name = n THEN [a EXCEPT !.enabled = TRUE, !.creds = c]
                                      ELSE a : a \in accounts}
  <2>1. PICK a \in accounts : a.name = n
    BY <1>1 DEF HasName
  <2>2. /\ [a EXCEPT !.enabled = TRUE, !.creds = c] \in accounts'
        /\ [a EXCEPT !.enabled = TRUE, !.creds = c].name = n
    BY <1>1, <2>1 DEF TableInv, TableTypeOK, Account
  <2>. QED
    BY <2>2 DEF HasName
<1>2. CASE accounts' = accounts \cup {[id |-> IssueId, name |-> n, enabled |-> TRUE, creds |-> c]}
  <2>1. PICK b : b = [id |-> IssueId, name |-> n, enabled |-> TRUE, creds |-> c]
    OBVIOUS
  <2>2. b \in accounts' /\ b.name = n
    BY <1>2, <2>1
  <2>. QED
    BY <2>2 DEF HasName
<1>. QED
  BY <1>1, <1>2 DEF Upsert

LEMMA AloneStep ==
  ASSUME Alone, ~StoreMayFail, TableInv, HandlerTypeOK, AloneInv, ReloadInv, [Next]_vars
  PROVE  AloneInv'
<1>. USE DEF handlerVars, historyVars, tableVars
<1>1. CASE Boot \/ SeedDone \/ Load \/ Crash
  BY <1>1 DEF Boot, SeedDone, Load, Crash, AloneInv, HasName
<1>2. CASE SeedOne
  BY <1>2 DEF SeedOne, AloneInv, ReloadInv
<1>3. ASSUME NEW h \in Handlers, StartsChange(h) PROVE AloneInv'
  <2>1. UNCHANGED <<missed, outdated>>
    BY <1>3 DEF StartsChange, AddInsert, CmdDelete, ButtonDelete, CmdSetEnabled, ToggleWrite
  <2>2. CASE \E n \in Names, c \in Creds : AddInsert(h, n, c)
    <3>1. PICK n \in Names, c \in Creds : AddInsert(h, n, c)
      BY <2>2
    <3>2. HasName(n)' /\ arg'[h].name = n
      BY <3>1, UpsertPresent DEF AddInsert, HandlerTypeOK
    <3>. QED
      BY <2>1, <3>2 DEF Alone, AloneInv
  <2>3. CASE \/ \E id \in Ids : CmdDelete(h, id) \/ ButtonDelete(h, id)
             \/ \E id \in Ids, value \in BOOLEAN : CmdSetEnabled(h, id, value)
             \/ ToggleWrite(h)
    <3>1. pc'[h] = "reload"
      BY <2>3 DEF CmdDelete, ButtonDelete, CmdSetEnabled, ToggleWrite, ThenReload, Goto,
           HandlerTypeOK
    <3>. QED
      BY <2>1, <3>1 DEF Alone, AloneInv
  <2>. QED
    BY <1>3, <2>2, <2>3 DEF StartsChange
<1>4. ASSUME NEW h \in Handlers, ToggleRead(h) \/ AddSelect(h) \/ ReloadRead(h) \/ ReloadSwap(h)
      PROVE  AloneInv'
  <2>1. CASE ToggleRead(h)
    BY <2>1 DEF ToggleRead, Goto, HandlerTypeOK, Alone, AloneInv
  <2>2. CASE AddSelect(h)
    BY <2>2 DEF AddSelect, At, ThenReload, Goto, HandlerTypeOK, Alone, AloneInv
  <2>3. CASE ReloadRead(h)
    <3>1. AboutToSwap = {}
      BY <2>3 DEF ReloadRead, At, Alone, AboutToSwap
    <3>. QED
      BY <2>3, <3>1 DEF ReloadRead, Goto, HandlerTypeOK, Alone, AloneInv
  <2>4. CASE ReloadSwap(h)
    BY <2>4 DEF ReloadSwap, Done, Goto, HandlerTypeOK, Alone, AloneInv
  <2>. QED
    BY <1>4, <2>1, <2>2, <2>3, <2>4
<1>5. CASE UNCHANGED vars
  BY <1>5 DEF vars, AloneInv, HasName
<1>. QED
  BY <1>1, <1>2, <1>3, <1>4, <1>5, NextCases

(* With one administrator's update at a time and a store that works, every *)
(* account added, switched or removed is live or gone as soon as its       *)
(* handler is done (registry.go:3), crashes and restarts included.         *)
THEOREM HotReloadAlone ==
  ASSUME Alone, ~StoreMayFail
  PROVE  Spec => []HotReload
<1>1. Init => AloneInv
  BY DEF Init, AloneInv
<1>2. RegistryInv /\ AloneInv /\ [Next]_vars => AloneInv'
  BY AloneStep DEF RegistryInv
<1>3. AloneInv /\ LiveMatchesTable => HotReload
  BY DEF AloneInv, LiveMatchesTable, HotReload
<1>. QED
  BY <1>1, <1>2, <1>3, RegistryInvariant, LiveAccountsFollowTable, PTL DEF Spec
=============================================================================
