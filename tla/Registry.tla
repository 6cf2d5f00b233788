------------------------------ MODULE Registry ------------------------------
(***************************************************************************)
(* The accounts: rows of the accounts table, changed by administrators'    *)
(* commands and buttons (internal/bot/handlers.go), and the registry's     *)
(* in-memory set of live accounts (internal/registry/registry.go), rebuilt *)
(* from the enabled rows after each change.                                *)
(*                                                                         *)
(* Every update is handled in a goroutine of its own, so the storage calls *)
(* of different handlers interleave; each call is one SQL statement on a   *)
(* pool of one connection, hence atomic. Reload reads the rows, builds the *)
(* accounts with no lock held, then swaps them in under Registry.mu.       *)
(*                                                                         *)
(* At start-up the accounts of config.yaml are inserted if the table is    *)
(* empty, and the registry is loaded, before any handler runs (main.go).   *)
(***************************************************************************)
EXTENDS Integers, Sequences

CONSTANTS
  Handlers,   \* the goroutines that handle administrators' updates
  Names,      \* (provider, label) pairs, unique in the table
  Creds,      \* credentials
  SeedList,   \* Seq(Names): the enabled blocks of config.yaml, in Types' order
  SeedCreds,  \* the credentials those blocks carry
  Faults,     \* what may fail: "store" a statement, "crash" the process
  MaxId       \* bound: account ids issued

ASSUME RegistryAssumption ==
  /\ SeedList \in Seq(Names)
  /\ SeedCreds \in Creds
  /\ MaxId \in Nat \ {0}

VARIABLES
  accounts,   \* the accounts table
  nextId,     \* the AUTOINCREMENT sequence
  live,       \* Registry.byKey: the accounts as last read
  phase,      \* of the process: "down", "seeding", "loading", "up"
  toSeed,     \* the blocks SeedFromConfig has still to insert
  pc,         \* where each handler stands
  arg,        \* what it works on: the new name, or the id and value to write
  snap,       \* the rows its Reload has read
  issued,     \* history: every <<id, name>> there ever was
  outdated,   \* history: the handlers about to swap in rows that a later
              \* reload has read again, or that lack the change of a handler
              \* that ended on an error
  missed      \* history: a handler ended on an error with its change in the
              \* table and without a reload, or swapped in outdated rows, and
              \* none has reloaded since

tableVars == <<accounts, nextId, issued>>
handlerVars == <<pc, arg, snap>>
historyVars == <<outdated, missed>>
vars == <<tableVars, live, phase, toSeed, handlerVars, historyVars>>

Ids == 1..MaxId
Account == [id : Ids, name : Names, enabled : BOOLEAN, creds : Creds]
NoArg == [kind |-> "none"]
Arg == {NoArg} \cup [kind : {"add"}, name : Names]
               \cup [kind : {"toggle"}, id : Ids, enabled : BOOLEAN]

TypeOK ==
  /\ accounts \in SUBSET Account
  /\ nextId \in 1..(MaxId + 1)
  /\ live \in SUBSET Account
  /\ phase \in {"down", "seeding", "loading", "up"}
  /\ toSeed \in Seq(Names)
  /\ pc \in [Handlers -> {"idle", "select", "toggle", "reload", "swap"}]
  /\ arg \in [Handlers -> Arg]
  /\ snap \in [Handlers -> SUBSET Account]
  /\ issued \in SUBSET (Ids \X Names)
  /\ outdated \in SUBSET Handlers
  /\ missed \in BOOLEAN
  /\ \A a, b \in accounts : a.id = b.id \/ a.name = b.name => a = b

Init ==
  /\ accounts = {} /\ nextId = 1 /\ issued = {}
  /\ live = {}
  /\ phase = "down" /\ toSeed = <<>>
  /\ pc = [h \in Handlers |-> "idle"]
  /\ arg = [h \in Handlers |-> NoArg]
  /\ snap = [h \in Handlers |-> {}]
  /\ outdated = {} /\ missed = FALSE

StoreMayFail == "store" \in Faults

-----------------------------------------------------------------------------
(* The statements on the accounts table.                                   *)

EnabledRows == {a \in accounts : a.enabled}
HasId(id) == \E a \in accounts : a.id = id
HasName(n) == \E a \in accounts : a.name = n

\* A bug: a plain rowid, the largest one present plus one.
IssueRowId == IF accounts = {} THEN 1
              ELSE (CHOOSE m \in {a.id : a \in accounts} :
                      \A a \in accounts : a.id <= m) + 1

\* The id AUTOINCREMENT gives the next row: one never used before.
IssueId == nextId

\* A bug: no conflict clause.
UpsertDuplicates(n, c) ==
  /\ IssueId <= MaxId
  /\ accounts' = accounts \cup {[id |-> IssueId, name |-> n, enabled |-> TRUE, creds |-> c]}
  /\ issued' = issued \cup {<<IssueId, n>>}
  /\ nextId' = IssueId + 1

\* INSERT ... ON CONFLICT(provider, label) DO UPDATE
Upsert(n, c) ==
  \/ /\ HasName(n)
     /\ accounts' = {IF a.name = n THEN [a EXCEPT !.enabled = TRUE, !.creds = c] ELSE a :
                       a \in accounts}
     /\ UNCHANGED <<nextId, issued>>
  \/ /\ ~HasName(n) /\ IssueId <= MaxId
     /\ accounts' = accounts \cup
                      {[id |-> IssueId, name |-> n, enabled |-> TRUE, creds |-> c]}
     /\ issued' = issued \cup {<<IssueId, n>>}
     /\ nextId' = IssueId + 1

\* A bug: the row is written back whole.
SetAccountEnabledUpserts(id, value) ==
  /\ \E p \in issued : p[1] = id /\
       accounts' = {a \in accounts : a.id # id} \cup
                     {[id |-> id, name |-> p[2], enabled |-> value, creds |-> SeedCreds]}
  /\ UNCHANGED <<nextId, issued>>

SetAccountEnabled(id, value) ==
  /\ accounts' = {IF a.id = id THEN [a EXCEPT !.enabled = value] ELSE a : a \in accounts}
  /\ UNCHANGED <<nextId, issued>>

DeleteAccount(id) ==
  /\ accounts' = {a \in accounts : a.id # id}
  /\ UNCHANGED <<nextId, issued>>

-----------------------------------------------------------------------------
(* Start-up and crash.                                                     *)

\* SeedFromConfig: only when the table is empty.
Boot ==
  /\ phase = "down"
  /\ \/ accounts = {} /\ phase' = "seeding" /\ toSeed' = SeedList
     \/ accounts # {} /\ phase' = "loading" /\ toSeed' = <<>>
  /\ UNCHANGED <<tableVars, live, handlerVars, historyVars>>

\* One block; an error is logged and the block is skipped.
SeedOne ==
  /\ phase = "seeding" /\ toSeed # <<>>
  /\ \/ Upsert(Head(toSeed), SeedCreds)
     \/ StoreMayFail /\ UNCHANGED tableVars
  /\ toSeed' = Tail(toSeed)
  /\ UNCHANGED <<live, phase, handlerVars, historyVars>>

SeedDone ==
  /\ phase = "seeding" /\ toSeed = <<>>
  /\ phase' = "loading"
  /\ UNCHANGED <<tableVars, live, toSeed, handlerVars, historyVars>>

\* The first Reload; its failure ends the process.
Load ==
  /\ phase = "loading"
  /\ \/ live' = EnabledRows /\ phase' = "up" /\ missed' = FALSE
     \/ StoreMayFail /\ phase' = "down" /\ UNCHANGED <<live, missed>>
  /\ UNCHANGED <<tableVars, toSeed, handlerVars, outdated>>

Crash ==
  /\ "crash" \in Faults /\ phase # "down"
  /\ phase' = "down"
  /\ live' = {}
  /\ toSeed' = <<>>
  /\ pc' = [h \in Handlers |-> "idle"]
  /\ arg' = [h \in Handlers |-> NoArg]
  /\ snap' = [h \in Handlers |-> {}]
  /\ outdated' = {}
  /\ UNCHANGED <<tableVars, missed>>

-----------------------------------------------------------------------------
(* The handlers.                                                           *)

Idle(h) == phase = "up" /\ pc[h] = "idle"
At(h, label) == phase = "up" /\ pc[h] = label
Goto(h, label) == pc' = [pc EXCEPT ![h] = label]
Done(h) ==
  /\ Goto(h, "idle")
  /\ arg' = [arg EXCEPT ![h] = NoArg]
  /\ snap' = [snap EXCEPT ![h] = {}]
AboutToSwap == {h \in Handlers : pc[h] = "swap"}

\* The handler ends on an error, its change in the table.
DoneUnreloaded(h) == Done(h) /\ missed' = TRUE /\ outdated' = outdated \cup AboutToSwap

ThenReload(h) == Goto(h, "reload") /\ arg' = [arg EXCEPT ![h] = NoArg] /\ UNCHANGED snap

\* /addaccount with valid credentials: UpsertAccount inserts, then selects
\* the id; only when both succeed does the handler reload.
AddInsert(h, n, c) ==
  /\ Idle(h)
  /\ Upsert(n, c)
  /\ Goto(h, "select")
  /\ arg' = [arg EXCEPT ![h] = [kind |-> "add", name |-> n]]
  /\ UNCHANGED <<live, phase, toSeed, snap, historyVars>>

\* A bug: the handler answers without a reload.
AddSelectOnly(h) ==
  /\ At(h, "select")
  /\ Done(h)
  /\ UNCHANGED <<tableVars, live, phase, toSeed, historyVars>>

AddSelect(h) ==
  /\ At(h, "select")
  /\ \/ HasName(arg[h].name) /\ ThenReload(h) /\ UNCHANGED historyVars
     \/ (~HasName(arg[h].name) \/ StoreMayFail) /\ DoneUnreloaded(h)
  /\ UNCHANGED <<tableVars, live, phase, toSeed>>

\* A bug: the handler does not reload.
CmdDeleteOnly(h, id) ==
  /\ Idle(h) /\ HasId(id)
  /\ DeleteAccount(id)
  /\ UNCHANGED <<live, phase, toSeed, handlerVars, historyVars>>

\* /delaccount: a missing row ends the handler without a reload.
CmdDelete(h, id) ==
  /\ Idle(h) /\ HasId(id)
  /\ DeleteAccount(id)
  /\ ThenReload(h)
  /\ UNCHANGED <<live, phase, toSeed, historyVars>>

\* /enableaccount and /disableaccount.
CmdSetEnabled(h, id, value) ==
  /\ Idle(h) /\ HasId(id)
  /\ SetAccountEnabled(id, value)
  /\ ThenReload(h)
  /\ UNCHANGED <<live, phase, toSeed, historyVars>>

\* The delete button reloads whatever became of the statement.
ButtonDelete(h, id) ==
  /\ Idle(h)
  /\ \/ DeleteAccount(id)
     \/ StoreMayFail /\ UNCHANGED tableVars
  /\ ThenReload(h)
  /\ UNCHANGED <<live, phase, toSeed, historyVars>>

\* The toggle button reads the row, then writes the opposite of what it read.
ToggleRead(h) ==
  /\ Idle(h)
  /\ \E a \in accounts :
       arg' = [arg EXCEPT ![h] = [kind |-> "toggle", id |-> a.id, enabled |-> a.enabled]]
  /\ Goto(h, "toggle")
  /\ UNCHANGED <<tableVars, live, phase, toSeed, snap, historyVars>>

ToggleWrite(h) ==
  /\ At(h, "toggle")
  /\ \/ SetAccountEnabled(arg[h].id, ~arg[h].enabled)
     \/ StoreMayFail /\ UNCHANGED tableVars
  /\ ThenReload(h)
  /\ UNCHANGED <<live, phase, toSeed, historyVars>>

\* Reload, first half: list the enabled rows and build their adapters.
ReloadRead(h) ==
  /\ At(h, "reload")
  /\ \/ /\ snap' = [snap EXCEPT ![h] = EnabledRows]
        /\ Goto(h, "swap")
        /\ outdated' = outdated \cup AboutToSwap
        /\ UNCHANGED <<arg, missed>>
     \/ StoreMayFail /\ DoneUnreloaded(h)
  /\ UNCHANGED <<tableVars, live, phase, toSeed>>

\* Reload, second half: the swap.
ReloadSwap(h) ==
  /\ At(h, "swap")
  /\ live' = snap[h]
  /\ Done(h)
  /\ missed' = (h \in outdated)
  /\ outdated' = outdated \ {h}
  /\ UNCHANGED <<tableVars, phase, toSeed>>

-----------------------------------------------------------------------------
HandlerContinues(h) ==
  AddSelect(h) \/ ToggleWrite(h) \/ ReloadRead(h) \/ ReloadSwap(h)

HandlerStarts(h) ==
  \/ \E n \in Names, c \in Creds : AddInsert(h, n, c)
  \/ \E id \in Ids : CmdDelete(h, id) \/ ButtonDelete(h, id)
  \/ \E id \in Ids, value \in BOOLEAN : CmdSetEnabled(h, id, value)
  \/ ToggleRead(h)

StartUp == Boot \/ SeedOne \/ SeedDone \/ Load

Next ==
  \/ StartUp
  \/ Crash
  \/ \E h \in Handlers : HandlerStarts(h) \/ HandlerContinues(h)

Spec == Init /\ [][Next]_vars

\* A started handler and a starting process go on; nobody has to send an
\* update, and nothing has to fail.
Fairness == WF_vars(StartUp) /\ \A h \in Handlers : WF_vars(HandlerContinues(h))

FairSpec == Spec /\ Fairness

-----------------------------------------------------------------------------
(* provider.go:60 "The key (typ#id) is stable across restarts, so daily    *)
(* caps and pool rows stay consistent": an id denotes one account for ever,*)
(* also after the row is deleted, the table emptied and seeded again.      *)
KeysNeverReused == \A p, q \in issued : p[1] = q[1] => p = q

(* A deleted account stays deleted: neither a toggle button pressed on a   *)
(* list from before the deletion nor an enable in flight brings its row    *)
(* back (handlers.go:572).                                                 *)
DeletedStaysDeleted ==
  [][\A p \in issued : ~HasId(p[1]) => \A a \in accounts' : a.id # p[1]]_vars

(* Once every handler is done, the live accounts are the enabled rows,     *)
(* unless a storage error stopped a handler before its reload or a reload  *)
(* was overtaken by a later one (registry.go:56-78).                       *)
LiveMatchesTable ==
  phase = "up" /\ ~missed /\ (\A h \in Handlers : pc[h] = "idle") => live = EnabledRows

UpdatesStop == <>[][\A h \in Handlers : ~HandlerStarts(h)]_vars

(* Once administrators stop, what they changed reaches the live accounts   *)
(* even if the process crashes before the reload, unless a storage error   *)
(* stops a handler or its reload is overtaken, or the process keeps        *)
(* failing before it is up.                                                *)
ChangesTakeEffect ==
  UpdatesStop /\ []<>(phase = "up") =>
    <>[](phase = "up" => live = EnabledRows \/ missed)

-----------------------------------------------------------------------------
(* What the code's comments say and the code does not do.                  *)

(* registry.go:3 "accounts added/removed via the bot take effect without a *)
(* restart": when no statement fails, the live accounts are the enabled    *)
(* rows once every handler is done.                                        *)
HotReload ==
  phase = "up" /\ (\A h \in Handlers : pc[h] = "idle") => live = EnabledRows
=============================================================================
