----------------------------- MODULE RollDialog -----------------------------
(***************************************************************************)
(* The /roll wizard of one chat, the runs it starts, the pool their        *)
(* matches are saved in, and the attachment of an address to a VM          *)
(* (internal/bot/handlers.go, internal/bot/fsm.go).                        *)
(*                                                                         *)
(* Every update is handled in a goroutine of its own and every run in      *)
(* another. They share the chat's dialogState: each FSM call is atomic,    *)
(* the steps between two of them are not. FSM.Get returns a pointer, so    *)
(* the fields a handler reads through it, without the mutex, may change    *)
(* under its hands: each is the value it had at the handler's check or the *)
(* one it has when it is used. (A field is read as a whole.) Buttons of    *)
(* old messages still work, so any button may be pressed in any state.     *)
(*                                                                         *)
(* Engine.Roll, of which Roller is the model, is one step here: it returns *)
(* a match or an error. Since a run matches at most one address, the       *)
(* address is named after its run, and so is its row in the pool. The live *)
(* accounts change as administrators please (Registry).                    *)
(***************************************************************************)
EXTENDS Integers

CONSTANTS
  Handlers,   \* goroutines handling updates of this chat
  Runs,       \* the runs that may be started, and the addresses they match
  Accounts,   \* account keys
  VMs,        \* what an address can be attached to
  None,       \* the zero value: no account, no address, no row
  Faults      \* "store" (a statement fails, or the context of a run is over),
              \* "attach" (the provider refuses), "crash"

ASSUME RollDialogAssumption == None \notin Runs \cup Accounts \cup VMs

VARIABLES
  dlg,        \* FSM.states of the chat; Idle when there is no entry
  live,       \* the registry's keys
  hpc, harg,  \* where each handler stands, and the values it has read
  ref,        \* the dialogState its pointer leads to: None while that is the
              \* chat's entry, else the last contents of a deleted one
  rpc, acct,  \* where each run stands, and its account
  whole,      \* whether it was given a mask, and a budget
  pool,       \* pool_ips: the addresses saved
  attached,   \* pool_ips.attached_vm of each row
  bound,      \* history: <<address, account, vm>> of each Attach that succeeded
  matches     \* history: the runs that found a match

dialogVars == <<dlg, ref>>
handlerVars == <<hpc, harg>>
runVars == <<rpc, acct, whole>>
poolVars == <<pool, attached, bound, matches>>
vars == <<dialogVars, live, handlerVars, runVars, poolVars>>

Steps == {"idle", "provider", "mask", "budget", "confirm", "running", "result", "attachVM"}

Idle == [step |-> "idle", provider |-> None, mask |-> FALSE, budget |-> FALSE,
         result |-> None, row |-> None]

NoArg == [acct |-> None, mask |-> FALSE, budget |-> FALSE,
          ip |-> None, row |-> None, vm |-> None, wizard |-> FALSE]

Dialog == [step : Steps, provider : Accounts \cup {None}, mask : BOOLEAN,
           budget : BOOLEAN, result : Runs \cup {None}, row : Runs \cup {None}]

TypeOK ==
  /\ dlg \in Dialog
  /\ ref \in [Handlers -> Dialog \cup {None}]
  /\ live \in SUBSET Accounts
  /\ hpc \in [Handlers -> {"idle", "budget", "read", "run", "text", "pick",
                       "attach", "mark", "close"}]
  /\ harg \in [Handlers -> [acct : Accounts \cup {None}, mask : BOOLEAN, budget : BOOLEAN,
                            ip : Runs \cup {None}, row : Runs \cup {None},
                            vm : VMs \cup {None}, wizard : BOOLEAN]]
  /\ rpc \in [Runs -> {"unborn", "begin", "rolling", "clear", "saving", "publish", "over"}]
  /\ acct \in [Runs -> Accounts \cup {None}]
  /\ whole \in [Runs -> [mask : BOOLEAN, budget : BOOLEAN]]
  /\ pool \in SUBSET Runs
  /\ attached \in [Runs -> VMs \cup {None}]
  /\ bound \in SUBSET (Runs \X Accounts \X VMs)
  /\ matches \in SUBSET Runs

Init ==
  /\ dlg = Idle
  /\ live = Accounts
  /\ hpc = [h \in Handlers |-> "idle"] /\ harg = [h \in Handlers |-> NoArg]
  /\ ref = [h \in Handlers |-> None]
  /\ rpc = [r \in Runs |-> "unborn"] /\ acct = [r \in Runs |-> None]
  /\ whole = [r \in Runs |-> [mask |-> FALSE, budget |-> FALSE]]
  /\ pool = {} /\ attached = [r \in Runs |-> None]
  /\ bound = {} /\ matches = {}

-----------------------------------------------------------------------------
(* The FSM.                                                                *)

\* FSM.Update: pointers to the entry see the change; an absent entry starts as
\* Idle.
Update(state) == dlg' = state /\ UNCHANGED ref

\* What a handler sees through its pointer.
Seen(h) == IF ref[h] = None THEN dlg ELSE ref[h]

\* The handlers that hold a pointer they will read from.
Holding == {h \in Handlers : hpc[h] \in {"read", "pick"}}

\* FSM.Clear: the entry is deleted, pointers to it keep its last contents.
Clear ==
  /\ dlg' = Idle
  /\ ref' = [h \in Handlers |-> IF h \in Holding THEN Seen(h) ELSE ref[h]]

HandlerGoto(h, label, values) ==
  /\ hpc' = [hpc EXCEPT ![h] = label]
  /\ harg' = [harg EXCEPT ![h] = values]
HandlerDone(h) == HandlerGoto(h, "idle", NoArg)

-----------------------------------------------------------------------------
(* Handlers that make one FSM call.                                        *)

\* /roll, when an account is live and the message could be sent.
SendRollStart ==
  /\ live # {}
  /\ Update([Idle EXCEPT !.step = "provider"])
  /\ UNCHANGED <<live, handlerVars, runVars, poolVars>>

CbProvider(a) ==
  /\ a \in live
  /\ Update([dlg EXCEPT !.step = "mask", !.provider = a])
  /\ UNCHANGED <<live, handlerVars, runVars, poolVars>>

\* A valid mask, by a preset button or as text.
AcceptMask ==
  /\ Update([dlg EXCEPT !.step = "budget", !.mask = TRUE])
  /\ UNCHANGED <<live, handlerVars, runVars, poolVars>>

\* /cancel, the cancel button, and "keep in pool".
Cancel ==
  /\ Clear
  /\ UNCHANGED <<live, handlerVars, runVars, poolVars>>

\* The attach button; the pool id it carries is not looked at.
CbAttach ==
  /\ Update([dlg EXCEPT !.step = "attachVM"])
  /\ UNCHANGED <<live, handlerVars, runVars, poolVars>>

-----------------------------------------------------------------------------
(* acceptBudget: the account is looked up, then the step is set.           *)

BudgetRead(h) ==
  /\ hpc[h] = "idle"
  /\ \/ /\ dlg.provider \in live
        /\ HandlerGoto(h, "budget", [NoArg EXCEPT !.acct = dlg.provider])
        /\ UNCHANGED dialogVars
     \/ dlg.provider \notin live /\ HandlerGoto(h, "close", NoArg) /\ UNCHANGED dialogVars
  /\ UNCHANGED <<live, runVars, poolVars>>

\* The confirmation is written for the account that was looked up.
BudgetWrite(h) ==
  /\ hpc[h] = "budget"
  /\ Update([dlg EXCEPT !.step = "confirm", !.budget = TRUE])
  /\ HandlerDone(h)
  /\ UNCHANGED <<live, runVars, poolVars>>

-----------------------------------------------------------------------------
(* cbRun: the dialog is checked, then read, then marked as running.        *)

\* The pointer is not used any more.
Forget(h) == ref' = [ref EXCEPT ![h] = None] /\ UNCHANGED dlg

MayRun == dlg.step = "confirm" /\ dlg.provider # None /\ dlg.mask /\ dlg.budget

RunPress(h) ==
  /\ hpc[h] = "idle" /\ MayRun
  /\ HandlerGoto(h, "read", [NoArg EXCEPT !.acct = dlg.provider, !.mask = TRUE, !.budget = TRUE])
  /\ UNCHANGED <<dialogVars, live, runVars, poolVars>>

RunRead(h) ==
  /\ hpc[h] = "read"
  /\ \E a \in {harg[h].acct, Seen(h).provider},
        m \in {TRUE, Seen(h).mask}, b \in {TRUE, Seen(h).budget} :
       HandlerGoto(h, "run", [NoArg EXCEPT !.acct = a, !.mask = m, !.budget = b])
  /\ Forget(h)
  /\ UNCHANGED <<live, runVars, poolVars>>

RunStart(h, r) ==
  /\ hpc[h] = "run" /\ rpc[r] = "unborn"
  /\ Update([dlg EXCEPT !.step = "running"])
  /\ rpc' = [rpc EXCEPT ![r] = "begin"]
  /\ acct' = [acct EXCEPT ![r] = harg[h].acct]
  /\ whole' = [whole EXCEPT ![r] = [mask |-> harg[h].mask, budget |-> harg[h].budget]]
  /\ HandlerDone(h)
  /\ UNCHANGED <<live, poolVars>>

\* Bound: once every run of Runs was started, a press is dropped.
RunRefused(h) ==
  /\ hpc[h] = "run" /\ \A r \in Runs : rpc[r] # "unborn"
  /\ HandlerDone(h)
  /\ UNCHANGED <<dialogVars, live, runVars, poolVars>>

-----------------------------------------------------------------------------
(* runRoll.                                                                *)

RunGoto(r, label) == rpc' = [rpc EXCEPT ![r] = label] /\ UNCHANGED <<acct, whole>>

\* A bug: the early return leaves the dialog as it is.
RunBeginForgetful(r) ==
  /\ rpc[r] = "begin"
  /\ RunGoto(r, IF acct[r] \in live /\ whole[r].mask THEN "rolling" ELSE "over")
  /\ UNCHANGED <<dialogVars, live, handlerVars, poolVars>>

\* A bug: the mask is not parsed again.
RunBeginTrusting(r) ==
  /\ rpc[r] = "begin"
  /\ RunGoto(r, IF acct[r] \in live THEN "rolling" ELSE "clear")
  /\ UNCHANGED <<dialogVars, live, handlerVars, poolVars>>

\* The account is looked up and the mask is parsed, whatever cbRun has seen.
RunBegin(r) ==
  /\ rpc[r] = "begin"
  /\ RunGoto(r, IF acct[r] \in live /\ whole[r].mask THEN "rolling" ELSE "clear")
  /\ UNCHANGED <<dialogVars, live, handlerVars, poolVars>>

RollFails(r) ==
  /\ rpc[r] = "rolling" /\ RunGoto(r, "clear")
  /\ UNCHANGED <<dialogVars, live, handlerVars, poolVars>>

\* A bug: the return after the failure of Roll is missing.
ClearAndGoOn(r) ==
  /\ rpc[r] = "clear"
  /\ Clear
  /\ RunGoto(r, "saving")
  /\ UNCHANGED <<live, handlerVars, poolVars>>

\* The dialog is cleared after the error was shown, here and in RunBegin.
ClearAfterFailure(r) ==
  /\ rpc[r] = "clear"
  /\ Clear
  /\ RunGoto(r, "over")
  /\ UNCHANGED <<live, handlerVars, poolVars>>

\* With no budget the loop of Roll is not entered.
RollMatches(r) ==
  /\ rpc[r] = "rolling" /\ whole[r].budget
  /\ RunGoto(r, "saving")
  /\ matches' = matches \cup {r}
  /\ UNCHANGED <<dialogVars, live, handlerVars, pool, attached, bound>>

\* AddPoolIP with the run's context; its error is only logged.
SaveMatch(r) ==
  /\ rpc[r] = "saving"
  /\ \/ pool' = pool \cup {r}
     \/ "store" \in Faults /\ UNCHANGED pool
  /\ RunGoto(r, "publish")
  /\ UNCHANGED <<dialogVars, live, handlerVars, attached, bound, matches>>

\* A bug: the row of an earlier result stays when the match was not saved.
PublishResultStale(r) ==
  /\ rpc[r] = "publish"
  /\ Update([dlg EXCEPT !.step = "result", !.provider = acct[r], !.result = r,
                        !.row = IF r \in pool THEN r ELSE dlg.row])
  /\ RunGoto(r, "over")
  /\ UNCHANGED <<live, handlerVars, poolVars>>

\* The result goes into whatever dialog the chat has by now.
PublishResult(r) ==
  /\ rpc[r] = "publish"
  /\ Update([dlg EXCEPT !.step = "result", !.provider = acct[r], !.result = r,
                        !.row = IF r \in pool THEN r ELSE None])
  /\ RunGoto(r, "over")
  /\ UNCHANGED <<live, handlerVars, poolVars>>

-----------------------------------------------------------------------------
(* Attachment.                                                             *)

\* onText routes the message by the step it reads.
TextArrives(h, vm) ==
  /\ hpc[h] = "idle" /\ dlg.step = "attachVM"
  /\ HandlerGoto(h, "text", [NoArg EXCEPT !.vm = vm, !.wizard = TRUE])
  /\ UNCHANGED <<dialogVars, live, runVars, poolVars>>

\* acceptAttachVM: there has to be a result.
AttachCheck(h) ==
  /\ hpc[h] = "text"
  /\ IF dlg.result = None THEN HandlerDone(h)
     ELSE HandlerGoto(h, "pick", [harg[h] EXCEPT !.acct = dlg.provider, !.ip = dlg.result,
                                                 !.row = dlg.row])
  /\ UNCHANGED <<dialogVars, live, runVars, poolVars>>

\* Row, account and address are read one after the other.
AttachRead(h) ==
  /\ hpc[h] = "pick"
  /\ \E a \in {harg[h].acct, Seen(h).provider},
        x \in {harg[h].ip, Seen(h).result}, w \in {harg[h].row, Seen(h).row} :
       HandlerGoto(h, "attach", [harg[h] EXCEPT !.acct = a, !.ip = x, !.row = w])
  /\ Forget(h)
  /\ UNCHANGED <<live, runVars, poolVars>>

\* /attach <ip> <vm_id>: account and address as the pool has them.
CmdAttach(h, x, vm) ==
  /\ hpc[h] = "idle" /\ x \in pool
  /\ HandlerGoto(h, "attach", [NoArg EXCEPT !.acct = acct[x], !.ip = x, !.row = x, !.vm = vm])
  /\ UNCHANGED <<dialogVars, live, runVars, poolVars>>

AfterAttach(h) == IF harg[h].wizard THEN HandlerGoto(h, "close", NoArg) ELSE HandlerDone(h)

\* A bug: the address is not parsed first.
ProviderAttachBlindly(h) ==
  /\ hpc[h] = "attach" /\ harg[h].acct \in live
  /\ bound' = bound \cup {<<harg[h].ip, harg[h].acct, harg[h].vm>>}
  /\ AfterAttach(h)
  /\ UNCHANGED <<dialogVars, live, runVars, pool, attached, matches>>

ProviderAttach(h) ==
  /\ hpc[h] = "attach" /\ harg[h].acct \in live /\ harg[h].ip # None
  /\ bound' = bound \cup {<<harg[h].ip, harg[h].acct, harg[h].vm>>}
  /\ IF harg[h].row # None THEN HandlerGoto(h, "mark", harg[h]) ELSE AfterAttach(h)
  /\ UNCHANGED <<dialogVars, live, runVars, pool, attached, matches>>

\* A bug: the row is marked although the provider refused.
AttachFailsAndMarks(h) ==
  /\ hpc[h] = "attach" /\ (harg[h].acct \notin live \/ harg[h].ip = None \/ "attach" \in Faults)
  /\ IF harg[h].row # None THEN HandlerGoto(h, "mark", harg[h]) ELSE AfterAttach(h)
  /\ UNCHANGED <<dialogVars, live, runVars, poolVars>>

\* The account is gone, the address is empty, or the provider refuses.
AttachFails(h) ==
  /\ hpc[h] = "attach" /\ (harg[h].acct \notin live \/ harg[h].ip = None \/ "attach" \in Faults)
  /\ AfterAttach(h)
  /\ UNCHANGED <<dialogVars, live, runVars, poolVars>>

MarkAttached(h) ==
  /\ hpc[h] = "mark"
  /\ \/ attached' = [attached EXCEPT ![harg[h].row] = harg[h].vm]
     \/ "store" \in Faults /\ UNCHANGED attached
  /\ AfterAttach(h)
  /\ UNCHANGED <<dialogVars, live, runVars, pool, bound, matches>>

\* acceptAttachVM clears the dialog in the end, whatever doAttach did.
CloseDialog(h) ==
  /\ hpc[h] = "close"
  /\ Clear
  /\ HandlerDone(h)
  /\ UNCHANGED <<live, runVars, poolVars>>

-----------------------------------------------------------------------------
(* The environment.                                                        *)

AccountsChange ==
  /\ live' \in SUBSET Accounts
  /\ UNCHANGED <<dialogVars, handlerVars, runVars, poolVars>>

\* Dialogs, handlers and runs are in memory only.
Crash ==
  /\ "crash" \in Faults
  /\ dlg' = Idle /\ ref' = [h \in Handlers |-> None]
  /\ hpc' = [h \in Handlers |-> "idle"] /\ harg' = [h \in Handlers |-> NoArg]
  /\ rpc' = [r \in Runs |-> IF rpc[r] = "unborn" THEN "unborn" ELSE "over"]
  /\ UNCHANGED <<live, acct, whole, poolVars>>

-----------------------------------------------------------------------------
UserActs ==
  \/ SendRollStart
  \/ \E a \in Accounts : CbProvider(a)
  \/ AcceptMask
  \/ Cancel
  \/ CbAttach
  \/ \E h \in Handlers : BudgetRead(h) \/ RunPress(h)
  \/ \E h \in Handlers, vm \in VMs :
       TextArrives(h, vm) \/ \E x \in Runs : CmdAttach(h, x, vm)

HandlerContinues(h) ==
  \/ BudgetWrite(h)
  \/ RunRead(h) \/ (\E r \in Runs : RunStart(h, r)) \/ RunRefused(h)
  \/ AttachCheck(h) \/ AttachRead(h)
  \/ ProviderAttach(h) \/ AttachFails(h) \/ MarkAttached(h) \/ CloseDialog(h)

RunContinues(r) ==
  \/ RunBegin(r)
  \/ RollFails(r) \/ ClearAfterFailure(r)
  \/ RollMatches(r) \/ SaveMatch(r) \/ PublishResult(r)

Next ==
  \/ UserActs
  \/ \E h \in Handlers : HandlerContinues(h)
  \/ \E r \in Runs : RunContinues(r)
  \/ AccountsChange
  \/ Crash

Spec == Init /\ [][Next]_vars

-----------------------------------------------------------------------------
(* A match is only made by a run that has an account, a mask and a budget, *)
(* although cbRun may start one without them when a /roll resets the       *)
(* dialog between its check and its reads (handlers.go:642 and 646).       *)
NoBlindMatch ==
  \A r \in matches : acct[r] # None /\ whole[r].mask /\ whole[r].budget

(* The dialog never pairs the result of one run with the pool row of       *)
(* another, however many runs end in it and whichever of them fail to save *)
(* their match. (A handler that reads the two one by one may still pair    *)
(* them wrongly when a run ends in between: handlers.go:762.)              *)
RowBelongsToResult == dlg.row # None => dlg.row = dlg.result /\ dlg.row \in pool

(* A row names a VM only if the provider was asked to attach an address to *)
(* that VM and agreed (handlers.go:852-857).                               *)
MarkFollowsAttach ==
  \A x \in Runs : attached[x] # None =>
    \E y \in Runs, a \in Accounts : <<y, a, attached[x]>> \in bound

(* A dialog that says "running" has a run that will move it on, also when  *)
(* several runs were started from it, and when handlers cleared it or made *)
(* another dialog of it in the meantime.                                   *)
RunningHasRun == dlg.step = "running" => \E r \in Runs : rpc[r] \notin {"unborn", "over"}

(* No address is saved, attached or marked that no run has found, whatever *)
(* a handler reads through its pointer while dialogs are reset, cleared    *)
(* and overwritten by runs (handlers.go:756-768), and however many runs    *)
(* fail in between (handlers.go:808-817).                                  *)
OnlyMatches ==
  /\ pool \subseteq matches
  /\ \A b \in bound : b[1] \in matches
  /\ \A x \in Runs : attached[x] # None => x \in pool

=============================================================================
