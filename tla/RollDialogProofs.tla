-------------------------- MODULE RollDialogProofs --------------------------
(***************************************************************************)
(* Theorems about RollDialog for every number of handlers and runs, all    *)
(* accounts, VMs and faults: in particular for several handlers between    *)
(* any two steps of each other, which TLC cannot enumerate.                *)
(***************************************************************************)
EXTENDS RollDialog, TLAPS

-----------------------------------------------------------------------------
(* The inductive invariant, by the part of the state it is about.          *)

Arg == [acct : Accounts \cup {None}, mask : BOOLEAN, budget : BOOLEAN,
        ip : Runs \cup {None}, row : Runs \cup {None},
        vm : VMs \cup {None}, wizard : BOOLEAN]

Busy(r) == rpc[r] \notin {"unborn", "over"}

DialogInv ==
  /\ dlg \in Dialog
  /\ RowBelongsToResult
  /\ dlg.step = "running" => \E r \in Runs : Busy(r)

\* An attachment that goes on has a VM, and one about to be recorded has
\* succeeded for that VM.
HandlerInv ==
  /\ ref \in [Handlers -> Dialog \cup {None}]
  /\ hpc \in [Handlers -> {"idle", "budget", "read", "run", "text", "pick",
                       "attach", "mark", "close"}]
  /\ harg \in [Handlers -> Arg]
  /\ \A h \in Handlers :
       hpc[h] \in {"text", "pick", "attach", "mark"} => harg[h].vm \in VMs
  /\ \A h \in Handlers : hpc[h] = "mark" =>
       /\ harg[h].row \in Runs
       /\ \E y \in Runs, a \in Accounts : <<y, a, harg[h].vm>> \in bound

\* A run that rolls has what RunBegin asked for, however it was started.
RunInv ==
  /\ live \in SUBSET Accounts
  /\ rpc \in [Runs -> {"unborn", "begin", "rolling", "clear", "saving", "publish", "over"}]
  /\ acct \in [Runs -> Accounts \cup {None}]
  /\ whole \in [Runs -> [mask : BOOLEAN, budget : BOOLEAN]]
  /\ \A r \in Runs : rpc[r] = "rolling" => acct[r] # None /\ whole[r].mask

PoolInv ==
  /\ pool \in SUBSET Runs
  /\ attached \in [Runs -> VMs \cup {None}]
  /\ bound \in SUBSET (Runs \X Accounts \X VMs)
  /\ matches \in SUBSET Runs
  /\ \A r \in matches : rpc[r] # "unborn"
  /\ NoBlindMatch
  /\ MarkFollowsAttach

Inv == DialogInv /\ HandlerInv /\ RunInv /\ PoolInv

LEMMA InitInv == Init => Inv
BY RollDialogAssumption
DEF Init, Inv, DialogInv, HandlerInv, RunInv, PoolInv, Busy, Arg, Idle, NoArg, Dialog, Steps,
    RowBelongsToResult, NoBlindMatch, MarkFollowsAttach

-----------------------------------------------------------------------------
(* Frames: what a part of the invariant needs of a step that leaves its    *)
(* own variables alone.                                                    *)

LEMMA DialogFrame ==
  ASSUME DialogInv, dlg' = dlg, pool \subseteq pool',
         \A r \in Runs : Busy(r) => Busy(r)'
  PROVE  DialogInv'
BY DEF DialogInv, RowBelongsToResult, Busy, Dialog

LEMMA HandlerFrame ==
  ASSUME HandlerInv, UNCHANGED <<ref, handlerVars>>, bound \subseteq bound'
  PROVE  HandlerInv'
BY DEF HandlerInv, handlerVars, Arg, Dialog

LEMMA RunFrame ==
  ASSUME RunInv, UNCHANGED <<live, runVars>>
  PROVE  RunInv'
BY DEF RunInv, runVars

LEMMA PoolFrame ==
  ASSUME PoolInv, UNCHANGED <<runVars, poolVars>>
  PROVE  PoolInv'
BY DEF PoolInv, runVars, poolVars, NoBlindMatch, MarkFollowsAttach

-----------------------------------------------------------------------------
(* The FSM.                                                                *)

(* An update that names no pool row and does not say "running".            *)
LEMMA UpdateDialog ==
  ASSUME Inv, NEW d \in Dialog, Update(d),
         d.step # "running",
         d.row = None \/ (d.row = dlg.row /\ d.result = dlg.result),
         UNCHANGED pool
  PROVE  DialogInv' /\ UNCHANGED ref
BY DEF Inv, DialogInv, Update, RowBelongsToResult, Busy

LEMMA ClearDialog ==
  ASSUME Inv, Clear
  PROVE  /\ DialogInv'
         /\ ref' \in [Handlers -> Dialog \cup {None}]
<1>1. Idle \in Dialog /\ Idle.row = None /\ Idle.step # "running"
  BY DEF Idle, Dialog, Steps
<1>2. \A h \in Handlers : Seen(h) \in Dialog
  BY DEF Inv, DialogInv, HandlerInv, Seen
<1>3. DialogInv'
  BY <1>1 DEF Clear, DialogInv, RowBelongsToResult
<1>. QED
  BY <1>2, <1>3 DEF Clear, Inv, HandlerInv

(* A handler that goes on or ends, the pool being left alone or growing.   *)
LEMMA HandlerStep ==
  ASSUME Inv, NEW h \in Handlers,
         NEW l \in {"idle", "budget", "read", "run", "text", "pick", "attach", "mark", "close"},
         NEW v \in Arg, HandlerGoto(h, l, v),
         l \in {"text", "pick", "attach", "mark"} => v.vm \in VMs,
         l = "mark" => /\ v.row \in Runs
                       /\ \E y \in Runs, a \in Accounts : <<y, a, v.vm>> \in bound',
         ref' \in [Handlers -> Dialog \cup {None}],
         bound \subseteq bound'
  PROVE  HandlerInv'
BY DEF Inv, HandlerInv, HandlerGoto

LEMMA NoArgIsArg == NoArg \in Arg
BY DEF NoArg, Arg

LEMMA HandlerEnds ==
  ASSUME Inv, NEW h \in Handlers, HandlerDone(h) \/ HandlerGoto(h, "close", NoArg),
         ref' \in [Handlers -> Dialog \cup {None}],
         bound \subseteq bound'
  PROVE  HandlerInv'
<1>1. CASE HandlerDone(h)
  BY <1>1, HandlerStep, NoArgIsArg DEF HandlerDone
<1>2. CASE HandlerGoto(h, "close", NoArg)
  BY <1>2, HandlerStep, NoArgIsArg
<1>. QED
  BY <1>1, <1>2

-----------------------------------------------------------------------------
(* One lemma for each group of actions of Next.                            *)

(* Handlers that make one FSM call.                                        *)
LEMMA OneCall ==
  ASSUME Inv, SendRollStart \/ (\E a \in Accounts : CbProvider(a)) \/ AcceptMask \/ CbAttach
  PROVE  Inv'
<1>1. UNCHANGED <<live, handlerVars, runVars, poolVars>>
  BY DEF SendRollStart, CbProvider, AcceptMask, CbAttach
<1>2. DialogInv' /\ UNCHANGED ref
  <2>1. CASE SendRollStart
    <3>1. [Idle EXCEPT !.step = "provider"] \in Dialog
      BY DEF Idle, Dialog, Steps
    <3>. QED
      BY <2>1, <3>1, <1>1, UpdateDialog DEF SendRollStart, Idle, poolVars
  <2>2. ASSUME NEW a \in Accounts, CbProvider(a)
        PROVE  DialogInv' /\ UNCHANGED ref
    <3>1. [dlg EXCEPT !.step = "mask", !.provider = a] \in Dialog
      BY DEF Inv, DialogInv, Dialog, Steps
    <3>. QED
      BY <2>2, <3>1, <1>1, UpdateDialog DEF CbProvider, poolVars, Inv, DialogInv, Dialog
  <2>3. CASE AcceptMask
    <3>1. [dlg EXCEPT !.step = "budget", !.mask = TRUE] \in Dialog
      BY DEF Inv, DialogInv, Dialog, Steps
    <3>. QED
      BY <2>3, <3>1, <1>1, UpdateDialog DEF AcceptMask, poolVars, Inv, DialogInv, Dialog
  <2>4. CASE CbAttach
    <3>1. [dlg EXCEPT !.step = "attachVM"] \in Dialog
      BY DEF Inv, DialogInv, Dialog, Steps
    <3>. QED
      BY <2>4, <3>1, <1>1, UpdateDialog DEF CbAttach, poolVars, Inv, DialogInv, Dialog
  <2>. QED
    BY <2>1, <2>2, <2>3, <2>4
<1>. QED
  BY <1>1, <1>2, HandlerFrame, RunFrame, PoolFrame DEF Inv, poolVars

LEMMA Cancelled ==
  ASSUME Inv, Cancel
  PROVE  Inv'
<1>1. DialogInv' /\ ref' \in [Handlers -> Dialog \cup {None}]
  BY ClearDialog DEF Cancel
<1>2. HandlerInv'
  BY <1>1 DEF Inv, HandlerInv, Cancel, handlerVars, poolVars, Arg
<1>. QED
  BY <1>1, <1>2, RunFrame, PoolFrame DEF Cancel, Inv

(* The first step of a handler, and steps that only read.                  *)
LEMMA HandlerReads ==
  ASSUME Inv, NEW h \in Handlers,
         \/ BudgetRead(h) \/ RunPress(h) \/ RunRefused(h) \/ AttachCheck(h) \/ AttachFails(h)
         \/ \E vm \in VMs : TextArrives(h, vm) \/ \E x \in Runs : CmdAttach(h, x, vm)
  PROVE  Inv'
<1>1. UNCHANGED <<dialogVars, live, runVars, poolVars>>
  BY DEF BudgetRead, RunPress, RunRefused, AttachCheck, AttachFails, TextArrives, CmdAttach
<1>2. /\ ref' \in [Handlers -> Dialog \cup {None}]
      /\ bound \subseteq bound'
      /\ harg[h] \in Arg
      /\ dlg \in Dialog
  BY <1>1 DEF Inv, HandlerInv, DialogInv, dialogVars, poolVars
<1>3. HandlerInv'
  <2>1. CASE BudgetRead(h)
    <3>1. [NoArg EXCEPT !.acct = dlg.provider] \in Arg
      BY <1>2 DEF NoArg, Arg, Dialog
    <3>. QED
      BY <2>1, <3>1, <1>2, HandlerStep, HandlerEnds DEF BudgetRead
  <2>2. CASE RunPress(h)
    <3>1. [NoArg EXCEPT !.acct = dlg.provider, !.mask = TRUE, !.budget = TRUE] \in Arg
      BY <1>2 DEF NoArg, Arg, Dialog
    <3>. QED
      BY <2>2, <3>1, <1>2, HandlerStep DEF RunPress
  <2>3. CASE RunRefused(h)
    BY <2>3, <1>2, HandlerEnds DEF RunRefused
  <2>4. CASE AttachCheck(h)
    <3>1. /\ [harg[h] EXCEPT !.acct = dlg.provider, !.ip = dlg.result, !.row = dlg.row] \in Arg
          /\ [harg[h] EXCEPT !.acct = dlg.provider, !.ip = dlg.result, !.row = dlg.row].vm
               = harg[h].vm
      BY <1>2 DEF Arg, Dialog
    <3>2. harg[h].vm \in VMs
      BY <2>4 DEF AttachCheck, Inv, HandlerInv
    <3>. QED
      BY <2>4, <3>1, <3>2, <1>2, HandlerStep, HandlerEnds DEF AttachCheck
  <2>5. CASE AttachFails(h)
    BY <2>5, <1>2, HandlerEnds DEF AttachFails, AfterAttach
  <2>6. ASSUME NEW vm \in VMs, TextArrives(h, vm)
        PROVE  HandlerInv'
    <3>1. /\ [NoArg EXCEPT !.vm = vm, !.wizard = TRUE] \in Arg
          /\ [NoArg EXCEPT !.vm = vm, !.wizard = TRUE].vm = vm
      BY DEF NoArg, Arg
    <3>. QED
      BY <2>6, <3>1, <1>2, HandlerStep DEF TextArrives
  <2>7. ASSUME NEW vm \in VMs, NEW x \in Runs, CmdAttach(h, x, vm)
        PROVE  HandlerInv'
    <3>1. /\ [NoArg EXCEPT !.acct = acct[x], !.ip = x, !.row = x, !.vm = vm] \in Arg
          /\ [NoArg EXCEPT !.acct = acct[x], !.ip = x, !.row = x, !.vm = vm].vm = vm
      BY DEF NoArg, Arg, Inv, RunInv
    <3>. QED
      BY <2>7, <3>1, <1>2, HandlerStep DEF CmdAttach
  <2>. QED
    BY <2>1, <2>2, <2>3, <2>4, <2>5, <2>6, <2>7
<1>4. DialogInv'
  BY <1>1, DialogFrame DEF Inv, dialogVars, poolVars, runVars, Busy
<1>. QED
  BY <1>1, <1>3, <1>4, RunFrame, PoolFrame DEF Inv

(* The remaining steps of a handler: what it was told to do, it does.      *)
LEMMA BudgetWritten ==
  ASSUME Inv, NEW h \in Handlers, BudgetWrite(h)
  PROVE  Inv'
<1>1. [dlg EXCEPT !.step = "confirm", !.budget = TRUE] \in Dialog
  BY DEF Inv, DialogInv, Dialog, Steps
<1>2. DialogInv' /\ UNCHANGED ref
  BY <1>1, UpdateDialog DEF BudgetWrite, poolVars, Inv, DialogInv, Dialog
<1>3. HandlerInv'
  BY <1>2, HandlerEnds DEF BudgetWrite, poolVars, Inv, HandlerInv
<1>. QED
  BY <1>2, <1>3, RunFrame, PoolFrame DEF Inv, BudgetWrite

LEMMA PointerRead ==
  ASSUME Inv, NEW h \in Handlers, RunRead(h) \/ AttachRead(h)
  PROVE  Inv'
<1>1. UNCHANGED <<dlg, live, runVars, poolVars>>
  BY DEF RunRead, AttachRead, Forget
<1>2. Seen(h) \in Dialog /\ harg[h] \in Arg
  BY DEF Inv, DialogInv, HandlerInv, Seen
<1>3. ref' \in [Handlers -> Dialog \cup {None}] /\ bound \subseteq bound'
  BY <1>1 DEF RunRead, AttachRead, Forget, Inv, HandlerInv, poolVars
<1>4. HandlerInv'
  <2>1. CASE RunRead(h)
    <3>1. PICK a \in {harg[h].acct, Seen(h).provider},
               m \in {TRUE, Seen(h).mask}, b \in {TRUE, Seen(h).budget} :
            HandlerGoto(h, "run", [NoArg EXCEPT !.acct = a, !.mask = m, !.budget = b])
      BY <2>1 DEF RunRead
    <3>2. [NoArg EXCEPT !.acct = a, !.mask = m, !.budget = b] \in Arg
      BY <1>2 DEF NoArg, Arg, Dialog
    <3>. QED
      BY <3>1, <3>2, <1>3, HandlerStep
  <2>2. CASE AttachRead(h)
    <3>1. PICK a \in {harg[h].acct, Seen(h).provider},
               x \in {harg[h].ip, Seen(h).result}, w \in {harg[h].row, Seen(h).row} :
            HandlerGoto(h, "attach", [harg[h] EXCEPT !.acct = a, !.ip = x, !.row = w])
      BY <2>2 DEF AttachRead
    <3>2. /\ [harg[h] EXCEPT !.acct = a, !.ip = x, !.row = w] \in Arg
          /\ [harg[h] EXCEPT !.acct = a, !.ip = x, !.row = w].vm = harg[h].vm
      BY <1>2 DEF Arg, Dialog
    <3>3. harg[h].vm \in VMs
      BY <2>2 DEF AttachRead, Inv, HandlerInv
    <3>. QED
      BY <3>1, <3>2, <3>3, <1>3, HandlerStep
  <2>. QED
    BY <2>1, <2>2
<1>5. DialogInv'
  BY <1>1, DialogFrame DEF Inv, poolVars, runVars, Busy
<1>. QED
  BY <1>1, <1>4, <1>5, RunFrame, PoolFrame DEF Inv

(* However many presses went through before this one, the dialog says      *)
(* "running" together with the run that it starts.                         *)
LEMMA RunStarted ==
  ASSUME Inv, NEW h \in Handlers, NEW r \in Runs, RunStart(h, r)
  PROVE  Inv'
<1>1. harg[h] \in Arg
  BY DEF Inv, HandlerInv
<1>2. UNCHANGED <<ref, live, poolVars>> /\ dlg' = [dlg EXCEPT !.step = "running"]
  BY DEF RunStart, Update
<1>3. rpc' = [rpc EXCEPT ![r] = "begin"] /\ rpc[r] = "unborn"
  BY DEF RunStart
<1>4. RunInv'
  <2>1. /\ acct' = [acct EXCEPT ![r] = harg[h].acct]
        /\ whole' = [whole EXCEPT ![r] = [mask |-> harg[h].mask, budget |-> harg[h].budget]]
    BY DEF RunStart
  <2>2. /\ harg[h].acct \in Accounts \cup {None}
        /\ [mask |-> harg[h].mask, budget |-> harg[h].budget] \in [mask : BOOLEAN, budget : BOOLEAN]
    BY <1>1 DEF Arg
  <2>. QED
    BY <1>2, <1>3, <2>1, <2>2 DEF Inv, RunInv
<1>5. PoolInv'
  <2>1. r \notin matches
    BY <1>3 DEF Inv, PoolInv
  <2>2. \A m \in matches : acct'[m] = acct[m] /\ whole'[m] = whole[m] /\ rpc'[m] = rpc[m]
    BY <2>1 DEF RunStart, Inv, PoolInv, RunInv
  <2>. QED
    BY <1>2, <2>2 DEF Inv, PoolInv, poolVars, NoBlindMatch, MarkFollowsAttach
<1>6. DialogInv'
  <2>1. Busy(r)'
    BY <1>3 DEF Busy, Inv, RunInv
  <2>2. dlg' \in Dialog /\ dlg'.row = dlg.row /\ dlg'.result = dlg.result
    BY <1>2 DEF Inv, DialogInv, Dialog, Steps
  <2>. QED
    BY <1>2, <2>1, <2>2 DEF Inv, DialogInv, RowBelongsToResult, poolVars
<1>7. HandlerInv'
  BY <1>2, HandlerEnds DEF RunStart, poolVars, Inv, HandlerInv
<1>. QED
  BY <1>4, <1>5, <1>6, <1>7 DEF Inv

LEMMA Attached ==
  ASSUME Inv, NEW h \in Handlers, ProviderAttach(h)
  PROVE  Inv'
<1>1. UNCHANGED <<dialogVars, live, runVars, pool, attached, matches>>
  BY DEF ProviderAttach
<1>2. /\ harg[h] \in Arg
      /\ harg[h].vm \in VMs
      /\ harg[h].ip \in Runs /\ harg[h].acct \in Accounts
  BY DEF ProviderAttach, Inv, HandlerInv, RunInv, Arg
<1>3. bound' = bound \cup {<<harg[h].ip, harg[h].acct, harg[h].vm>>}
  BY DEF ProviderAttach
<1>4. /\ bound' \in SUBSET (Runs \X Accounts \X VMs)
      /\ bound \subseteq bound'
      /\ \E y \in Runs, a \in Accounts : <<y, a, harg[h].vm>> \in bound'
  BY <1>2, <1>3 DEF Inv, PoolInv
<1>5. HandlerInv'
  <2>0. ref' \in [Handlers -> Dialog \cup {None}]
    BY <1>1 DEF dialogVars, Inv, HandlerInv
  <2>1. CASE harg[h].row # None
    <3>1. HandlerGoto(h, "mark", harg[h]) /\ harg[h].row \in Runs
      BY <2>1, <1>2 DEF ProviderAttach, Arg
    <3>. QED
      BY <3>1, <1>2, <1>4, <2>0, HandlerStep
  <2>2. CASE harg[h].row = None
    BY <2>2, <2>0, <1>4, HandlerEnds DEF ProviderAttach, AfterAttach
  <2>. QED
    BY <2>1, <2>2
<1>6. PoolInv'
  BY <1>1, <1>4 DEF Inv, PoolInv, runVars, NoBlindMatch, MarkFollowsAttach
<1>7. DialogInv'
  BY <1>1, DialogFrame DEF Inv, dialogVars, runVars, Busy
<1>. QED
  BY <1>1, <1>5, <1>6, <1>7, RunFrame DEF Inv

LEMMA RowMarked ==
  ASSUME Inv, NEW h \in Handlers, MarkAttached(h)
  PROVE  Inv'
<1>1. UNCHANGED <<dialogVars, live, runVars, pool, bound, matches>>
  BY DEF MarkAttached
<1>2. /\ harg[h] \in Arg /\ harg[h].vm \in VMs /\ harg[h].row \in Runs
      /\ \E y \in Runs, a \in Accounts : <<y, a, harg[h].vm>> \in bound
  BY DEF MarkAttached, Inv, HandlerInv
<1>3. attached' = [attached EXCEPT ![harg[h].row] = harg[h].vm] \/ UNCHANGED attached
  BY DEF MarkAttached
<1>4. PoolInv'
  BY <1>1, <1>2, <1>3 DEF Inv, PoolInv, runVars, NoBlindMatch, MarkFollowsAttach
<1>5. HandlerInv'
  BY <1>1, HandlerEnds DEF MarkAttached, AfterAttach, dialogVars, Inv, HandlerInv
<1>6. DialogInv'
  BY <1>1, DialogFrame DEF Inv, dialogVars, runVars, Busy
<1>. QED
  BY <1>1, <1>4, <1>5, <1>6, RunFrame DEF Inv

LEMMA DialogClosed ==
  ASSUME Inv, NEW h \in Handlers, CloseDialog(h)
  PROVE  Inv'
<1>1. DialogInv' /\ ref' \in [Handlers -> Dialog \cup {None}]
  BY ClearDialog DEF CloseDialog
<1>2. HandlerInv'
  BY <1>1, HandlerEnds DEF CloseDialog, poolVars
<1>. QED
  BY <1>1, <1>2, RunFrame, PoolFrame DEF CloseDialog, Inv

-----------------------------------------------------------------------------
(* The steps of a run.                                                     *)

(* A run that goes on without touching dialog, pool or matches.            *)
LEMMA RunGoesOn ==
  ASSUME Inv, NEW r \in Runs, RunBegin(r) \/ RollFails(r)
  PROVE  Inv'
<1>1. UNCHANGED <<dialogVars, live, handlerVars, poolVars, acct, whole>>
  BY DEF RunBegin, RollFails, RunGoto
<1>2. rpc[r] \in {"begin", "rolling"}
  BY DEF RunBegin, RollFails
<1>3. PICK l \in {"rolling", "clear"} :
        /\ rpc' = [rpc EXCEPT ![r] = l]
        /\ l = "rolling" => acct[r] \in live /\ whole[r].mask
  BY DEF RunBegin, RollFails, RunGoto
<1>4. RunInv'
  BY <1>1, <1>3, RollDialogAssumption DEF Inv, RunInv
<1>5. PoolInv'
  BY <1>1, <1>3 DEF Inv, PoolInv, RunInv, poolVars, NoBlindMatch, MarkFollowsAttach
<1>6. DialogInv'
  BY <1>1, <1>3, DialogFrame DEF Inv, RunInv, dialogVars, poolVars, Busy
<1>. QED
  BY <1>1, <1>4, <1>5, <1>6, HandlerFrame DEF Inv, dialogVars, poolVars

LEMMA MatchFound ==
  ASSUME Inv, NEW r \in Runs, RollMatches(r)
  PROVE  Inv'
<1>1. UNCHANGED <<dialogVars, live, handlerVars, pool, attached, bound, acct, whole>>
  BY DEF RollMatches, RunGoto
<1>2. /\ rpc[r] = "rolling" /\ whole[r].budget
      /\ rpc' = [rpc EXCEPT ![r] = "saving"]
      /\ matches' = matches \cup {r}
  BY DEF RollMatches, RunGoto
<1>3. acct[r] # None /\ whole[r].mask
  BY <1>2 DEF Inv, RunInv
<1>4. RunInv'
  BY <1>1, <1>2 DEF Inv, RunInv
<1>5. PoolInv'
  BY <1>1, <1>2, <1>3 DEF Inv, PoolInv, RunInv, NoBlindMatch, MarkFollowsAttach
<1>6. DialogInv'
  BY <1>1, <1>2, DialogFrame DEF Inv, RunInv, dialogVars, Busy
<1>. QED
  BY <1>1, <1>4, <1>5, <1>6, HandlerFrame DEF Inv, dialogVars

LEMMA MatchSaved ==
  ASSUME Inv, NEW r \in Runs, SaveMatch(r)
  PROVE  Inv'
<1>1. UNCHANGED <<dialogVars, live, handlerVars, attached, bound, matches, acct, whole>>
  BY DEF SaveMatch, RunGoto
<1>2. /\ rpc[r] = "saving" /\ rpc' = [rpc EXCEPT ![r] = "publish"]
      /\ pool' = pool \cup {r} \/ UNCHANGED pool
  BY DEF SaveMatch, RunGoto
<1>4. RunInv'
  BY <1>1, <1>2 DEF Inv, RunInv
<1>5. PoolInv'
  BY <1>1, <1>2 DEF Inv, PoolInv, RunInv, NoBlindMatch, MarkFollowsAttach
<1>6. DialogInv'
  BY <1>1, <1>2, DialogFrame DEF Inv, RunInv, dialogVars, Busy
<1>. QED
  BY <1>1, <1>4, <1>5, <1>6, HandlerFrame DEF Inv, dialogVars

(* A run that ends leaves no dialog "running": it clears the dialog or     *)
(* turns it into a result.                                                 *)
LEMMA RunOver ==
  ASSUME Inv, NEW r \in Runs, ClearAfterFailure(r) \/ PublishResult(r)
  PROVE  Inv'
<1>1. UNCHANGED <<live, handlerVars, poolVars, acct, whole>>
  BY DEF ClearAfterFailure, PublishResult, RunGoto
<1>2. rpc' = [rpc EXCEPT ![r] = "over"]
  BY DEF ClearAfterFailure, PublishResult, RunGoto
<1>3. RunInv'
  BY <1>1, <1>2 DEF Inv, RunInv
<1>4. PoolInv'
  BY <1>1, <1>2 DEF Inv, PoolInv, RunInv, poolVars, NoBlindMatch, MarkFollowsAttach
<1>5. DialogInv' /\ ref' \in [Handlers -> Dialog \cup {None}]
  <2>1. CASE ClearAfterFailure(r)
    BY <2>1, ClearDialog DEF ClearAfterFailure
  <2>2. CASE PublishResult(r)
    <3>. DEFINE w == IF r \in pool THEN r ELSE None
    <3>1. /\ dlg' = [dlg EXCEPT !.step = "result", !.provider = acct[r], !.result = r, !.row = w]
          /\ UNCHANGED ref
      BY <2>2 DEF PublishResult, Update
    <3>2. acct[r] \in Accounts \cup {None} /\ w \in Runs \cup {None} /\ dlg \in Dialog
      BY DEF Inv, RunInv, DialogInv
    <3>3. dlg' \in Dialog /\ dlg'.step = "result" /\ dlg'.row = w /\ dlg'.result = r
      BY <3>1, <3>2 DEF Dialog, Steps
    <3>4. w # None => w = r /\ r \in pool
      OBVIOUS
    <3>. QED
      BY <1>1, <3>1, <3>3, <3>4 DEF Inv, DialogInv, HandlerInv, RowBelongsToResult, poolVars
  <2>. QED
    BY <2>1, <2>2
<1>6. HandlerInv'
  BY <1>1, <1>5 DEF Inv, HandlerInv, handlerVars, poolVars, Arg
<1>. QED
  BY <1>3, <1>4, <1>5, <1>6 DEF Inv

-----------------------------------------------------------------------------
(* The environment.                                                        *)

LEMMA AccountsChanged ==
  ASSUME Inv, AccountsChange
  PROVE  Inv'
<1>1. UNCHANGED <<dialogVars, handlerVars, runVars, poolVars>> /\ live' \in SUBSET Accounts
  BY DEF AccountsChange
<1>2. RunInv'
  BY <1>1 DEF Inv, RunInv, runVars
<1>3. DialogInv'
  BY <1>1, DialogFrame DEF Inv, dialogVars, poolVars, runVars, Busy
<1>. QED
  BY <1>1, <1>2, <1>3, HandlerFrame, PoolFrame DEF Inv, dialogVars, poolVars

LEMMA Crashed ==
  ASSUME Inv, Crash
  PROVE  Inv'
<1>1. Idle \in Dialog /\ Idle.row = None /\ Idle.step # "running"
  BY DEF Idle, Dialog, Steps
<1>2. DialogInv'
  BY <1>1 DEF Crash, DialogInv, RowBelongsToResult
<1>3. HandlerInv'
  BY NoArgIsArg DEF Crash, HandlerInv
<1>4. RunInv'
  BY DEF Crash, Inv, RunInv
<1>5. PoolInv'
  BY DEF Crash, Inv, PoolInv, RunInv, poolVars, NoBlindMatch, MarkFollowsAttach
<1>. QED
  BY <1>2, <1>3, <1>4, <1>5 DEF Inv

LEMMA Stuttered ==
  ASSUME Inv, UNCHANGED vars
  PROVE  Inv'
<1>1. UNCHANGED <<dialogVars, live, handlerVars, runVars, poolVars>>
  BY DEF vars
<1>2. DialogInv'
  BY <1>1, DialogFrame DEF Inv, dialogVars, poolVars, runVars, Busy
<1>. QED
  BY <1>1, <1>2, HandlerFrame, RunFrame, PoolFrame DEF Inv, dialogVars, poolVars

LEMMA StepInv == Inv /\ [Next]_vars => Inv'
<1>. SUFFICES ASSUME Inv, [Next]_vars
              PROVE  Inv'
  OBVIOUS
<1>1. CASE UserActs
  BY <1>1, OneCall, Cancelled, HandlerReads DEF UserActs
<1>2. ASSUME NEW h \in Handlers, HandlerContinues(h)
      PROVE  Inv'
  BY <1>2, BudgetWritten, PointerRead, RunStarted, HandlerReads, Attached, RowMarked, DialogClosed
  DEF HandlerContinues
<1>3. ASSUME NEW r \in Runs, RunContinues(r)
      PROVE  Inv'
  BY <1>3, RunGoesOn, MatchFound, MatchSaved, RunOver DEF RunContinues
<1>. QED
  BY <1>1, <1>2, <1>3, AccountsChanged, Crashed, Stuttered DEF Next

LEMMA Invariance == Spec => []Inv
BY InitInv, StepInv, PTL DEF Spec

-----------------------------------------------------------------------------
(* The results.                                                            *)

(* The types of dialog, handlers, runs and pool (fsm.go, handlers.go).     *)
THEOREM DialogTypeCorrect == Spec => []TypeOK
<1>1. Inv => TypeOK
  BY DEF Inv, DialogInv, HandlerInv, RunInv, PoolInv, TypeOK, Arg
<1>. QED
  BY <1>1, Invariance, PTL

(* A match is only made by a run that has an account, a mask and a budget, *)
(* whatever was read through the pointer of a dialog in motion             *)
(* (handlers.go:646).                                                      *)
THEOREM MatchesAreComplete == Spec => []NoBlindMatch
<1>1. Inv => NoBlindMatch
  BY DEF Inv, PoolInv
<1>. QED
  BY <1>1, Invariance, PTL

(* The dialog pairs a result with its own row of the pool or with none,    *)
(* for any number of runs that end in it (handlers.go:829).                *)
THEOREM RowsFollowResults == Spec => []RowBelongsToResult
<1>1. Inv => RowBelongsToResult
  BY DEF Inv, DialogInv
<1>. QED
  BY <1>1, Invariance, PTL

(* A dialog that says "running" has a run that will move it on, for any    *)
(* number of presses of one start button (handlers.go:641).                *)
THEOREM RunningDialogsEnd == Spec => []RunningHasRun
<1>1. Inv => RunningHasRun
  BY DEF Inv, DialogInv, Busy, RunningHasRun
<1>. QED
  BY <1>1, Invariance, PTL

(* A row that names a VM was attached to that VM (handlers.go:852-857).    *)
THEOREM MarksAreTrue == Spec => []MarkFollowsAttach
<1>1. Inv => MarkFollowsAttach
  BY DEF Inv, PoolInv
<1>. QED
  BY <1>1, Invariance, PTL

-----------------------------------------------------------------------------
(* Only what a run has found is ever saved, shown, attached or marked. The *)
(* dialogs, also those a handler still points to, and the values handlers  *)
(* have read from them, name matches and rows of the pool only.            *)

FoundIn(d) == d.result \in matches \cup {None} /\ d.row \in pool \cup {None}
FoundBy(v) == v.ip \in matches \cup {None} /\ v.row \in pool \cup {None}

MatchInv ==
  /\ pool \subseteq matches
  /\ \A r \in Runs : rpc[r] \in {"saving", "publish"} => r \in matches
  /\ FoundIn(dlg)
  /\ \A h \in Handlers : ref[h] # None => FoundIn(ref[h])
  /\ \A h \in Handlers : FoundBy(harg[h])
  /\ \A x \in Runs, a \in Accounts, vm \in VMs : <<x, a, vm>> \in bound => x \in matches
  /\ \A x \in Runs : attached[x] # None => x \in pool

LEMMA InitMatches == Init => MatchInv
BY RollDialogAssumption DEF Init, MatchInv, FoundIn, FoundBy, Idle, NoArg

(* A step that changes neither pool, matches nor marks keeps the invariant *)
(* if the dialog it leaves and the values it hands on name matches only.   *)
LEMMA MatchFrame ==
  ASSUME Inv, MatchInv, UNCHANGED poolVars,
         \A r \in Runs : rpc'[r] \in {"saving", "publish"} => rpc[r] \in {"saving", "publish"},
         FoundIn(dlg)',
         \A h \in Handlers : ref'[h] # None => ref'[h] \in {ref[h], dlg},
         \A h \in Handlers : FoundBy(harg[h])'
  PROVE  MatchInv'
<1>1. ASSUME NEW h \in Handlers, ref'[h] # None
      PROVE  FoundIn(ref[h])'
  <2>1. CASE ref'[h] = dlg
    BY <2>1 DEF MatchInv, FoundIn, poolVars
  <2>2. CASE ref'[h] = ref[h]
    BY <2>2, <1>1 DEF MatchInv, FoundIn, poolVars
  <2>. QED
    BY <1>1, <2>1, <2>2
<1>. QED
  BY <1>1 DEF MatchInv, poolVars

LEMMA SeenFound ==
  ASSUME Inv, MatchInv, NEW h \in Handlers
  PROVE  FoundIn(Seen(h)) /\ FoundIn(dlg) /\ FoundBy(harg[h]) /\ FoundBy(NoArg)
BY DEF MatchInv, Seen, FoundBy, NoArg

LEMMA ClearFound ==
  ASSUME Inv, MatchInv, Clear, UNCHANGED poolVars
  PROVE  /\ FoundIn(dlg)'
         /\ \A h \in Handlers : ref'[h] # None => ref'[h] \in {ref[h], dlg}
<1>1. \A h \in Handlers : Seen(h) \in {ref[h], dlg}
  BY DEF Seen
<1>. QED
  BY <1>1 DEF Clear, FoundIn, Idle, Inv, HandlerInv

(* The values of one handler change, to ones that name matches only.       *)
LEMMA GotoFound ==
  ASSUME Inv, MatchInv, UNCHANGED poolVars, NEW h \in Handlers,
         NEW l, NEW v, HandlerGoto(h, l, v), FoundBy(v)
  PROVE  \A g \in Handlers : FoundBy(harg[g])'
BY DEF HandlerGoto, FoundBy, MatchInv, Inv, HandlerInv, poolVars

LEMMA UserMatches ==
  ASSUME Inv, MatchInv,
         SendRollStart \/ (\E a \in Accounts : CbProvider(a)) \/ AcceptMask \/ Cancel \/ CbAttach
  PROVE  MatchInv'
<1>1. UNCHANGED <<handlerVars, runVars, poolVars>>
  BY DEF SendRollStart, CbProvider, AcceptMask, CbAttach, Cancel
<1>2. FoundIn(dlg)' /\ \A h \in Handlers : ref'[h] # None => ref'[h] \in {ref[h], dlg}
  <2>1. CASE Cancel
    BY <2>1, <1>1, ClearFound DEF Cancel
  <2>2. CASE SendRollStart
    BY <2>2, <1>1 DEF SendRollStart, Update, FoundIn, Idle, poolVars
  <2>3. ASSUME dlg'.result = dlg.result, dlg'.row = dlg.row, ref' = ref
        PROVE  FoundIn(dlg)' /\ \A h \in Handlers : ref'[h] # None => ref'[h] \in {ref[h], dlg}
    BY <2>3, <1>1 DEF FoundIn, MatchInv, poolVars
  <2>4. CASE (\E a \in Accounts : CbProvider(a)) \/ AcceptMask \/ CbAttach
    <3>1. dlg'.result = dlg.result /\ dlg'.row = dlg.row /\ ref' = ref
      BY <2>4 DEF CbProvider, AcceptMask, CbAttach, Update, Inv, DialogInv, Dialog
    <3>. QED
      BY <3>1, <2>3
  <2>. QED
    BY <2>1, <2>2, <2>4
<1>3. \A h \in Handlers : FoundBy(harg[h])'
  BY <1>1 DEF FoundBy, MatchInv, handlerVars, poolVars
<1>. QED
  BY <1>1, <1>2, <1>3, MatchFrame DEF runVars

(* Whatever a handler reads through its pointer, old or new, was found.    *)
LEMMA ReadMatches ==
  ASSUME Inv, MatchInv, NEW h \in Handlers,
         \/ BudgetRead(h) \/ RunPress(h) \/ RunRefused(h) \/ AttachCheck(h) \/ AttachFails(h)
         \/ RunRead(h) \/ AttachRead(h)
         \/ \E vm \in VMs : TextArrives(h, vm) \/ \E x \in Runs : CmdAttach(h, x, vm)
  PROVE  MatchInv'
<1>1. UNCHANGED <<dlg, runVars, poolVars>>
  BY DEF BudgetRead, RunPress, RunRefused, AttachCheck, AttachFails, RunRead, AttachRead,
         TextArrives, CmdAttach, Forget, dialogVars
<1>2. \A g \in Handlers : ref'[g] # None => ref'[g] \in {ref[g], dlg}
  BY DEF BudgetRead, RunPress, RunRefused, AttachCheck, AttachFails, RunRead, AttachRead,
         TextArrives, CmdAttach, Forget, dialogVars, Inv, HandlerInv
<1>3. FoundIn(Seen(h)) /\ FoundIn(dlg) /\ FoundBy(harg[h]) /\ FoundBy(NoArg)
  BY SeenFound
<1>4. /\ Seen(h) \in Dialog /\ harg[h] \in Arg
      /\ NoArg \in Arg
  BY NoArgIsArg DEF Inv, DialogInv, HandlerInv, Seen
<1>5. \E l, v : HandlerGoto(h, l, v) /\ FoundBy(v)
  <2>1. CASE BudgetRead(h)
    <3>1. FoundBy([NoArg EXCEPT !.acct = dlg.provider])
      BY <1>3 DEF FoundBy, NoArg
    <3>. QED
      BY <2>1, <3>1, <1>3 DEF BudgetRead
  <2>2. CASE RunPress(h)
    <3>1. FoundBy([NoArg EXCEPT !.acct = dlg.provider, !.mask = TRUE, !.budget = TRUE])
      BY <1>3 DEF FoundBy, NoArg
    <3>. QED
      BY <2>2, <3>1 DEF RunPress
  <2>3. CASE RunRefused(h)
    BY <2>3, <1>3 DEF RunRefused, HandlerDone
  <2>4. CASE AttachCheck(h)
    <3>1. FoundBy([harg[h] EXCEPT !.acct = dlg.provider, !.ip = dlg.result, !.row = dlg.row])
      BY <1>3, <1>4 DEF FoundBy, FoundIn, Arg
    <3>. QED
      BY <2>4, <3>1, <1>3 DEF AttachCheck, HandlerDone
  <2>5. CASE AttachFails(h)
    BY <2>5, <1>3 DEF AttachFails, AfterAttach, HandlerDone
  <2>6. CASE RunRead(h)
    <3>1. PICK a \in {harg[h].acct, Seen(h).provider},
               m \in {TRUE, Seen(h).mask}, b \in {TRUE, Seen(h).budget} :
            HandlerGoto(h, "run", [NoArg EXCEPT !.acct = a, !.mask = m, !.budget = b])
      BY <2>6 DEF RunRead
    <3>2. FoundBy([NoArg EXCEPT !.acct = a, !.mask = m, !.budget = b])
      BY <1>3 DEF FoundBy, NoArg
    <3>. QED
      BY <3>1, <3>2
  <2>7. CASE AttachRead(h)
    <3>1. PICK a \in {harg[h].acct, Seen(h).provider},
               x \in {harg[h].ip, Seen(h).result}, w \in {harg[h].row, Seen(h).row} :
            HandlerGoto(h, "attach", [harg[h] EXCEPT !.acct = a, !.ip = x, !.row = w])
      BY <2>7 DEF AttachRead
    <3>2. FoundBy([harg[h] EXCEPT !.acct = a, !.ip = x, !.row = w])
      BY <1>3, <1>4 DEF FoundBy, FoundIn, Arg
    <3>. QED
      BY <3>1, <3>2
  <2>8. ASSUME NEW vm \in VMs, TextArrives(h, vm)
        PROVE  \E l, v : HandlerGoto(h, l, v) /\ FoundBy(v)
    <3>1. FoundBy([NoArg EXCEPT !.vm = vm, !.wizard = TRUE])
      BY <1>3 DEF FoundBy, NoArg
    <3>. QED
      BY <2>8, <3>1 DEF TextArrives
  <2>9. ASSUME NEW vm \in VMs, NEW x \in Runs, CmdAttach(h, x, vm)
        PROVE  \E l, v : HandlerGoto(h, l, v) /\ FoundBy(v)
    <3>1. FoundBy([NoArg EXCEPT !.acct = acct[x], !.ip = x, !.row = x, !.vm = vm])
      BY <2>9 DEF CmdAttach, MatchInv, FoundBy, NoArg
    <3>. QED
      BY <2>9, <3>1 DEF CmdAttach
  <2>. QED
    BY <2>1, <2>2, <2>3, <2>4, <2>5, <2>6, <2>7, <2>8, <2>9
<1>6. \A g \in Handlers : FoundBy(harg[g])'
  BY <1>1, <1>5, GotoFound
<1>7. FoundIn(dlg)'
  BY <1>1, <1>3 DEF FoundIn, poolVars
<1>. QED
  BY <1>1, <1>2, <1>6, <1>7, MatchFrame DEF runVars

(* The steps in which a handler writes the dialog and is done.             *)
LEMMA WriteMatches ==
  ASSUME Inv, MatchInv, NEW h \in Handlers,
         BudgetWrite(h) \/ (\E r \in Runs : RunStart(h, r)) \/ CloseDialog(h)
  PROVE  MatchInv'
<1>1. UNCHANGED poolVars /\ HandlerGoto(h, "idle", NoArg)
  BY DEF BudgetWrite, RunStart, CloseDialog, HandlerDone
<1>2. \A g \in Handlers : FoundBy(harg[g])'
  BY <1>1, SeenFound, GotoFound
<1>3. FoundIn(dlg)' /\ \A g \in Handlers : ref'[g] # None => ref'[g] \in {ref[g], dlg}
  <2>1. CASE CloseDialog(h)
    BY <2>1, <1>1, ClearFound DEF CloseDialog
  <2>2. CASE BudgetWrite(h) \/ \E r \in Runs : RunStart(h, r)
    <3>1. /\ ref' = ref
          /\ \/ dlg' = [dlg EXCEPT !.step = "confirm", !.budget = TRUE]
             \/ dlg' = [dlg EXCEPT !.step = "running"]
      BY <2>2 DEF BudgetWrite, RunStart, Update
    <3>2. dlg \in Dialog
      BY DEF Inv, DialogInv
    <3>3. dlg'.result = dlg.result /\ dlg'.row = dlg.row
      BY <3>1, <3>2 DEF Dialog
    <3>. QED
      BY <3>1, <3>3, <1>1 DEF FoundIn, MatchInv, poolVars
  <2>. QED
    BY <2>1, <2>2
<1>4. \A r \in Runs : rpc'[r] \in {"saving", "publish"} => rpc[r] \in {"saving", "publish"}
  BY DEF BudgetWrite, RunStart, CloseDialog, runVars, Inv, RunInv
<1>. QED
  BY <1>1, <1>2, <1>3, <1>4, MatchFrame

(* The provider is asked for addresses a handler has read, and a row that  *)
(* is marked is one it has read.                                           *)
LEMMA AttachMatches ==
  ASSUME Inv, MatchInv, NEW h \in Handlers, ProviderAttach(h) \/ MarkAttached(h)
  PROVE  MatchInv'
<1>1. UNCHANGED <<dlg, ref, rpc, pool, matches>>
  BY DEF ProviderAttach, MarkAttached, dialogVars, runVars
<1>2. FoundBy(harg[h]) /\ FoundBy(NoArg)
  BY SeenFound
<1>3. \E l : HandlerGoto(h, l, NoArg) \/ HandlerGoto(h, l, harg[h])
  BY DEF ProviderAttach, MarkAttached, AfterAttach, HandlerDone
<1>4. \A g \in Handlers : FoundBy(harg[g])'
  BY <1>1, <1>2, <1>3 DEF HandlerGoto, FoundBy, MatchInv, Inv, HandlerInv
<1>5. \A x \in Runs, a \in Accounts, vm \in VMs : <<x, a, vm>> \in bound' => x \in matches
  <2>1. CASE ProviderAttach(h)
    <3>1. harg[h].ip \in matches /\ bound' = bound \cup {<<harg[h].ip, harg[h].acct, harg[h].vm>>}
      BY <2>1, <1>2 DEF ProviderAttach, FoundBy
    <3>. QED
      BY <3>1 DEF MatchInv
  <2>2. CASE MarkAttached(h)
    BY <2>2 DEF MarkAttached, MatchInv
  <2>. QED
    BY <2>1, <2>2
<1>6. \A x \in Runs : attached'[x] # None => x \in pool
  <2>1. CASE ProviderAttach(h)
    BY <2>1 DEF ProviderAttach, MatchInv
  <2>2. CASE MarkAttached(h)
    <3>1. harg[h].row \in pool
      BY <2>2, <1>2, RollDialogAssumption DEF MarkAttached, FoundBy, Inv, HandlerInv
    <3>2. \/ attached' = [attached EXCEPT ![harg[h].row] = harg[h].vm]
          \/ UNCHANGED attached
      BY <2>2 DEF MarkAttached
    <3>. QED
      BY <3>1, <3>2 DEF MatchInv, Inv, PoolInv
  <2>. QED
    BY <2>1, <2>2
<1>. QED
  BY <1>1, <1>4, <1>5, <1>6 DEF MatchInv, FoundIn

(* A run saves and publishes what it has found; how the others end.        *)
LEMMA RunMatches ==
  ASSUME Inv, MatchInv, NEW r \in Runs, RunContinues(r)
  PROVE  MatchInv'
<1>0. rpc \in [Runs -> {"unborn", "begin", "rolling", "clear", "saving", "publish", "over"}]
  BY DEF Inv, RunInv
<1>1. CASE RunBegin(r) \/ RollFails(r)
  <2>1. UNCHANGED <<dlg, ref, harg, poolVars>> /\ \E l \in {"rolling", "clear"} : RunGoto(r, l)
    BY <1>1 DEF RunBegin, RollFails, dialogVars, handlerVars
  <2>. QED
    BY <2>1, <1>0 DEF RunGoto, MatchInv, FoundIn, FoundBy, poolVars
<1>2. CASE ClearAfterFailure(r)
  <2>1. UNCHANGED <<harg, poolVars>> /\ Clear /\ RunGoto(r, "over")
    BY <1>2 DEF ClearAfterFailure, handlerVars
  <2>2. \A h \in Handlers : FoundBy(harg[h])'
    BY <2>1 DEF MatchInv, FoundBy, poolVars
  <2>3. \A q \in Runs : rpc'[q] \in {"saving", "publish"} => rpc[q] \in {"saving", "publish"}
    BY <2>1, <1>0 DEF RunGoto
  <2>. QED
    BY <2>1, <2>2, <2>3, ClearFound, MatchFrame
<1>3. CASE RollMatches(r)
  <2>1. /\ UNCHANGED <<dlg, ref, harg, pool, attached, bound>>
        /\ RunGoto(r, "saving") /\ matches' = matches \cup {r}
    BY <1>3 DEF RollMatches, dialogVars, handlerVars
  <2>. QED
    BY <2>1, <1>0 DEF RunGoto, MatchInv, FoundIn, FoundBy
<1>4. CASE SaveMatch(r)
  <2>1. /\ UNCHANGED <<dlg, ref, harg, matches, attached, bound>>
        /\ RunGoto(r, "publish")
        /\ pool' = pool \cup {r} \/ pool' = pool
        /\ rpc[r] = "saving"
    BY <1>4 DEF SaveMatch, dialogVars, handlerVars
  <2>. QED
    BY <2>1, <1>0 DEF RunGoto, MatchInv, FoundIn, FoundBy
<1>5. CASE PublishResult(r)
  <2>1. /\ UNCHANGED <<ref, harg, poolVars>>
        /\ RunGoto(r, "over") /\ r \in matches
        /\ dlg' = [dlg EXCEPT !.step = "result", !.provider = acct[r], !.result = r,
                              !.row = IF r \in pool THEN r ELSE None]
    BY <1>5 DEF PublishResult, Update, handlerVars, MatchInv
  <2>2. FoundIn(dlg)'
    BY <2>1 DEF FoundIn, poolVars, Inv, DialogInv, Dialog
  <2>3. \A h \in Handlers : FoundBy(harg[h])'
    BY <2>1 DEF MatchInv, FoundBy, poolVars
  <2>4. \A q \in Runs : rpc'[q] \in {"saving", "publish"} => rpc[q] \in {"saving", "publish"}
    BY <2>1, <1>0 DEF RunGoto
  <2>. QED
    BY <2>1, <2>2, <2>3, <2>4, MatchFrame
<1>. QED
  BY <1>1, <1>2, <1>3, <1>4, <1>5 DEF RunContinues

LEMMA OthersMatches ==
  ASSUME Inv, MatchInv, AccountsChange \/ Crash \/ UNCHANGED vars
  PROVE  MatchInv'
<1>1. CASE AccountsChange \/ UNCHANGED vars
  <2>1. UNCHANGED <<dlg, ref, harg, rpc, poolVars>>
    BY <1>1 DEF AccountsChange, vars, dialogVars, handlerVars, runVars
  <2>. QED
    BY <2>1 DEF MatchInv, FoundIn, FoundBy, poolVars
<1>2. CASE Crash
  BY <1>2 DEF Crash, MatchInv, FoundIn, FoundBy, Idle, NoArg, poolVars
<1>. QED
  BY <1>1, <1>2

(* No address is saved, attached or marked that no run has found, whatever *)
(* handlers read through pointers to dialogs that are gone, whichever      *)
(* statements fail and wherever the process dies (handlers.go:756-862).    *)
THEOREM OnlyMatchesAreAttached == Spec => []OnlyMatches
<1>1. Inv /\ MatchInv /\ [Next]_vars => MatchInv'
  <2>. SUFFICES ASSUME Inv, MatchInv, [Next]_vars
                PROVE  MatchInv'
    OBVIOUS
  <2>1. CASE UserActs
    BY <2>1, UserMatches, ReadMatches DEF UserActs
  <2>2. ASSUME NEW h \in Handlers, HandlerContinues(h)
        PROVE  MatchInv'
    BY <2>2, ReadMatches, WriteMatches, AttachMatches DEF HandlerContinues
  <2>3. ASSUME NEW r \in Runs, RunContinues(r)
        PROVE  MatchInv'
    BY <2>3, RunMatches
  <2>. QED
    BY <2>1, <2>2, <2>3, OthersMatches DEF Next
<1>2. Inv /\ MatchInv => OnlyMatches
  <2>. SUFFICES ASSUME Inv, MatchInv, NEW b \in bound
                PROVE  b[1] \in matches
    BY DEF OnlyMatches, MatchInv
  <2>1. PICK x \in Runs, a \in Accounts, vm \in VMs : b = <<x, a, vm>>
    BY DEF Inv, PoolInv
  <2>2. b[1] = x
    BY <2>1
  <2>. QED
    BY <2>1, <2>2 DEF MatchInv
<1>. QED
  BY <1>1, <1>2, InitMatches, Invariance, PTL DEF Spec
=============================================================================
