# IP-Roller Bot in TLA+

TLA+ models of the bot in `src/`, the TLC configurations that check them, and
TLAPS proofs of the most important results. Every definition is translated from
the Go code; `PROJECT.json` maps it to its lines, lists the hazards of the code
with the properties that are about them, and the bugs that each property is
known to detect (operators whose comment begins with "A bug").

## 1. The system

| Component | Code | State | Operations |
|---|---|---|---|
| Rolling loop | `engine/roller.go` | locals of each run; addresses at the provider; `roll_log` | `Roll`: allow, wait, allocate, count, match, log, release; `backoff` |
| Daily counter | `engine/limiter.go` | `day`, `counts`; table `daily_counters` | `ensureDay`, `get`, `Allow`, `Inc`, `Used`, `Remaining` |
| Rate limiter | `engine/roller.go:50` | one token bucket per account key | `limiter`, `Wait` |
| Masks | `engine/mask.go` | none | `ParseMask(s)`, `Match` |
| Provider contract | `provider/provider.go` | none | `Allocate`, `Release`, `Attach`; `Account` adds the key `type#id` |
| HTTP helper | `provider/httpclient.go` | none | `DoJSON`: one request, its status, its decoded body |
| Adapters | `provider/*/` | OpenStack: a client built at first use, under a mutex | one request per operation; three are stubs |
| Registry | `registry/registry.go` | `byKey`, `order` | `Reload`, `Get`, `Accounts`, `buildAdapter` |
| Seed, schema | `registry/seed.go` | table `accounts` | `SeedFromConfig`, `Fields`, `ValidateCreds`, `credsFromBlock` |
| Storage | `storage/sqlite.go` | six tables, one connection | one SQL statement per call |
| Roll dialog | `bot/fsm.go`, `bot/handlers.go` | one `dialogState` per chat; table `pool_ips` | wizard buttons and texts, `runRoll`, `doAttach` |
| Account commands | `bot/handlers.go` | none | add, delete, enable, disable, toggle, each followed by `Reload` |
| Access control | `bot/acl.go` | `admins`, `static`, `dynamic`; table `allowed_users` | `IsAllowed`, `Add`, `Remove`, `Reload` |
| Notifier | `notify/notify.go` | `cache` under a mutex; table `forum_topics` | `post`, `ensureTopic` |
| Configuration, main | `config/`, `cmd/bot/` | none | read once; seed, reload, serve |

**How they interact.** Telegram's library handles every update in a goroutine
of its own, and `cbRun` starts one more per run. All of them share the FSM, the
registry, the engine's counter and limiters, the notifier and the storage. Each
of these guards its own calls with a mutex, or is one connection to SQLite;
nothing spans two calls. A run has its own context of ten minutes. `main` does
not wait for runs or handlers when it stops, so an orderly stop is a crash for
them. What survives is in SQLite, and the addresses at the provider.

**What is hard.** Two calls with something in between (`Allow` then `Inc`,
`Get` then `Update`, read rows then swap them); contexts that expire between an
effect and its record; in-memory copies of tables; a restart between a remote
effect and the row that remembers it; a mutex held while a remote server is
asked; adapters that runs still hold after the registry has replaced them;
`FSM.Get`, which hands out a pointer that is read without the mutex; old Telegram buttons, which work for ever.

**What makes each part correct.** Rolling: no address is forgotten, no match
released, the log is true, caps hold. Adapters: what they answer about an address
is so, a release reaches the account that pays, calls return. Counter: cache and table agree, usage
survives restarts. Masks: a matcher means what was written. Registry: live
accounts are the enabled rows, keys are never reused. Credentials: what is
accepted can be built. Dialog: what it shows belongs together, a running dialog
has a run. Access: memory follows the table, a closed bot stays closed.
Notifier: one topic per account, no message in another account's topic.

## 2. Modules

| Module | Models | State ↔ code | Runs |
|---|---|---|---|
| `DailyCounter` | `limiter.go` | `counts`, `cacheDay` = the struct; `rows[a]` = the row of today; `today` = the clock; `drifted` is history | in `MCRoller_*` |
| `Roller` | `roller.go`, uses `DailyCounter` unchanged | `pc[r]` = the line the loop of run `r` is at; `hand[r]` = `ip`; `live`, `used` = the provider; `kept`, `rollLog`, `mishap` | `MCRoller_*` |
| `AddressLedger` | abstract: what becomes of an address | `fate` = free, held, kept, released or lost | refined in `MCRoller_safety`, `MCAdapters_safety` |
| `Adapters` | `provider/`: seven adapters, `DoJSON`, `APIError`, the OpenStack client | `project[a]` = the credentials adapter `a` was built from, `net[a]`, `mu[a]` = its cached client and mutex; `byKey`, `built` = the registry's adapters; `pc`, `op`, `acc`, `hand` = where a caller stands; `home`, `pending` = the provider | `MCAdapters_*` |
| `Registry` | `registry.go`, `SeedFromConfig`, account handlers, table `accounts` | `live` = `byKey`; `snap[h]` = the rows a `Reload` has read; `phase`, `toSeed` = start-up | `MCRegistry_*` |
| `Credentials` | `seed.go`, `buildAdapter` | `row` = `credentials` of one account, `block` = its block of `config.yaml`, `adapter` = what was built | `MCCredentials` |
| `RollDialog` | `fsm.go`, the wizard, `runRoll`, `doAttach`, table `pool_ips` | `dlg` = the entry of one chat; `ref[h]` = a pointer to a deleted entry; `hpc`, `rpc` = where handlers and runs stand | `MCRollDialog_safety` |
| `Access` | `acl.go`, `/adduser`, `/deluser` | the fields of `ACL`, `table` = `allowed_users` | `MCAccess` |
| `Notifier` | `notify.go` | `lock`, `cache`, `stored` = `forum_topics`, `owner` = Telegram's topics | `MCNotifier` |
| `Mask` | `mask.go` | `texts` entered, `matcher` parsed, `addr` rolled, `hit` | `MCMask` |

One action is one step between two points at which another goroutine can
intervene: a call of a mutex-protected object, a SQL statement, a provider or
Telegram request. `RollDialog` uses the registry as a set of live keys that
changes at will and `Engine.Roll` as one step that matches or fails, which is
what `Registry` and `Roller` establish (`RunTerminates`).

**How the modules compose.** `Roller` is the composition of the loop and the
counter; its actions are conjunctions with `AllowGranted`, `AllowDenied` and
`Inc`. Loop and adapters are two modules with one promise between them:
`AddressLedger`. `Roller` implements it whatever a provider answers, `Adapters`
implements it whatever the callers do and however the registry replaces the
adapters under them. In `Roller` an address becomes `lost` by a failure recorded
in `mishap`, in `Adapters` by an error recorded in `told`; an address that exists
and is nobody's concern has the fate "forgotten", which the ledger does not have.
`Adapters` carries its own part of the registry (`Rebuild`, `Drop`): all that
matters of it there is which adapter is current.

**Adapters by type.** The differences that matter are in `typ`. `timeweb` is
`gcore` without asynchronous creations; `mws` is that without attachment;
`vkcloud` and `selectel` differ in the credentials only, `ruvds`, `beget` and
`cookie` in their names. So the TLC run has one of each group and the proofs
have all eight. An answer is a status and whether id and address are in the
body: without an address the run ends with an error (`AllocateUnreadable`),
without an id the address goes to the run but no release can reach it.

**Reads through the FSM pointer.** `cbRun` and `acceptAttachVM` check some
fields and read them again later without the mutex. In `RollDialog` each field
then has either the value of the check or the one at the time of the read, and
after `FSM.Clear` the pointer leads to the contents the entry had when it was
deleted. A single field is read as a whole: a torn Go string is not modelled.

## 3. Runs, and what they show

Passing runs (`expect: pass`); each of their properties has a mutant.

* `MCRoller_safety`: two runs on one capped account, all failures at once, over
  a midnight. `NoSilentLeak` (every live address is in hand, kept, or left
  behind by a failure), `KeptStaysLive`, `LogTellsFate`; `OvershootBounded`:
  the cap can be exceeded by one roll for each concurrent run but one, and the
  excess does not add up; and of the counter that the runs share,
  `CacheAgreesWithStore` and `UsageNeverForgotten`. An account with a failed
  load or write is exempt from the last three for the rest of the day
  (`drifted`): the code then counts from 0, or in memory only.
* `MCRoller_liveness`: `RunTerminates`, with a capped and an uncapped account.
* In both `MCRoller_safety` and `MCAdapters_safety`: `ImplementsLedger`.
* `MCAdapters_safety`: two callers, each a run or an attachment, two sets of
  credentials, a rebuild of the account under way; every answer a provider may
  give, applied or not. `ReleasesGoHome`: an account that is edited or deleted
  during a run does not strand its addresses; `OneClient`; `CallsEnd`: every
  call returns except those that wait for an attachment without a deadline.
* `MCRegistry_faults`: two overlapping handlers with crashes, failing
  statements and reseeding. `KeysNeverReused`, `DeletedStaysDeleted`,
  `LiveMatchesTable`, `ChangesTakeEffect`. Two things exempt from the last two
  until the next reload, both recorded in `missed`: a handler that ends on a
  storage error after its change and before its reload, and a reload whose
  snapshot was `outdated` when it was swapped in.
* `MCRollDialog_safety`: `NoBlindMatch`, `RowBelongsToResult`, `RunningHasRun`,
  `MarkFollowsAttach`, and `OnlyMatches`: what is saved, attached or marked was
  found by a run, whatever a handler reads through its pointer.
* `MCAccess`: `MemoryMatchesTable` for each user no two commands worked on at
  the same time (`contended`), and `NeverOpensUp`.
* `MCNotifier`: `MessagesAreSorted`, `OneTopicPerAccount` unless a failure or a
  crash hid a topic (`faulty`), `ThreadIsFinal`, `PostsEnd`.
* `MCMask`: `MatchesAsWritten` against a definition bit by bit and without
  `uint8`; `AcceptedCanBeMet`. The bot itself enters one mask at a time;
  `ParseMasks`, for several, is the engine's and so far used by its tests only.
  A rejected input ends the behaviour, so deadlock is not checked there.
* `MCCredentials`: `StoredBuilds`, `OwnValuesThenDefaults`, `SeededLikeConfig`.

Runs with a counterexample (`expect: violation`); each is a finding, with the
sentence it contradicts quoted in `PROJECT.json`.

| Run | What happens |
|---|---|
| `MCRoller_deadline` | the context expires before `Release`; the address stays allocated |
| `MCRegistry_overlap` | the older of two snapshots is swapped in last |
| `MCAdapters_hung` | an attachment authenticates, unanswered and holding the client's mutex; a run of the account waits for it beyond its deadline |

The models have more behaviours of this kind, which the properties above exempt
or leave open, and which have no run of their own:

* two presses of the start button between the check and the `Update` of `cbRun`
  (`handlers.go:641`) start two runs for one confirmation;
* the deadline passes between a match and `AddPoolIP` (`handlers.go:820`): the
  user is shown a match that is in no pool and cannot be attached by row;
* errors of the OpenStack adapters are never `APIError`s (`vkcloud.go:77`): a
  429 ends the run, where the repository's `README.md:12` promises backoff;
* an asynchronous creation at Gcore (`gcore.go:93`) is answered by a task: the
  error names it, but nobody waits for it or releases its address;
* two runs pass `Allow` together (`roller.go:87`), and the day ends above the cap;
* `roll_log` records a release before it is attempted (`roller.go:112`) and is
  not corrected when the provider refuses;
* `backoff` compares the attempt number, not the number of backoffs
  (`roller.go:137`): a late first transient error ends the run at once;
* after the last account is deleted the next start seeds `config.yaml` again
  (`seed.go:146`);
* a provider button handled between the two halves of `acceptBudget`
  (`handlers.go:725` and `749`) makes the confirmation name another account
  than the one that will be rolled; one pressed while a result is shown
  redirects the attachment to another account (`handlers.go:764`);
* `/roll` between the check and the reads of `cbRun` (`handlers.go:642` and
  `646`) starts a run without account, mask or budget; a result published
  between the reads of `acceptAttachVM` marks the row of another address;
* `/adduser` and `/deluser` of one user overlap between table and memory
  (`acl.go:76` and `87`): a removed user stays allowed until the next start;
* a crash between `CreateForumTopic` and `SetForumTopic` (`notify.go:102` and
  `109`) makes the next start create a second topic.

**Bounds, and why they are enough.** Every hazard listed needs at most two
actors: two runs, two handlers or two posters, hence two of each, and one where
the question is about one. Three addresses let two runs hold one each while a
third is allocated. A budget of 2 and one backoff reach every branch of the
loop, first and last attempt, and retries beyond the last backoff; the proofs
cover all other values. `MaxDay` of 1 lets a midnight fall between any two
steps. A cap of 1 is exceeded by two runs and denied to a third roll. `MaxId` (3)
lets an account be deleted and added again after a reseed; `MaxTopic` (3) is
more than one topic per account. Masks have two octets of two bits with numbers
from one below to one above the range, so that every comparison and every
conversion is at its edge. Credentials deviate from a complete set in at most
two fields, enough for a missing field and a wrong one. In
`MCRollDialog_safety` one handler interleaves with two runs; the buttons of a
single step are taken by nobody in particular and so interleave with that
handler too. Two handlers of several steps have more states than a run can
hold; the proofs have any number of them. In `MCAdapters_safety` two callers
are a run and an attachment, or two runs, on one client; two projects are the
credentials before and after an edit; two adapters the one a run holds and the
one that replaced it; two addresses let each run hold one.
`MCAdapters_hung` needs two callers of one adapter and one address.
A press beyond the last run of `Runs` is dropped (`RunRefused`).
`MCRoller_liveness` leaves out crashes, which end every run, and storage calls,
whose errors the loop ignores.

**Fairness.** `Roller`, `Adapters`, `Registry` and `Notifier` assume weak
fairness of the steps of a goroutine that was started: Go schedules it, and each
blocking call is bounded by the client's timeout, by the run's context or by the
token bucket, which refills. An attachment through the OpenStack client has
neither timeout nor deadline (`Unbounded`), and nothing is assumed of its
answers. `Notifier` and `Adapters` add strong fairness of taking a mutex:
`sync.Mutex` prevents starvation. Nothing is assumed of users, administrators,
failures or crashes; `ChangesTakeEffect` has as a premise that administrators
stop (`UpdatesStop`), since a busy one may keep overtaking reloads.

## 4. Proofs

Eight modules of proofs, checked by TLAPS for all runs, callers, handlers,
accounts, addresses, caps, budgets and failures, from the named assumptions of
the modules: sets are finite where something is counted, caps are integers,
`None` is no member of the sets it is added to, the entered values are texts.
For each module the type invariant is a theorem, and so is every other safety
and action property its passing runs check.

Some theorems have a premise besides those assumptions: that some of the
failures do not happen, or that one handler is at work at a time. They are the
other side of the findings and of the exemptions of section 3: they say that
what fails there fails for that reason only. `EveryMissIsReleased` and
`HotReloadAlone` state the very properties that `MCRoller_deadline` and
`MCRegistry_overlap` refute without their premises.

| Theorem | Premise | Then |
|---|---|---|
| `CapExactForOneRun` | one run | the daily cap holds exactly |
| `EveryMissIsReleased` | no deadline reached, no answer lost, no release refused, no restart | what did not match is released, whichever allocations and storage calls fail |
| `RollLogComplete` | no deadline reached, no storage call fails | `roll_log` misses no address, but for lost answers and crashes |
| `HotReloadAlone` | one handler, no statement fails | the live accounts are the enabled rows after every command, crashes and restarts included |
| `OneCommandAtATime` | one command | the whitelist in force is the table after every command, crashes included |
| `OneTopicForEveryAccount` | no storage call fails, no answer lost, no crash | one topic for each account, whatever Telegram refuses |

`RollerProofs`:

* `DailyTypeCorrect`, `CacheCorrect`, `ConsumptionSurvives`. The invariant
  that carries the last two adds that the cache is never of a later day than
  today: otherwise a cached count could become current again.
* `TypeCorrect` needs `AttemptInv`: the loop variable is at most the budget
  plus one, and at most the budget inside the loop body.
* `NoAddressForgotten`, `MatchesStay`, `RollLogTruth` are conjuncts of one
  inductive invariant `LedgerInv`: an address is in one hand at most and only
  between its allocation and the end of its attempt; the addresses in hand, the
  kept and the logged ones were used before; so a fresh address is in no log.
* `RollerUsesCounter`: in the counter's variables every behaviour of the loop is
  a behaviour of `DailyCounter` alone. So `CacheCorrectInRuns` and
  `ConsumptionSurvivesRuns`, and the counter's types, follow for the loop
  without a second proof.
* `CapOvershoot` counts the runs between `Allow` and `Inc` with the rows: the
  sum grows only by a run that was granted while the cached count was below the
  cap, and the cached count is the stored one by the counter's own invariant,
  which `RollerUsesCounter` carries over. `CapExactForOneRun` is its corollary
  that the documented cap holds as long as runs do not overlap.
* `RollerKeepsLedger`: from `LedgerInv` every step of the loop changes the fate
  of each address by a move of `AddressLedger` or not at all.
  `RollerFatesAreFinal` is what the ledger then says of kept and released ones.
* `RunsWindDown` is the part of `RunTerminates` that needs no fairness.
  `StepsLeft` counts seven steps for each roll the budget still allows and the
  rest of the current one (`Rank`); every step of the run lowers it, no step of
  another run, no failure and no midnight raises it, and it is at most
  7 * `MaxBudget` + 6. What fairness adds is that the steps are taken.
* `EveryMissIsReleased`: without the four failures of its premise nothing is
  ever added to `mishap` (`Harmless`), and then `LedgerInv` leaves no other
  place for a live address than a hand or the matches.
* `RollLogComplete`: `NotYetLogged` names the lines between an allocation and
  its entry; an address in use is logged, in `mishap`, or in the hand of a run
  at one of these lines.

`AdaptersProofs`. `CallInv` says which locals go with which line (only a release
or an engine between calls has an address in hand, stubs never make a call).
`ClientInv`: who authenticates holds the mutex of an adapter without a client,
and a request leaves only with one; hence `ClientBuiltOnce`. `HandInv`: an
address in hand is in one hand, not kept, and was created in the project of the
adapter that the run still holds; hence `ReleaseFindsItsAddress`. With
`Accounted` (nothing that exists is forgotten) every step is a move of the
ledger: `AdaptersKeepLedger`, and so `AdaptersFatesAreFinal`. `MutexInv`: the
mutex of an adapter is held only by one that authenticates this very adapter;
so whoever waits for it waits for a request under way: `NobodyWaitsForNobody`.
That such a request may never be answered is `MCAdapters_hung`. `ExistInv`:
addresses in hand and matches have been created and not deleted, which for Gcore
excludes those a task has still to create: `WhatUsersGetExists`.

`RegistryProofs`. `TableInv`: ids are below the next one and were each issued
for one name, so `KeysAreStable`; every statement but an insert leaves the set
of ids or shrinks it, and an insert takes a new id, so `DeletionIsFinal`.
`ReloadInv` carries `LiveAccountsFollowTable`: while no change waits for its
reload, a snapshot that is not outdated is the enabled rows, and once no
snapshot is left to swap in the live accounts are. `AloneInv` is what a single
handler makes of it: no snapshot is outdated, since nobody else writes.

`RollDialogProofs`. `RunningDialogsEnd` and `RowsFollowResults` are nearly
inductive: every update of the dialog keeps row and result together or drops the
row, a dialog says "running" only from the step that starts a run, and no run is
over before it has written into the dialog. What they need besides are the types
of the stale pointers. `RunInv`: a run that rolls
has what `RunBegin` asked for, however it was started; so `MatchesAreComplete`.
`HandlerInv`: an attachment about to be recorded has succeeded for its VM; so
`MarksAreTrue`. `MatchInv`: the dialog, the deleted dialogs that handlers still
point to, and the values they have read name addresses that some run has found
and rows of the pool only; every handler reads from one of these and every
update writes what a run has found. So `OnlyMatchesAreAttached`, whether or not
the fields a handler has read belong together.

`AccessProofs`. For each user not contended, `Agreement`: memory equals table,
or one command is between the two. `Frozen`: without administrators nobody can
begin a command, which is why a bot that is restricted by its whitelist alone
stays so: `AccessStaysRestricted`. A handler that is alone finds no other command
in progress when it begins: `OneCommandAtATime`.

`NotifierProofs`. `LockInv`: between lookup and store a poster holds the mutex
and the account is not cached. `OwnerInv`: whatever remembers a topic for an
account remembers one created for it: `Sorted`. `KnownInv`: a topic that no
failure hid is in the table or in the hand of the poster that has just created
it, so a second creation finds it: `TopicsAreUnique`, `ThreadsAreFinal`.
`LockIsReturned`: who holds the mutex is inside `ensureTopic`, on every path.

`CredentialsProofs`. `TakenIsSchema`: the fields taken from a block are those of
the schema, for each of the types. The invariant: what is stored is valid, and
an adapter is what `buildAdapter` makes of the row and the block of today.

`MaskProofs` is about octets of any number and width. `Number` and `Pow2` are
recursive functions, so what they compute is proved by induction. The library's
theorems of induction take an operator, which the provers cannot instantiate;
`Induction` is stated about sets instead and follows from `WFMin`: a set of
naturals has a least member. From it come the laws of `Pow2` (`Pow2Sum`) and
those of `Number`: `TailShift` (shifting by whole octets drops them) and
`LastBit` (what a shift by one bit less adds is the bit at its place in its
octet). By `SameLead` two addresses shifted right are equal exactly if their
leading bits are, so what `netip.Prefix.Contains` compares is what the text says
(`ContainsMeans`). `Uint8Exact`: a number that passed the checks of `parseOctet`
survives its conversion. Then every mask that parses means what is written and
some address satisfies it (`MaskMeans`), and the theorems follow for the
alternatives: `MasksMeanWhatIsWritten`, `AcceptedMasksCanBeMet`.

Only model-checked: liveness under fairness (`RunTerminates`, `CallsEnd`,
`ChangesTakeEffect`, `PostsEnd`), which is out of the prover's reach.

## 5. Not modelled, and why

* Pacing: durations, jitter and the tokens of the rate limiters. The table of
  limiters keeps the rate of a key's first use, but the rate comes from
  `config.yaml` and cannot change while the process lives.
* Paths, headers and JSON names of the APIs; `Adapters` has what the code makes
  of an answer.
* A 429 of OpenStack that is not retried is in `Adapters` (`Retryable`), but
  nothing the bot promises about addresses depends on it, so no property does.
* Texts, keyboards, guides, logging, YAML and environment expansion.
* Several chats: dialogs of different chats share nothing but the engine,
  registry and storage, which `Roller` and `Registry` have.
* `RemovePoolIP` and `ListAllowedUsers`' scanning, the schema of the database.

## 6. Plan

1. Done: `DailyCounter`, `Roller`, `Registry`, `RollDialog`, `Access`,
   `Notifier`, `Mask`, `Credentials`, `Adapters`, checked; `AddressLedger`,
   implemented by `Roller` and by `Adapters`; the proofs of section 4.
2. Left: `Service`, the composition of `Registry`, `RollDialog` and the
   counter, for dialogs whose account is deleted or replaced meanwhile; two
   handlers of several steps in `MCRollDialog`, with a coarser dialog.
