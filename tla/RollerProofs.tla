---------------------------- MODULE RollerProofs ----------------------------
(***************************************************************************)
(* Theorems about DailyCounter for every set of accounts, every cap and    *)
(* every choice of faults, and then, resting on them, about Roller for     *)
(* every set of runs, accounts and addresses and every budget.             *)
(***************************************************************************)
EXTENDS Roller, FiniteSetTheorems, TLAPS

-----------------------------------------------------------------------------
(* Types of the counter.                                                   *)

(* What get returns is a count, and what it caches is a cache.             *)
LEMMA CountType ==
  ASSUME DailyTypeOK, NEW a \in Accounts, NEW f \in BOOLEAN
  PROVE  /\ Count(a, f) \in Nat
         /\ FreshCounts \in [Accounts -> Nat \cup {Uncached}]
BY DEF DailyTypeOK, Count, FreshCounts, NoCounts, Uncached

(* A lazy load of the cache preserves the counter's types.                 *)
LEMMA LookupType ==
  ASSUME DailyTypeOK, NEW a \in Accounts, NEW f \in BOOLEAN, Lookup(a, f)
  PROVE  DailyTypeOK'
<1>1. Count(a, f) \in Nat /\ FreshCounts \in [Accounts -> Nat \cup {Uncached}]
  BY CountType
<1>. QED
  BY <1>1 DEF DailyTypeOK, Lookup

(* A storage call may fail or not, whatever the faults.                    *)
LEMMA StoreOutcomesType == StoreOutcomes \subseteq BOOLEAN
BY DEF StoreOutcomes

(* Every operation of the counter, midnight and a restart preserve its     *)
(* types.                                                                  *)
LEMMA DailyStepType ==
  ASSUME DailyTypeOK, NEW a \in Accounts,
         \/ AllowGranted(a) \/ AllowDenied(a) \/ Inc(a) \/ ReadUsage(a)
         \/ DayPasses \/ DailyRestart \/ UNCHANGED dailyVars
  PROVE  DailyTypeOK'
<1>1. CASE AllowUncapped(a) \/ UNCHANGED dailyVars
  BY <1>1 DEF AllowUncapped, DailyTypeOK, dailyVars
<1>2. CASE \E f \in StoreOutcomes : Lookup(a, f)
  BY <1>2, LookupType, StoreOutcomesType
<1>3. CASE Inc(a)
  <2>1. PICK f \in StoreOutcomes, g \in StoreOutcomes :
          /\ cacheDay' = today
          /\ counts' = [FreshCounts EXCEPT ![a] = Count(a, f) + 1]
          /\ rows' = IF g THEN rows ELSE [rows EXCEPT ![a] = @ + 1]
          /\ drifted' = IF f \/ g THEN drifted \cup {a} ELSE drifted
          /\ UNCHANGED today
    BY <1>3 DEF Inc
  <2>2. Count(a, f) \in Nat /\ FreshCounts \in [Accounts -> Nat \cup {Uncached}]
    BY CountType, StoreOutcomesType
  <2>3. counts' \in [Accounts -> Nat \cup {Uncached}]
    BY <2>1, <2>2
  <2>4. rows' \in [Accounts -> Nat]
    BY <2>1 DEF DailyTypeOK
  <2>. QED
    BY <2>1, <2>3, <2>4 DEF DailyTypeOK
<1>4. CASE DayPasses
  BY <1>4 DEF DayPasses, DailyTypeOK
<1>5. CASE DailyRestart
  BY <1>5 DEF DailyRestart, DailyTypeOK, NoCounts
<1>. QED
  BY <1>1, <1>2, <1>3, <1>4, <1>5 DEF AllowGranted, AllowDenied, ReadUsage

(* Type correctness of the counter, whoever calls it.                      *)
THEOREM DailyTypeCorrect == DailySpec => []DailyTypeOK
<1>1. DailyInit => DailyTypeOK
  BY DEF DailyInit, DailyTypeOK, NoCounts
<1>2. DailyTypeOK /\ [DailyNext]_dailyVars => DailyTypeOK'
  <2>. SUFFICES ASSUME DailyTypeOK, [DailyNext]_dailyVars PROVE DailyTypeOK'
    OBVIOUS
  <2>1. CASE \E a \in Accounts : DailyCall(a)
    BY <2>1, DailyStepType DEF DailyCall
  <2>2. CASE DayPasses
    BY <2>2 DEF DayPasses, DailyTypeOK
  <2>3. CASE DailyRestart
    BY <2>3 DEF DailyRestart, DailyTypeOK, NoCounts
  <2>4. CASE UNCHANGED dailyVars
    BY <2>4 DEF DailyTypeOK, dailyVars
  <2>. QED
    BY <2>1, <2>2, <2>3, <2>4 DEF DailyNext
<1>. QED
  BY <1>1, <1>2, PTL DEF DailySpec

-----------------------------------------------------------------------------
(* The cache and the table.                                                *)

(* No operation, midnight or restart makes a count cached for today differ *)
(* from the stored one, as long as no storage call failed. The cache of an *)
(* earlier day (cacheDay # today) says nothing and need not agree; it must *)
(* not be of a later day, or a midnight could make it current.             *)
DailyInv == CacheAgreesWithStore /\ cacheDay <= today

(* A lazy load caches the stored count.                                   *)
LEMMA LookupAgrees ==
  ASSUME DailyTypeOK, DailyInv, NEW a \in Accounts, NEW f \in BOOLEAN, Lookup(a, f)
  PROVE  DailyInv'
<1>1. Count(a, f) \in Nat /\ FreshCounts \in [Accounts -> Nat \cup {Uncached}]
  BY CountType
<1>2. FreshCounts' = [FreshCounts EXCEPT ![a] = Count(a, f)]
  BY DEF Lookup, FreshCounts
<1>3. a \notin drifted' => Count(a, f) = rows[a]
  BY DEF Lookup, Count, DailyInv, CacheAgreesWithStore
<1>. QED
  BY <1>1, <1>2, <1>3 DEF Lookup, DailyInv, CacheAgreesWithStore, DailyTypeOK

(* Inc adds one to the cache and to the table alike.                       *)
LEMMA IncAgrees ==
  ASSUME DailyTypeOK, DailyInv, NEW a \in Accounts, Inc(a)
  PROVE  DailyInv'
<1>1. PICK f \in BOOLEAN, g \in BOOLEAN :
        /\ cacheDay' = today
        /\ counts' = [FreshCounts EXCEPT ![a] = Count(a, f) + 1]
        /\ rows' = IF g THEN rows ELSE [rows EXCEPT ![a] = @ + 1]
        /\ drifted' = IF f \/ g THEN drifted \cup {a} ELSE drifted
        /\ UNCHANGED today
  BY StoreOutcomesType DEF Inc
<1>2. Count(a, f) \in Nat /\ FreshCounts \in [Accounts -> Nat \cup {Uncached}]
  BY CountType
<1>3. FreshCounts' = [FreshCounts EXCEPT ![a] = Count(a, f) + 1]
  BY <1>1 DEF FreshCounts
<1>4. a \notin drifted' => ~f /\ ~g /\ Count(a, f) = rows[a]
  BY <1>1 DEF Count, DailyInv, CacheAgreesWithStore
<1>5. a \notin drifted' => FreshCounts'[a] = rows'[a]
  BY <1>1, <1>2, <1>3, <1>4 DEF DailyTypeOK
<1>6. \A b \in Accounts \ {a} : FreshCounts'[b] = FreshCounts[b] /\ rows'[b] = rows[b]
  BY <1>1, <1>2, <1>3 DEF DailyTypeOK
<1>7. drifted \subseteq drifted'
  BY <1>1
<1>. QED
  BY <1>1, <1>5, <1>6, <1>7 DEF DailyInv, CacheAgreesWithStore, DailyTypeOK

(* Every call of the counter keeps cache and table in agreement.           *)
LEMMA DailyStepAgrees ==
  ASSUME DailyTypeOK, DailyInv, NEW a \in Accounts,
         \/ AllowGranted(a) \/ AllowDenied(a) \/ Inc(a) \/ ReadUsage(a)
  PROVE  DailyInv'
<1>1. CASE AllowUncapped(a)
  BY <1>1 DEF AllowUncapped, dailyVars, DailyInv, CacheAgreesWithStore, FreshCounts
<1>2. CASE \E f \in StoreOutcomes : Lookup(a, f)
  BY <1>2, LookupAgrees, StoreOutcomesType
<1>3. CASE Inc(a)
  BY <1>3, IncAgrees
<1>. QED
  BY <1>1, <1>2, <1>3 DEF AllowGranted, AllowDenied, ReadUsage

(* After midnight the cache is of an earlier day.                          *)
LEMMA MidnightAgrees ==
  ASSUME DailyTypeOK, DailyInv, DayPasses
  PROVE  DailyInv'
BY DEF DailyTypeOK, DailyInv, DayPasses, CacheAgreesWithStore, FreshCounts, NoCounts

(* A restart leaves nothing cached.                                        *)
LEMMA RestartAgrees ==
  ASSUME DailyTypeOK, DailyInv, DailyRestart
  PROVE  DailyInv'
BY DEF DailyTypeOK, DailyInv, DailyRestart, CacheAgreesWithStore, FreshCounts, NoCounts

(* The cache agrees with the table in every reachable state.               *)
LEMMA DailyInvariant == DailySpec => []DailyInv
<1>1. DailyInit => DailyInv
  BY DEF DailyInit, DailyInv, CacheAgreesWithStore, FreshCounts, NoCounts
<1>2. DailyTypeOK /\ DailyInv /\ [DailyNext]_dailyVars => DailyInv'
  <2>. SUFFICES ASSUME DailyTypeOK, DailyInv, [DailyNext]_dailyVars PROVE DailyInv'
    OBVIOUS
  <2>1. CASE \E a \in Accounts : DailyCall(a)
    BY <2>1, DailyStepAgrees DEF DailyCall
  <2>2. CASE UNCHANGED dailyVars
    BY <2>2 DEF dailyVars, DailyInv, CacheAgreesWithStore, FreshCounts
  <2>. QED
    BY <2>1, <2>2, MidnightAgrees, RestartAgrees DEF DailyNext
<1>. QED
  BY <1>1, <1>2, DailyTypeCorrect, PTL DEF DailySpec

(* limiter.go:12 "cached in memory and written through to storage": while  *)
(* no storage call fails for an account, its cached count is the stored    *)
(* one.                                                                    *)
THEOREM CacheCorrect == DailySpec => []CacheAgreesWithStore
<1>1. DailyInv => CacheAgreesWithStore
  BY DEF DailyInv
<1>. QED
  BY <1>1, DailyInvariant, PTL

-----------------------------------------------------------------------------
(* Consumption within a day.                                               *)

NeverForgets ==
  \A a \in Accounts :
    today' = today /\ a \notin drifted' => UsedToday(a)' >= UsedToday(a)

(* A call of the counter on account b leaves what Used would report for    *)
(* any account as it is or one higher.                                     *)
LEMMA CallNeverForgets ==
  ASSUME DailyTypeOK, DailyInv, NEW b \in Accounts, DailyCall(b)
  PROVE  NeverForgets
<1>. SUFFICES ASSUME NEW a \in Accounts, today' = today, a \notin drifted'
              PROVE  UsedToday(a)' >= UsedToday(a)
  BY DEF NeverForgets
<1>0. UsedToday(a) \in Nat /\ FreshCounts \in [Accounts -> Nat \cup {Uncached}]
  BY DEF DailyTypeOK, UsedToday, FreshCounts, NoCounts, Uncached
<1>1. CASE AllowUncapped(b)
  BY <1>0, <1>1 DEF AllowUncapped, dailyVars, UsedToday, FreshCounts
<1>2. CASE \E f \in StoreOutcomes : Lookup(b, f)
  <2>1. PICK f \in BOOLEAN : Lookup(b, f)
    BY <1>2, StoreOutcomesType
  <2>2. FreshCounts' = [FreshCounts EXCEPT ![b] = Count(b, f)] /\ rows' = rows
    BY <2>1 DEF Lookup, FreshCounts
  <2>3. a = b => Count(b, f) = UsedToday(a)
    BY <2>1 DEF Lookup, Count, UsedToday
  <2>4. UsedToday(a)' = UsedToday(a)
    BY <1>0, <2>2, <2>3 DEF UsedToday, Uncached
  <2>. QED
    BY <1>0, <2>4
<1>3. CASE Inc(b)
  <2>1. PICK f \in BOOLEAN, g \in BOOLEAN :
          /\ cacheDay' = today
          /\ counts' = [FreshCounts EXCEPT ![b] = Count(b, f) + 1]
          /\ rows' = IF g THEN rows ELSE [rows EXCEPT ![b] = @ + 1]
          /\ drifted' = IF f \/ g THEN drifted \cup {b} ELSE drifted
    BY <1>3, StoreOutcomesType DEF Inc
  <2>2. FreshCounts' = [FreshCounts EXCEPT ![b] = Count(b, f) + 1]
    BY <2>1 DEF FreshCounts
  <2>3. CASE a = b
    <3>1. Count(b, f) = UsedToday(a)
      BY <2>1, <2>3 DEF Count, UsedToday
    <3>2. UsedToday(a)' = UsedToday(a) + 1
      BY <1>0, <2>2, <2>3, <3>1 DEF UsedToday, Uncached
    <3>. QED
      BY <1>0, <3>2
  <2>4. CASE a # b
    <3>1. FreshCounts'[a] = FreshCounts[a] /\ rows'[a] = rows[a]
      BY <1>0, <2>1, <2>2, <2>4 DEF DailyTypeOK
    <3>. QED
      BY <1>0, <3>1 DEF UsedToday
  <2>. QED
    BY <2>3, <2>4
<1>. QED
  BY <1>1, <1>2, <1>3 DEF DailyCall, AllowGranted, AllowDenied, ReadUsage

(* limiter.go:12 "so they survive restarts within the same day": no call,  *)
(* and no restart, lowers the consumption the counter reports within a day.*)
THEOREM ConsumptionSurvives == DailySpec => UsageNeverForgotten
<1>1. DailyTypeOK /\ DailyInv /\ [DailyNext]_dailyVars => [NeverForgets]_dailyVars
  <2>. SUFFICES ASSUME DailyTypeOK, DailyInv, DailyNext PROVE NeverForgets
    OBVIOUS
  <2>1. CASE \E a \in Accounts : DailyCall(a)
    BY <2>1, CallNeverForgets
  <2>2. CASE DayPasses
    BY <2>2 DEF DayPasses, DailyTypeOK, NeverForgets
  <2>3. CASE DailyRestart
    BY <2>3 DEF DailyRestart, DailyTypeOK, DailyInv, CacheAgreesWithStore,
                NeverForgets, UsedToday, FreshCounts, NoCounts, Uncached
  <2>. QED
    BY <2>1, <2>2, <2>3 DEF DailyNext
<1>2. [NeverForgets]_dailyVars <=> [\A a \in Accounts :
        today' = today /\ a \notin drifted' => UsedToday(a)' >= UsedToday(a)]_dailyVars
  BY DEF NeverForgets
<1>. QED
  BY <1>1, <1>2, DailyTypeCorrect, DailyInvariant, PTL DEF DailySpec, UsageNeverForgotten
-----------------------------------------------------------------------------
(* Types. The type of the loop variable needs that it never passes the     *)
(* budget by more than one, and not at all inside the body of the loop.    *)

AttemptInv ==
  \A r \in Runs :
    /\ attempt[r] <= budget[r] + 1
    /\ pc[r] \in Active \ {"check"} => attempt[r] <= budget[r]

RunInv == RunTypeOK /\ AttemptInv

(* The clamp keeps a budget within its bounds.                             *)
LEMMA ClampedBudgetType ==
  ASSUME NEW a \in Accounts, NEW b \in 0..MaxBudget
  PROVE  ClampedBudget(a, b) \in 0..MaxBudget
BY RollerAssumption DEF ClampedBudget

(* A run that returns leaves well-typed locals behind.                     *)
LEMMA ReturnType ==
  ASSUME RunInv, NEW r \in Runs, Return(r),
         hand' \in [Runs -> Resources \cup {None}]
  PROVE  RunInv'
<1>. USE RollerAssumption DEF Return, Goto, RunInv
<1>1. RunTypeOK'
  <2>1. 1 \in 0..MaxBudget /\ 1 \in 1..(MaxBudget + 1)
    OBVIOUS
  <2>2. pc' \in [Runs -> Active \cup {"idle"}]
    BY DEF RunTypeOK
  <2>3. attempt' \in [Runs -> 1..(MaxBudget + 1)] /\ budget' \in [Runs -> 0..MaxBudget]
    BY <2>1 DEF RunTypeOK
  <2>4. acct' \in [Runs -> Accounts] /\ expired' \in SUBSET Runs
    BY DEF RunTypeOK
  <2>. QED
    BY <2>2, <2>3, <2>4 DEF RunTypeOK
<1>2. ASSUME NEW s \in Runs
      PROVE  /\ attempt'[s] <= budget'[s] + 1
             /\ pc'[s] \in Active \ {"check"} => attempt'[s] <= budget'[s]
  <2>1. CASE s = r
    BY <2>1 DEF RunTypeOK, Active
  <2>2. CASE s # r
    BY <2>2 DEF RunTypeOK, AttemptInv
  <2>. QED
    BY <2>1, <2>2
<1>. QED
  BY <1>1, <1>2 DEF AttemptInv

(* A step to another label of the same attempt keeps the types.            *)
LEMMA GotoType ==
  ASSUME RunInv, NEW r \in Runs, NEW label \in Active, Goto(r, label),
         attempt[r] <= budget[r],
         hand' \in [Runs -> Resources \cup {None}],
         UNCHANGED <<acct, attempt, budget, expired>>
  PROVE  RunInv'
BY RollerAssumption DEF Goto, RunInv, RunTypeOK, AttemptInv, Active

(* The next attempt is still within the budget plus one.                   *)
LEMMA NextAttemptType ==
  ASSUME RunInv, NEW r \in Runs, NextAttempt(r),
         attempt[r] <= budget[r],
         hand' \in [Runs -> Resources \cup {None}],
         UNCHANGED <<acct, budget, expired>>
  PROVE  RunInv'
<1>. USE RollerAssumption DEF NextAttempt, Goto, RunInv
<1>1. budget[r] \in 0..MaxBudget /\ attempt[r] + 1 \in 1..(MaxBudget + 1)
  BY DEF RunTypeOK
<1>2. RunTypeOK'
  BY <1>1 DEF RunTypeOK, Active
<1>3. ASSUME NEW s \in Runs
      PROVE  /\ attempt'[s] <= budget'[s] + 1
             /\ pc'[s] \in Active \ {"check"} => attempt'[s] <= budget'[s]
  <2>1. CASE s = r
    BY <2>1, <1>1 DEF RunTypeOK
  <2>2. CASE s # r
    BY <2>2 DEF RunTypeOK, AttemptInv
  <2>. QED
    BY <2>1, <2>2
<1>. QED
  BY <1>2, <1>3 DEF AttemptInv

(* No step of a run, of the environment or of the counter breaks a type of *)
(* the run's variables.                                                    *)
LEMMA RunStepType ==
  ASSUME RunInv, Next
  PROVE  RunInv'
<1>1. ASSUME NEW r \in Runs, NEW a \in Accounts, NEW b \in 0..MaxBudget, Start(r, a, b)
      PROVE  RunInv'
  <2>. USE <1>1, RollerAssumption DEF Start, Goto, RunInv
  <2>1. RunTypeOK'
    BY ClampedBudgetType DEF RunTypeOK, Active
  <2>2. AttemptInv'
    BY ClampedBudgetType DEF RunTypeOK, AttemptInv
  <2>. QED
    BY <2>1, <2>2
<1>2. ASSUME NEW r \in Runs, LoopStep(r)
      PROVE  RunInv'
  <2>. hand \in [Runs -> Resources \cup {None}]
    BY DEF RunInv, RunTypeOK
  <2>1. CASE Exhausted(r) \/ CheckDenied(r) \/ WaitFails(r) \/ AllocateFails(r)
             \/ BackoffGivesUp(r) \/ BackoffInterrupted(r) \/ Matches(r)
    BY <2>1, ReturnType DEF Exhausted, CheckDenied, WaitFails, AllocateFails,
         BackoffGivesUp, BackoffInterrupted, Matches
  <2>2. CASE CheckAllowed(r)
    BY <2>2, GotoType DEF CheckAllowed, OutOfBudget, RunInv, RunTypeOK, Active
  <2>3. CASE WaitOk(r) \/ AllocateFailsTransient(r) \/ CountRoll(r) \/ Misses(r)
    BY <2>3, GotoType DEF WaitOk, AllocateFailsTransient, CountRoll, Misses,
         RunInv, AttemptInv, Active
  <2>4. CASE \E x \in Resources : AllocateSucceeds(r, x)
    BY <2>4, GotoType DEF AllocateSucceeds, RunInv, AttemptInv, Active
  <2>5. CASE BackoffSleeps(r)
    BY <2>5, NextAttemptType DEF BackoffSleeps, RunInv, RunTypeOK, AttemptInv, Active
  <2>6. CASE Released(r) \/ ReleaseFails(r)
    BY <2>6, NextAttemptType DEF Released, ReleaseFails, RunInv, RunTypeOK, AttemptInv, Active
  <2>. QED
    BY <1>2, <2>1, <2>2, <2>3, <2>4, <2>5, <2>6 DEF LoopStep
<1>3. ASSUME NEW r \in Runs, ExpireContext(r)
      PROVE  RunInv'
  BY <1>3 DEF ExpireContext, RunInv, RunTypeOK, AttemptInv
<1>4. CASE Restart
  BY <1>4, RollerAssumption DEF Restart, RunInv, RunTypeOK, AttemptInv, Active
<1>5. CASE Midnight \/ ReadLimits
  BY <1>5 DEF Midnight, ReadLimits, runVars, RunInv, RunTypeOK, AttemptInv
<1>. QED
  BY <1>1, <1>2, <1>3, <1>4, <1>5 DEF Next

-----------------------------------------------------------------------------
(* The ledger of addresses. The safety invariants are not inductive as     *)
(* they stand: that a match stays needs that no two runs hold one address, *)
(* that an address is in hand exactly at the labels that use it, and that  *)
(* the provider hands out no address twice; that the log tells the fate    *)
(* needs that an address is not logged before its run has decided.         *)

HasAddress(r) == pc[r] \in {"count", "log", "release"}
NotYetLogged(r) == pc[r] \in {"count", "log"}

HandInv ==
  /\ \A r \in Runs : HasAddress(r) <=> hand[r] # None
  /\ \A r, s \in Runs : hand[r] # None /\ hand[r] = hand[s] => r = s

FreshInv ==
  /\ live \subseteq used
  /\ \A e \in rollLog : e.ip \in used
  /\ \A r \in Runs, e \in rollLog : NotYetLogged(r) => e.ip # hand[r]

FateInv == NoSilentLeak /\ KeptStaysLive /\ Held \subseteq live /\ LogTellsFate

LedgerInv == LedgerTypeOK /\ HandInv /\ FreshInv /\ FateInv

(* Putting an address down takes it, and only it, out of the hands.        *)
LEMMA HeldAfterPutDown ==
  ASSUME RunTypeOK, HandInv, NEW r \in Runs, hand' = [hand EXCEPT ![r] = None]
  PROVE  Held' = Held \ {hand[r]}
<1>1. \A s \in Runs : hand'[s] = IF s = r THEN None ELSE hand[s]
  BY DEF RunTypeOK
<1>2. \A s \in Runs : s # r /\ hand[s] # None => hand[s] # hand[r]
  BY DEF HandInv
<1>. QED
  BY <1>1, <1>2 DEF Held

(* Picking an address up adds it to the hands.                             *)
LEMMA HeldAfterPickUp ==
  ASSUME RunTypeOK, NEW r \in Runs, NEW x \in Resources,
         hand[r] = None, hand' = [hand EXCEPT ![r] = x]
  PROVE  Held' = Held \cup {x}
<1>1. \A s \in Runs : hand'[s] = IF s = r THEN x ELSE hand[s]
  BY DEF RunTypeOK
<1>2. x # None
  BY RollerAssumption
<1>. QED
  BY <1>1, <1>2 DEF Held

(* What a run holds exists, is an address, and was handed out.             *)
LEMMA HandIsLive ==
  ASSUME RunTypeOK, LedgerInv, NEW r \in Runs, HasAddress(r)
  PROVE  /\ hand[r] \in Resources
         /\ hand[r] \in Held
         /\ hand[r] \in live
         /\ hand[r] \in used
         /\ hand[r] \notin kept
BY DEF RunTypeOK, LedgerInv, HandInv, FreshInv, FateInv, Held, KeptStaysLive

(* A step that leaves the addresses alone, picks none up and logs none     *)
(* keeps the ledger.                                                       *)
LEMMA LedgerFrame ==
  ASSUME LedgerInv, UNCHANGED <<hand, ledgerVars>>,
         \A s \in Runs : /\ HasAddress(s)' <=> HasAddress(s)
                         /\ NotYetLogged(s)' => NotYetLogged(s)
  PROVE  LedgerInv'
<1>. USE DEF ledgerVars
<1>1. LedgerTypeOK'
  BY DEF LedgerInv, LedgerTypeOK
<1>2. HandInv' /\ FreshInv'
  BY DEF LedgerInv, HandInv, FreshInv
<1>3. FateInv'
  BY DEF LedgerInv, FateInv, Held, NoSilentLeak, KeptStaysLive, LogTellsFate
<1>. QED
  BY <1>1, <1>2, <1>3 DEF LedgerInv

(* The provider hands out an address it never handed out before.           *)
LEMMA AllocateKeepsLedger ==
  ASSUME RunTypeOK, LedgerInv, NEW r \in Runs, NEW x \in Resources, AllocateSucceeds(r, x)
  PROVE  LedgerInv'
<1>1. /\ hand[r] = None /\ hand' = [hand EXCEPT ![r] = x]
      /\ x \notin used /\ used' = used \cup {x} /\ live' = live \cup {x}
      /\ UNCHANGED <<kept, rollLog, mishap>>
      /\ x \notin Held /\ x # None
  BY RollerAssumption DEF AllocateSucceeds, LedgerInv, HandInv, HasAddress, FreshInv, FateInv
<1>2. /\ \A s \in Runs \ {r} : hand'[s] = hand[s] /\ pc'[s] = pc[s]
      /\ hand'[r] = x /\ pc'[r] = "count"
  BY DEF AllocateSucceeds, Goto, RunTypeOK
<1>3. Held' = Held \cup {x}
  BY <1>1, HeldAfterPickUp
<1>4. LedgerTypeOK'
  BY <1>1 DEF LedgerInv, LedgerTypeOK
<1>5. HandInv'
  <2>1. \A s \in Runs : hand[s] # x
    BY <1>1 DEF Held
  <2>. QED
    BY <1>1, <1>2, <2>1 DEF LedgerInv, HandInv, HasAddress
<1>6. FreshInv'
  BY <1>1, <1>2 DEF LedgerInv, FreshInv, NotYetLogged
<1>7. FateInv'
  <2>1. \A e \in rollLog : e.ip # x
    BY <1>1 DEF LedgerInv, FreshInv
  <2>2. x \notin kept
    BY <1>1 DEF LedgerInv, FreshInv, FateInv, KeptStaysLive
  <2>. QED
    BY <1>1, <1>3, <2>1, <2>2
       DEF LedgerInv, FateInv, NoSilentLeak, KeptStaysLive, LogTellsFate
<1>. QED
  BY <1>4, <1>5, <1>6, <1>7 DEF LedgerInv

(* An address nobody hears of is a mishap, and touches no other.           *)
LEMMA UnheardKeepsLedger ==
  ASSUME RunTypeOK, LedgerInv, NEW r \in Runs,
         AllocateFailsTransient(r) \/ AllocateFails(r)
  PROVE  LedgerInv'
<1>1. /\ UNCHANGED <<hand, kept, rollLog>>
      /\ \A s \in Runs : /\ HasAddress(s)' <=> HasAddress(s)
                         /\ NotYetLogged(s)' => NotYetLogged(s)
  BY DEF AllocateFailsTransient, AllocateFails, Return, Goto, RunTypeOK, HasAddress, NotYetLogged
<1>2. MayCreateUnheard
  BY DEF AllocateFailsTransient, AllocateFails
<1>3. CASE UNCHANGED <<live, used, mishap>>
  BY <1>1, <1>3, LedgerFrame DEF ledgerVars
<1>4. ASSUME NEW x \in Resources \ used,
             used' = used \cup {x}, live' = live \cup {x}, mishap' = mishap \cup {x}
      PROVE  LedgerInv'
  <2>1. Held' = Held /\ x \notin Held /\ x \notin kept
    BY <1>1, <1>4 DEF Held, LedgerInv, FreshInv, FateInv, KeptStaysLive
  <2>2. LedgerTypeOK' /\ HandInv' /\ FreshInv'
    BY <1>1, <1>4 DEF LedgerInv, LedgerTypeOK, HandInv, FreshInv
  <2>3. FateInv'
    BY <1>1, <1>4, <2>1 DEF LedgerInv, FateInv, NoSilentLeak, KeptStaysLive, LogTellsFate
  <2>. QED
    BY <2>2, <2>3 DEF LedgerInv
<1>. QED
  BY <1>2, <1>3, <1>4 DEF MayCreateUnheard

(* What LogRoll may add to roll_log.                                       *)
LEMMA LogRollAdds ==
  ASSUME NEW r \in Runs, NEW m \in BOOLEAN, LogRoll(r, m)
  PROVE  rollLog' \subseteq rollLog \cup {[ip |-> hand[r], matched |-> m, released |-> ~m]}
BY DEF LogRoll, LogEntry

(* A match goes from the hand of its run to the kept addresses.            *)
LEMMA MatchKeepsLedger ==
  ASSUME RunTypeOK, LedgerInv, NEW r \in Runs, Matches(r)
  PROVE  LedgerInv'
<1>. DEFINE x == hand[r]
            entry == [ip |-> x, matched |-> TRUE, released |-> FALSE]
<1>1. /\ x \in Resources /\ x \in Held /\ x \in live /\ x \in used /\ x \notin kept
  BY HandIsLive DEF Matches, HasAddress
<1>2. /\ hand' = [hand EXCEPT ![r] = None] /\ kept' = kept \cup {x}
      /\ UNCHANGED <<live, used, mishap>>
      /\ rollLog' \subseteq rollLog \cup {entry}
      /\ \A e \in rollLog : e.ip # x
  BY LogRollAdds DEF Matches, LedgerInv, FreshInv, NotYetLogged
<1>3. /\ \A s \in Runs \ {r} : hand'[s] = hand[s] /\ pc'[s] = pc[s]
      /\ hand'[r] = None /\ pc'[r] = "idle"
  BY DEF Matches, Return, Goto, RunTypeOK
<1>4. Held' = Held \ {x}
  BY <1>2, HeldAfterPutDown DEF LedgerInv
<1>5. LedgerTypeOK'
  <2>1. entry \in RollLogEntry
    BY <1>1 DEF RollLogEntry
  <2>. QED
    BY <1>1, <1>2, <2>1 DEF LedgerInv, LedgerTypeOK
<1>6. HandInv'
  BY <1>3 DEF LedgerInv, HandInv, HasAddress
<1>7. FreshInv'
  <2>1. \A s \in Runs \ {r} : hand[s] # x
    BY <1>1, HandIsLive DEF LedgerInv, HandInv, Held
  <2>. QED
    BY <1>1, <1>2, <1>3, <2>1 DEF LedgerInv, FreshInv, NotYetLogged
<1>8. FateInv'
  BY <1>1, <1>2, <1>4 DEF LedgerInv, FateInv, NoSilentLeak, KeptStaysLive, LogTellsFate
<1>. QED
  BY <1>5, <1>6, <1>7, <1>8 DEF LedgerInv

(* A miss is logged as released while it is still in hand.                 *)
LEMMA MissKeepsLedger ==
  ASSUME RunTypeOK, LedgerInv, NEW r \in Runs, Misses(r)
  PROVE  LedgerInv'
<1>. DEFINE x == hand[r]
            entry == [ip |-> x, matched |-> FALSE, released |-> TRUE]
<1>1. /\ x \in Resources /\ x \in Held /\ x \in live /\ x \in used /\ x \notin kept
  BY HandIsLive DEF Misses, HasAddress
<1>2. /\ UNCHANGED <<hand, live, used, kept, mishap>>
      /\ rollLog' \subseteq rollLog \cup {entry}
  BY LogRollAdds DEF Misses
<1>3. /\ \A s \in Runs \ {r} : pc'[s] = pc[s]
      /\ pc[r] = "log" /\ pc'[r] = "release"
  BY DEF Misses, Goto, RunTypeOK
<1>4. Held' = Held
  BY <1>2 DEF Held
<1>5. LedgerTypeOK'
  <2>1. entry \in RollLogEntry
    BY <1>1 DEF RollLogEntry
  <2>. QED
    BY <1>1, <1>2, <2>1 DEF LedgerInv, LedgerTypeOK
<1>6. HandInv'
  BY <1>2, <1>3 DEF LedgerInv, HandInv, HasAddress
<1>7. FreshInv'
  <2>1. \A s \in Runs \ {r} : hand[s] # x
    BY <1>1, HandIsLive DEF LedgerInv, HandInv, Held
  <2>. QED
    BY <1>1, <1>2, <1>3, <2>1 DEF LedgerInv, FreshInv, NotYetLogged
<1>8. FateInv'
  BY <1>1, <1>2, <1>4 DEF LedgerInv, FateInv, NoSilentLeak, KeptStaysLive, LogTellsFate
<1>. QED
  BY <1>5, <1>6, <1>7, <1>8 DEF LedgerInv

(* A release takes the address away, or leaves a mishap behind.            *)
LEMMA ReleaseKeepsLedger ==
  ASSUME RunTypeOK, LedgerInv, NEW r \in Runs, Released(r) \/ ReleaseFails(r)
  PROVE  LedgerInv'
<1>. DEFINE x == hand[r]
<1>1. /\ x \in Resources /\ x \in Held /\ x \in live /\ x \in used /\ x \notin kept
  BY HandIsLive DEF Released, ReleaseFails, HasAddress
<1>2. /\ hand' = [hand EXCEPT ![r] = None]
      /\ UNCHANGED <<used, kept, rollLog>>
      /\ live' \subseteq live /\ live \ {x} \subseteq live'
      /\ mishap \subseteq mishap' /\ mishap' \subseteq mishap \cup {x}
      /\ x \notin live' \/ x \in mishap'
  BY DEF Released, ReleaseFails
<1>3. /\ \A s \in Runs \ {r} : hand'[s] = hand[s] /\ pc'[s] = pc[s]
      /\ hand'[r] = None /\ pc'[r] = "check"
  BY DEF Released, ReleaseFails, NextAttempt, Goto, RunTypeOK
<1>4. Held' = Held \ {x}
  BY <1>2, HeldAfterPutDown DEF LedgerInv
<1>5. LedgerTypeOK'
  BY <1>1, <1>2 DEF LedgerInv, LedgerTypeOK
<1>6. HandInv'
  BY <1>3 DEF LedgerInv, HandInv, HasAddress
<1>7. FreshInv'
  BY <1>2, <1>3 DEF LedgerInv, FreshInv, NotYetLogged
<1>8. FateInv'
  BY <1>1, <1>2, <1>4 DEF LedgerInv, FateInv, NoSilentLeak, KeptStaysLive, LogTellsFate
<1>. QED
  BY <1>5, <1>6, <1>7, <1>8 DEF LedgerInv

(* A restart leaves every address in hand behind, and no other.            *)
LEMMA RestartKeepsLedger ==
  ASSUME RunTypeOK, LedgerInv, Restart
  PROVE  LedgerInv'
<1>1. /\ UNCHANGED <<live, used, kept, rollLog>>
      /\ mishap' = mishap \cup Held
      /\ \A s \in Runs : pc'[s] = "idle" /\ hand'[s] = None
  BY DEF Restart
<1>2. Held' = {}
  BY <1>1 DEF Held
<1>3. LedgerTypeOK'
  BY <1>1 DEF LedgerInv, LedgerTypeOK, Held, RunTypeOK
<1>4. HandInv' /\ FreshInv'
  BY <1>1 DEF LedgerInv, HandInv, HasAddress, FreshInv, NotYetLogged
<1>5. FateInv'
  BY <1>1, <1>2 DEF LedgerInv, FateInv, NoSilentLeak, KeptStaysLive, LogTellsFate
<1>. QED
  BY <1>3, <1>4, <1>5 DEF LedgerInv

(* Every step of the specification keeps the ledger.                       *)
LEMMA LedgerStep ==
  ASSUME RunTypeOK, LedgerInv, [Next]_vars
  PROVE  LedgerInv'
<1>. DEFINE Frame == /\ UNCHANGED <<hand, ledgerVars>>
                     /\ \A s \in Runs : /\ HasAddress(s)' <=> HasAddress(s)
                                        /\ NotYetLogged(s)' => NotYetLogged(s)
<1>1. ASSUME NEW r \in Runs, NEW a \in Accounts, NEW b \in 0..MaxBudget, Start(r, a, b)
      PROVE  Frame
  BY <1>1 DEF Start, Goto, RunTypeOK, HasAddress, NotYetLogged
<1>2. ASSUME NEW r \in Runs, LoopStep(r)
      PROVE  LedgerInv'
  <2>1. CASE \/ Exhausted(r) \/ CheckAllowed(r) \/ CheckDenied(r) \/ WaitOk(r) \/ WaitFails(r)
             \/ BackoffSleeps(r) \/ BackoffGivesUp(r) \/ BackoffInterrupted(r) \/ CountRoll(r)
    <3>1. Frame
      BY <2>1 DEF Exhausted, CheckAllowed, CheckDenied, WaitOk, WaitFails, BackoffSleeps,
           BackoffGivesUp, BackoffInterrupted, CountRoll, Return, NextAttempt, Goto,
           RunTypeOK, HasAddress, NotYetLogged
    <3>. QED
      BY <3>1, LedgerFrame
  <2>2. CASE \E x \in Resources : AllocateSucceeds(r, x)
    BY <2>2, AllocateKeepsLedger
  <2>3. CASE AllocateFailsTransient(r) \/ AllocateFails(r)
    BY <2>3, UnheardKeepsLedger
  <2>4. CASE Matches(r) \/ Misses(r)
    BY <2>4, MatchKeepsLedger, MissKeepsLedger
  <2>5. CASE Released(r) \/ ReleaseFails(r)
    BY <2>5, ReleaseKeepsLedger
  <2>. QED
    BY <1>2, <2>1, <2>2, <2>3, <2>4, <2>5 DEF LoopStep
<1>3. ASSUME NEW r \in Runs, ExpireContext(r)
      PROVE  Frame
  BY <1>3 DEF ExpireContext, HasAddress, NotYetLogged
<1>4. CASE Restart
  BY <1>4, RestartKeepsLedger
<1>5. CASE Midnight \/ ReadLimits \/ UNCHANGED vars
  <2>1. Frame
    BY <1>5 DEF Midnight, ReadLimits, vars, runVars, HasAddress, NotYetLogged
  <2>. QED
    BY <2>1, LedgerFrame
<1>. QED
  BY <1>1, <1>2, <1>3, <1>4, <1>5, LedgerFrame DEF Next

(* The inductive invariant of the loop: its types and its ledger.          *)
LEMMA RollerInvariant == Spec => [](RunInv /\ LedgerInv)
<1>1. Init => RunInv /\ LedgerInv
  <2>. SUFFICES ASSUME Init PROVE RunInv /\ LedgerInv
    OBVIOUS
  <2>1. 1 \in 0..MaxBudget /\ 1 \in 1..(MaxBudget + 1)
    BY RollerAssumption
  <2>2. RunInv
    BY <2>1 DEF Init, RunInv, RunTypeOK, AttemptInv, Active
  <2>3. Held = {}
    BY DEF Init, Held
  <2>. QED
    BY <2>2, <2>3 DEF Init, LedgerInv, LedgerTypeOK, HandInv, HasAddress, FreshInv,
         NotYetLogged, FateInv, NoSilentLeak, KeptStaysLive, LogTellsFate
<1>2. RunInv /\ LedgerInv /\ [Next]_vars => RunInv' /\ LedgerInv'
  <2>1. RunInv /\ UNCHANGED vars => RunInv'
    BY DEF vars, runVars, RunInv, RunTypeOK, AttemptInv
  <2>2. RunInv /\ Next => RunInv'
    BY RunStepType
  <2>3. RunInv /\ LedgerInv /\ [Next]_vars => LedgerInv'
    BY LedgerStep DEF RunInv
  <2>. QED
    BY <2>1, <2>2, <2>3
<1>. QED
  BY <1>1, <1>2, PTL DEF Spec

(* No path of the loop forgets an address, but for failures of the         *)
(* provider and of the process (roller.go:119).                            *)
THEOREM NoAddressForgotten == Spec => []NoSilentLeak
<1>1. LedgerInv => NoSilentLeak
  BY DEF LedgerInv, FateInv
<1>. QED
  BY <1>1, RollerInvariant, PTL

(* What Roll returned as matched is never released (roller.go:116).        *)
THEOREM MatchesStay == Spec => []KeptStaysLive
<1>1. LedgerInv => KeptStaysLive
  BY DEF LedgerInv, FateInv
<1>. QED
  BY <1>1, RollerInvariant, PTL

(* An entry of roll_log tells what became of its address (roller.go:114).  *)
THEOREM RollLogTruth == Spec => []LogTellsFate
<1>1. LedgerInv => LogTellsFate
  BY DEF LedgerInv, FateInv
<1>. QED
  BY <1>1, RollerInvariant, PTL

-----------------------------------------------------------------------------
(* The loop implements AddressLedger.                                      *)

(* A step that changes nothing the fates depend on.                        *)
LEMMA FateFrame ==
  ASSUME UNCHANGED <<used, live, kept, mishap>>, Held' = Held, NEW x \in Resources
  PROVE  FateOf(x)' = FateOf(x)
BY DEF FateOf

(* Each step of the loop moves an address as the ledger allows.            *)
LEMMA FateStep ==
  ASSUME RunTypeOK, LedgerInv, NEW r \in Runs, LoopStep(r), NEW x \in Resources
  PROVE  FateOf(x)' = FateOf(x) \/ <<FateOf(x), FateOf(x)'>> \in Ledger!Moves
<1>. USE DEF Ledger!Moves, Ledger!Obtained, Ledger!Kept, Ledger!Released, Ledger!Lost,
       Ledger!CreatedUnheard
<1>1. CASE \/ Exhausted(r) \/ CheckAllowed(r) \/ CheckDenied(r) \/ WaitOk(r) \/ WaitFails(r)
           \/ BackoffSleeps(r) \/ BackoffGivesUp(r) \/ BackoffInterrupted(r) \/ CountRoll(r)
           \/ Misses(r)
  <2>1. UNCHANGED <<hand, used, live, kept, mishap>>
    BY <1>1 DEF Exhausted, CheckAllowed, CheckDenied, WaitOk, WaitFails, BackoffSleeps,
         BackoffGivesUp, BackoffInterrupted, CountRoll, Misses, ledgerVars
  <2>. QED
    BY <2>1, FateFrame DEF Held
<1>2. ASSUME NEW y \in Resources, AllocateSucceeds(r, y)
      PROVE  FateOf(x)' = FateOf(x) \/ <<FateOf(x), FateOf(x)'>> \in Ledger!Moves
  <2>1. Held' = Held \cup {y}
    BY <1>2, HeldAfterPickUp DEF AllocateSucceeds, LedgerInv, HandInv, HasAddress
  <2>2. y \notin kept
    BY <1>2 DEF AllocateSucceeds, LedgerInv, FreshInv, FateInv, KeptStaysLive
  <2>. QED
    BY <1>2, <2>1, <2>2 DEF AllocateSucceeds, FateOf
<1>3. CASE AllocateFailsTransient(r) \/ AllocateFails(r)
  <2>1. Held' = Held /\ kept' = kept /\ MayCreateUnheard
    BY <1>3 DEF AllocateFailsTransient, AllocateFails, Held
  <2>2. \A y \in Held \cup kept : y \in used
    BY DEF LedgerInv, FreshInv, FateInv, KeptStaysLive
  <2>. QED
    BY <2>1, <2>2, FateFrame DEF MayCreateUnheard, FateOf
<1>4. CASE Matches(r)
  <2>1. Held' = Held \ {hand[r]}
    BY <1>4, HeldAfterPutDown DEF Matches, LedgerInv
  <2>. QED
    BY <1>4, <2>1, HandIsLive DEF Matches, HasAddress, FateOf
<1>5. CASE Released(r) \/ ReleaseFails(r)
  <2>1. Held' = Held \ {hand[r]}
    BY <1>5, HeldAfterPutDown DEF Released, ReleaseFails, LedgerInv
  <2>. QED
    BY <1>5, <2>1, HandIsLive DEF Released, ReleaseFails, HasAddress, FateOf
<1>. QED
  BY <1>1, <1>2, <1>3, <1>4, <1>5 DEF LoopStep

(* For every provider, every interleaving of runs and every restart, what  *)
(* the loop does to the addresses is a behaviour of the ledger: none is    *)
(* forgotten, changes hands, or is both returned and released              *)
(* (roller.go:96-125).                                                     *)
THEOREM RollerKeepsLedger == Spec => ImplementsLedger
<1>1. Init => Ledger!Init
  BY DEF Init, Ledger!Init, Fate, FateOf
<1>2. RunTypeOK /\ LedgerInv /\ [Next]_vars => [Ledger!Next]_Fate
  <2>. SUFFICES ASSUME RunTypeOK, LedgerInv, [Next]_vars PROVE Ledger!Next
    OBVIOUS
  <2>1. ASSUME NEW x \in Resources PROVE FateOf(x)' \in Ledger!Fates
    <3>1. NoSilentLeak'
      BY LedgerStep DEF LedgerInv, FateInv
    <3>. QED
      BY <3>1 DEF NoSilentLeak, FateOf, Ledger!Fates
  <2>2. ASSUME NEW x \in Resources
        PROVE  FateOf(x)' = FateOf(x) \/ <<FateOf(x), FateOf(x)'>> \in Ledger!Moves
    <3>1. ASSUME NEW r \in Runs, LoopStep(r)
          PROVE  FateOf(x)' = FateOf(x) \/ <<FateOf(x), FateOf(x)'>> \in Ledger!Moves
      BY <3>1, FateStep
    <3>2. ASSUME NEW r \in Runs,
                 ExpireContext(r) \/ \E a \in Accounts, b \in 0..MaxBudget : Start(r, a, b)
          PROVE  FateOf(x)' = FateOf(x)
      BY <3>2, FateFrame DEF ExpireContext, Start, ledgerVars, Held
    <3>3. CASE Restart
      <4>1. Held' = {}
        BY <3>3 DEF Restart, Held
      <4>2. Held \cap kept = {} /\ Held \subseteq live /\ live \subseteq used
        BY DEF LedgerInv, FreshInv, FateInv, KeptStaysLive
      <4>. QED
        BY <3>3, <4>1, <4>2 DEF Restart, FateOf, LedgerInv, FateInv, NoSilentLeak,
             Ledger!Moves, Ledger!Lost
    <3>4. CASE Midnight \/ ReadLimits \/ UNCHANGED vars
      BY <3>4, FateFrame DEF Midnight, ReadLimits, vars, runVars, ledgerVars, Held
    <3>. QED
      BY <3>1, <3>2, <3>3, <3>4 DEF Next
  <2>3. Fate' \in [Resources -> Ledger!Fates]
    BY <2>1 DEF Fate
  <2>. QED
    BY <2>2, <2>3 DEF Ledger!Next, Fate
<1>. QED
  BY <1>1, <1>2, RollerInvariant, PTL DEF Spec, ImplementsLedger, Ledger!Spec, RunInv

(* Over any run of the program, crashes included, a match is never taken   *)
(* back and a released address never handed out again.                     *)
THEOREM RollerFatesAreFinal == Spec => Ledger!FinalFates
<1>1. [Ledger!Next]_Fate =>
        [\A x \in Resources :
           Fate[x] \in {"kept", "released"} => Fate'[x] = Fate[x]]_Fate
  BY DEF Ledger!Next, Ledger!Moves, Ledger!Obtained, Ledger!Kept, Ledger!Released,
       Ledger!Lost, Ledger!CreatedUnheard
<1>. QED
  BY <1>1, RollerKeepsLedger, PTL DEF ImplementsLedger, Ledger!Spec, Ledger!FinalFates

-----------------------------------------------------------------------------
(* The loop as a client of the daily counter.                              *)

(* Every step of the loop is an operation of the counter or leaves it      *)
(* alone.                                                                  *)
LEMMA CounterStep ==
  ASSUME RunTypeOK, [Next]_vars
  PROVE  [DailyNext]_dailyVars
<1>1. ASSUME NEW r \in Runs, LoopStep(r)
      PROVE  [DailyNext]_dailyVars
  <2>1. CASE CheckAllowed(r) \/ CheckDenied(r) \/ CountRoll(r)
    BY <2>1 DEF CheckAllowed, CheckDenied, CountRoll, RunTypeOK, DailyNext, DailyCall
  <2>. QED
    BY <1>1, <2>1 DEF LoopStep, Exhausted, WaitOk, WaitFails, AllocateSucceeds,
         AllocateFailsTransient, AllocateFails, BackoffSleeps, BackoffGivesUp,
         BackoffInterrupted, Matches, Misses, Released, ReleaseFails
<1>2. CASE Restart \/ Midnight
  BY <1>2 DEF Restart, Midnight, DailyNext
<1>3. CASE ReadLimits
  BY <1>3 DEF ReadLimits, DailyNext, DailyCall
<1>4. ASSUME NEW r \in Runs,
             \/ ExpireContext(r)
             \/ \E a \in Accounts, b \in 0..MaxBudget : Start(r, a, b)
      PROVE  UNCHANGED dailyVars
  BY <1>4 DEF ExpireContext, Start
<1>5. UNCHANGED vars => UNCHANGED dailyVars
  BY DEF vars
<1>. QED
  BY <1>1, <1>2, <1>3, <1>4, <1>5 DEF Next

(* However many runs there are and wherever they stand, what they do to    *)
(* the counter is a behaviour of DailyCounter: all that is proved of the   *)
(* counter on its own holds of the counter in the loop.                    *)
THEOREM RollerUsesCounter == Spec => DailySpec
<1>1. Init => DailyInit
  BY DEF Init
<1>2. RunTypeOK /\ [Next]_vars => [DailyNext]_dailyVars
  BY CounterStep
<1>. QED
  BY <1>1, <1>2, RollerInvariant, PTL DEF Spec, DailySpec, RunInv

(* Every variable of the loop and of its counter keeps its type.           *)
THEOREM TypeCorrect == Spec => []TypeOK
<1>1. DailyTypeOK /\ RunInv /\ LedgerInv => TypeOK
  BY DEF RunInv, LedgerInv, TypeOK
<1>. QED
  BY <1>1, RollerInvariant, RollerUsesCounter, DailyTypeCorrect, PTL

(* The cached counts of the runs agree with the table (limiter.go:12).     *)
THEOREM CacheCorrectInRuns == Spec => []CacheAgreesWithStore
BY RollerUsesCounter, CacheCorrect, PTL

(* No run forgets consumption within a day (limiter.go:12).                *)
THEOREM ConsumptionSurvivesRuns == Spec => UsageNeverForgotten
BY RollerUsesCounter, ConsumptionSurvives, PTL

-----------------------------------------------------------------------------
(* The daily cap: how many rolls of a day pass it.                         *)

(* The runs of an account are finitely many, no more than all runs.        *)
LEMMA InFlightSize ==
  ASSUME NEW a \in Accounts
  PROVE  /\ IsFiniteSet(InFlight(a))
         /\ Cardinality(InFlight(a)) \in Nat
         /\ Cardinality(Runs) \in Nat
         /\ Cardinality(InFlight(a)) <= Cardinality(Runs)
<1>1. InFlight(a) \subseteq Runs
  BY DEF InFlight
<1>. QED
  BY <1>1, FS_Subset, FS_CardinalityType, RollerAssumption

(* The next state's InFlight is as large as all runs at most.              *)
LEMMA InFlightSizeNext ==
  ASSUME NEW a \in Accounts
  PROVE  /\ IsFiniteSet(InFlight(a)')
         /\ Cardinality(InFlight(a)') \in Nat
         /\ Cardinality(InFlight(a)') <= Cardinality(Runs)
<1>1. InFlight(a)' \subseteq Runs
  BY DEF InFlight
<1>. QED
  BY <1>1, FS_Subset, FS_CardinalityType, RollerAssumption

(* A step that admits no run and counts no roll keeps the bound.           *)
LEMMA OvershootFrame ==
  ASSUME DailyTypeOK, OvershootBounded, NEW a \in Accounts, a \notin drifted', Capped(a),
         rows'[a] = rows[a], drifted \subseteq drifted', InFlight(a)' \subseteq InFlight(a)
  PROVE  rows'[a] + Cardinality(InFlight(a)') <= DailyCap[a] - 1 + Cardinality(Runs)
<1>1. Cardinality(InFlight(a)') <= Cardinality(InFlight(a))
  BY InFlightSize, FS_Subset
<1>2. rows[a] + Cardinality(InFlight(a)) <= DailyCap[a] - 1 + Cardinality(Runs)
  BY DEF OvershootBounded
<1>. QED
  BY <1>1, <1>2, InFlightSize, InFlightSizeNext, DailyAssumption DEF DailyTypeOK

(* A granted Allow has seen a count below the cap.                         *)
LEMMA AllowSawTheCount ==
  ASSUME DailyTypeOK, DailyInv, NEW a \in Accounts, Capped(a), AllowGranted(a), a \notin drifted'
  PROVE  rows'[a] = rows[a] /\ rows[a] < DailyCap[a] /\ a \notin drifted
<1>1. PICK f \in BOOLEAN : Lookup(a, f) /\ Count(a, f) < DailyCap[a]
  BY StoreOutcomesType DEF AllowGranted, AllowUncapped
<1>. QED
  BY <1>1 DEF Lookup, Count, DailyInv, CacheAgreesWithStore

(* Every step of the specification keeps the overshoot bounded.            *)
LEMMA OvershootStep ==
  ASSUME DailyTypeOK, DailyInv, RunTypeOK, OvershootBounded, [Next]_vars
  PROVE  OvershootBounded'
<1>. SUFFICES ASSUME NEW a \in Accounts, a \notin drifted', Capped(a)
              PROVE  rows'[a] + Cardinality(InFlight(a)') <= DailyCap[a] - 1 + Cardinality(Runs)
  BY DEF OvershootBounded, Capped
<1>1. ASSUME NEW r \in Runs, CheckAllowed(r)
      PROVE  rows'[a] + Cardinality(InFlight(a)') <= DailyCap[a] - 1 + Cardinality(Runs)
  <2>1. CASE acct[r] = a
    BY <1>1, <2>1, AllowSawTheCount, InFlightSizeNext, InFlightSize, DailyAssumption
       DEF CheckAllowed, DailyTypeOK
  <2>2. CASE acct[r] # a
    <3>1. InFlight(a)' \subseteq InFlight(a)
      BY <1>1, <2>2 DEF CheckAllowed, Goto, InFlight, RunTypeOK
    <3>2. rows' = rows /\ drifted \subseteq drifted'
      BY <1>1 DEF CheckAllowed, AllowGranted, AllowUncapped, Lookup, dailyVars
    <3>. QED
      BY <3>1, <3>2, OvershootFrame
  <2>. QED
    BY <2>1, <2>2
<1>2. ASSUME NEW r \in Runs, CountRoll(r)
      PROVE  rows'[a] + Cardinality(InFlight(a)') <= DailyCap[a] - 1 + Cardinality(Runs)
  <2>0. acct[r] \in Accounts /\ drifted \subseteq drifted'
    BY <1>2 DEF CountRoll, Inc, RunTypeOK
  <2>1. CASE acct[r] = a
    <3>1. r \in InFlight(a) /\ InFlight(a)' = InFlight(a) \ {r}
      BY <1>2, <2>1 DEF CountRoll, Goto, InFlight, RunTypeOK
    <3>2. Cardinality(InFlight(a)') = Cardinality(InFlight(a)) - 1
      BY <3>1, InFlightSize, FS_RemoveElement
    <3>3. rows'[a] \in {rows[a], rows[a] + 1}
      BY <1>2, <2>1 DEF CountRoll, Inc, DailyTypeOK
    <3>4. rows[a] + Cardinality(InFlight(a)) <= DailyCap[a] - 1 + Cardinality(Runs)
      BY <2>0 DEF OvershootBounded
    <3>. QED
      BY <3>2, <3>3, <3>4, InFlightSize, DailyAssumption DEF DailyTypeOK
  <2>2. CASE acct[r] # a
    <3>1. InFlight(a)' \subseteq InFlight(a)
      BY <1>2, <2>2 DEF CountRoll, Goto, InFlight, RunTypeOK
    <3>2. rows'[a] = rows[a]
      BY <1>2, <2>2 DEF CountRoll, Inc, DailyTypeOK
    <3>. QED
      BY <2>0, <3>1, <3>2, OvershootFrame
  <2>. QED
    BY <2>1, <2>2
<1>3. CASE Midnight
  <2>1. rows'[a] = 0 /\ DailyCap[a] >= 1
    BY <1>3, DailyAssumption DEF Midnight, DayPasses, Capped
  <2>. QED
    BY <2>1, InFlightSizeNext, InFlightSize, DailyAssumption
<1>4. CASE Restart
  <2>1. InFlight(a)' = {} /\ rows' = rows /\ drifted' = drifted
    BY <1>4 DEF Restart, DailyRestart, InFlight
  <2>. QED
    BY <2>1, OvershootFrame
<1>5. ASSUME NEW r \in Runs, CheckDenied(r)
      PROVE  rows'[a] + Cardinality(InFlight(a)') <= DailyCap[a] - 1 + Cardinality(Runs)
  <2>1. InFlight(a)' \subseteq InFlight(a)
    BY <1>5 DEF CheckDenied, Return, Goto, InFlight, RunTypeOK
  <2>2. rows' = rows /\ drifted \subseteq drifted'
    BY <1>5 DEF CheckDenied, AllowDenied, Lookup
  <2>. QED
    BY <2>1, <2>2, OvershootFrame
<1>6. CASE ReadLimits \/ UNCHANGED vars
  <2>1. InFlight(a)' = InFlight(a)
    BY <1>6 DEF ReadLimits, vars, runVars, InFlight
  <2>2. rows' = rows /\ drifted \subseteq drifted'
    BY <1>6 DEF ReadLimits, ReadUsage, Lookup, vars, dailyVars
  <2>. QED
    BY <2>1, <2>2, OvershootFrame
<1>7. ASSUME NEW r \in Runs,
             \/ \E b \in Accounts, n \in 0..MaxBudget : Start(r, b, n)
             \/ ExpireContext(r)
             \/ LoopStep(r) /\ ~CheckAllowed(r) /\ ~CountRoll(r) /\ ~CheckDenied(r)
      PROVE  rows'[a] + Cardinality(InFlight(a)') <= DailyCap[a] - 1 + Cardinality(Runs)
  <2>0. UNCHANGED dailyVars
    BY <1>7 DEF LoopStep, Start, ExpireContext, Exhausted, WaitOk, WaitFails,
         AllocateSucceeds, AllocateFailsTransient, AllocateFails, BackoffSleeps,
         BackoffGivesUp, BackoffInterrupted, Matches, Misses, Released, ReleaseFails
  <2>1. /\ \A s \in Runs \ {r} : pc'[s] = pc[s] /\ acct'[s] = acct[s]
        /\ \/ pc'[r] \notin {"wait", "allocate", "count"}
           \/ pc[r] \in {"wait", "allocate", "count"} /\ acct'[r] = acct[r]
    BY <1>7 DEF LoopStep, Start, ExpireContext, Exhausted, WaitOk, WaitFails,
         AllocateSucceeds, AllocateFailsTransient, AllocateFails, BackoffSleeps,
         BackoffGivesUp, BackoffInterrupted, Matches, Misses, Released, ReleaseFails,
         Return, Goto, NextAttempt, RunTypeOK
  <2>2. InFlight(a)' \subseteq InFlight(a)
    BY <2>1 DEF InFlight
  <2>. QED
    BY <2>0, <2>2, OvershootFrame DEF dailyVars
<1>. QED
  BY <1>1, <1>2, <1>3, <1>4, <1>5, <1>6, <1>7 DEF Next

(* While no storage call fails for an account, the daily cap is exceeded   *)
(* by at most one roll for each run but one: with a single run it holds.   *)
THEOREM CapOvershoot == Spec => []OvershootBounded
<1>1. Init => OvershootBounded
  <2>. SUFFICES ASSUME Init PROVE OvershootBounded
    OBVIOUS
  <2>1. ASSUME NEW a \in Accounts, Capped(a)
        PROVE  rows[a] + Cardinality(InFlight(a)) <= DailyCap[a] - 1 + Cardinality(Runs)
    <3>1. rows[a] = 0 /\ DailyCap[a] >= 1
      BY <2>1, DailyAssumption DEF Init, DailyInit, Capped
    <3>. QED
      BY <3>1, InFlightSize, DailyAssumption
  <2>. QED
    BY <2>1 DEF OvershootBounded
<1>2. /\ TypeOK /\ DailyInv /\ OvershootBounded
      /\ [Next]_vars
      => OvershootBounded'
  BY OvershootStep DEF TypeOK
<1>. QED
  BY <1>1, <1>2, TypeCorrect, RollerUsesCounter, DailyInvariant, PTL DEF Spec

(* The cap is exact for as long as only one goroutine rolls.               *)
THEOREM CapExactForOneRun ==
  ASSUME Cardinality(Runs) = 1
  PROVE  Spec => []DailyCapRespected
<1>1. TypeOK /\ OvershootBounded => DailyCapRespected
  <2>. SUFFICES ASSUME TypeOK, OvershootBounded, NEW a \in Accounts \ drifted, Capped(a)
                PROVE  rows[a] <= DailyCap[a]
    BY DEF DailyCapRespected
  <2>1. rows[a] + Cardinality(InFlight(a)) <= DailyCap[a]
    BY DailyAssumption DEF OvershootBounded
  <2>. QED
    BY <2>1, InFlightSize, DailyAssumption DEF TypeOK, DailyTypeOK
<1>. QED
  BY <1>1, TypeCorrect, CapOvershoot, PTL

-----------------------------------------------------------------------------
(* Termination: what can be said of it without fairness. Every run carries *)
(* a number of steps it has left at most. Its own steps use them up, and   *)
(* nothing anybody else does adds to them.                                 *)

Rank == [idle |-> 0, release |-> 1, log |-> 2, count |-> 3, backoff |-> 3,
         allocate |-> 4, wait |-> 5, check |-> 6]

StepsLeft(r) ==
  IF pc[r] = "idle" THEN 0 ELSE 7 * (budget[r] + 1 - attempt[r]) + Rank[pc[r]]

WindDown ==
  \A r \in Runs :
    /\ LoopStep(r) => StepsLeft(r)' < StepsLeft(r)
    /\ pc[r] # "idle" => StepsLeft(r)' <= StepsLeft(r)

FewStepsLeft == \A r \in Runs : StepsLeft(r) \in 0..(7 * MaxBudget + 6)

LEMMA StepsLeftType ==
  ASSUME RunInv, NEW r \in Runs
  PROVE  StepsLeft(r) \in 0..(7 * MaxBudget + 6)
<1>1. /\ budget[r] \in 0..MaxBudget /\ attempt[r] \in 1..(MaxBudget + 1)
      /\ attempt[r] <= budget[r] + 1 /\ pc[r] \in Active \cup {"idle"}
  BY DEF RunInv, RunTypeOK, AttemptInv
<1>2. pc[r] # "idle" => Rank[pc[r]] \in 1..6
  BY <1>1 DEF Rank, Active
<1>. QED
  BY <1>1, <1>2, RollerAssumption DEF StepsLeft

(* The next label of the same attempt is a lower one.                      *)
LEMMA LabelWindsDown ==
  ASSUME RunInv, NEW r \in Runs, NEW label \in Active, Goto(r, label), pc[r] \in Active,
         Rank[label] < Rank[pc[r]], UNCHANGED <<attempt, budget>>
  PROVE  StepsLeft(r)' \in Int /\ StepsLeft(r)' < StepsLeft(r)
<1>1. budget[r] \in Nat /\ attempt[r] \in Nat /\ pc'[r] = label
  BY DEF RunInv, RunTypeOK, Goto
<1>2. Rank[label] \in Nat /\ Rank[pc[r]] \in Nat /\ label # "idle" /\ pc[r] # "idle"
  BY DEF Rank, Active
<1>. QED
  BY <1>1, <1>2 DEF StepsLeft

(* The next attempt has seven steps less.                                  *)
LEMMA AttemptWindsDown ==
  ASSUME RunInv, NEW r \in Runs, NextAttempt(r), pc[r] \in Active, UNCHANGED budget
  PROVE  StepsLeft(r)' \in Int /\ StepsLeft(r)' < StepsLeft(r)
<1>1. /\ budget[r] \in Nat /\ attempt[r] \in Nat
      /\ pc'[r] = "check" /\ attempt'[r] = attempt[r] + 1
  BY DEF RunInv, RunTypeOK, NextAttempt, Goto
<1>2. Rank["check"] = 6 /\ Rank[pc[r]] \in 1..6 /\ pc[r] # "idle"
  BY DEF Rank, Active
<1>. QED
  BY <1>1, <1>2 DEF StepsLeft

(* A run that returns has no steps left.                                   *)
LEMMA ReturnWindsDown ==
  ASSUME RunInv, NEW r \in Runs, Return(r), pc[r] \in Active
  PROVE  StepsLeft(r)' \in Int /\ StepsLeft(r)' < StepsLeft(r)
<1>1. /\ budget[r] \in Nat /\ attempt[r] \in Nat /\ attempt[r] <= budget[r] + 1
      /\ pc'[r] = "idle"
  BY DEF RunInv, RunTypeOK, AttemptInv, Return, Goto
<1>2. Rank[pc[r]] \in 1..6 /\ pc[r] # "idle"
  BY DEF Rank, Active
<1>. QED
  BY <1>1, <1>2 DEF StepsLeft

LEMMA LoopStepWindsDown ==
  ASSUME RunInv, NEW r \in Runs, LoopStep(r)
  PROVE  StepsLeft(r)' \in Int /\ StepsLeft(r)' < StepsLeft(r)
<1>1. CASE Exhausted(r) \/ CheckDenied(r) \/ WaitFails(r) \/ AllocateFails(r)
           \/ BackoffGivesUp(r) \/ BackoffInterrupted(r) \/ Matches(r)
  BY <1>1, ReturnWindsDown DEF Exhausted, CheckDenied, WaitFails, AllocateFails,
       BackoffGivesUp, BackoffInterrupted, Matches, Active
<1>2. CASE \/ CheckAllowed(r) \/ WaitOk(r) \/ AllocateFailsTransient(r) \/ CountRoll(r)
           \/ Misses(r) \/ \E x \in Resources : AllocateSucceeds(r, x)
  <2>1. UNCHANGED <<attempt, budget>>
    BY <1>2 DEF CheckAllowed, WaitOk, AllocateFailsTransient, CountRoll, Misses,
         AllocateSucceeds
  <2>2. CASE CheckAllowed(r)
    <3>1. Goto(r, "wait") /\ pc[r] = "check"
      BY <2>2 DEF CheckAllowed
    <3>. QED
      BY <2>1, <3>1, LabelWindsDown DEF Active, Rank
  <2>3. CASE WaitOk(r)
    <3>1. Goto(r, "allocate") /\ pc[r] = "wait"
      BY <2>3 DEF WaitOk
    <3>. QED
      BY <2>1, <3>1, LabelWindsDown DEF Active, Rank
  <2>4. CASE AllocateFailsTransient(r)
    <3>1. Goto(r, "backoff") /\ pc[r] = "allocate"
      BY <2>4 DEF AllocateFailsTransient
    <3>. QED
      BY <2>1, <3>1, LabelWindsDown DEF Active, Rank
  <2>5. CASE \E x \in Resources : AllocateSucceeds(r, x)
    <3>1. Goto(r, "count") /\ pc[r] = "allocate"
      BY <2>5 DEF AllocateSucceeds
    <3>. QED
      BY <2>1, <3>1, LabelWindsDown DEF Active, Rank
  <2>6. CASE CountRoll(r)
    <3>1. Goto(r, "log") /\ pc[r] = "count"
      BY <2>6 DEF CountRoll
    <3>. QED
      BY <2>1, <3>1, LabelWindsDown DEF Active, Rank
  <2>7. CASE Misses(r)
    <3>1. Goto(r, "release") /\ pc[r] = "log"
      BY <2>7 DEF Misses
    <3>. QED
      BY <2>1, <3>1, LabelWindsDown DEF Active, Rank
  <2>. QED
    BY <1>2, <2>2, <2>3, <2>4, <2>5, <2>6, <2>7
<1>3. CASE BackoffSleeps(r) \/ Released(r) \/ ReleaseFails(r)
  BY <1>3, AttemptWindsDown DEF BackoffSleeps, Released, ReleaseFails, Active
<1>. QED
  BY <1>1, <1>2, <1>3 DEF LoopStep

(* What somebody else does leaves a run's steps as they are.               *)
LEMMA OthersWindDown ==
  ASSUME RunInv, NEW r \in Runs, pc[r] # "idle", [Next]_vars, ~LoopStep(r)
  PROVE  StepsLeft(r)' <= StepsLeft(r)
<1>0. StepsLeft(r) \in Nat
  BY StepsLeftType, RollerAssumption
<1>1. ASSUME UNCHANGED <<pc[r], attempt[r], budget[r]>> PROVE StepsLeft(r)' <= StepsLeft(r)
  BY <1>0, <1>1 DEF StepsLeft
<1>2. ASSUME NEW s \in Runs, LoopStep(s) \/ \E a \in Accounts, b \in 0..MaxBudget : Start(s, a, b)
      PROVE  UNCHANGED <<pc[r], attempt[r], budget[r]>>
  <2>1. s # r
    BY <1>2 DEF Start
  <2>. QED
    BY <1>2, <2>1 DEF LoopStep, Start, Exhausted, CheckAllowed, CheckDenied, WaitOk, WaitFails,
         AllocateSucceeds, AllocateFailsTransient, AllocateFails, BackoffSleeps,
         BackoffGivesUp, BackoffInterrupted, CountRoll, Matches, Misses, Released,
         ReleaseFails, Return, Goto, NextAttempt, RunInv, RunTypeOK
<1>3. CASE Restart
  BY <1>0, <1>3 DEF Restart, StepsLeft
<1>4. CASE (\E s \in Runs : ExpireContext(s)) \/ Midnight \/ ReadLimits \/ UNCHANGED vars
  BY <1>1, <1>4 DEF ExpireContext, Midnight, ReadLimits, vars, runVars
<1>. QED
  BY <1>1, <1>2, <1>3, <1>4 DEF Next

(* A run takes at most 7 steps for each roll of its budget and 6 more,     *)
(* whatever the provider answers, whichever calls fail and whoever else    *)
(* rolls: no error path of the loop repeats an attempt (roller.go:86-129). *)
(* That its steps are taken is what fairness is for.                       *)
THEOREM RunsWindDown == Spec => []FewStepsLeft /\ [][WindDown]_vars
<1>1. RunInv => FewStepsLeft
  BY StepsLeftType DEF FewStepsLeft
<1>2. RunInv /\ [Next]_vars => [WindDown]_vars
  <2>. SUFFICES ASSUME RunInv, [Next]_vars, NEW r \in Runs
                PROVE  /\ LoopStep(r) => StepsLeft(r)' < StepsLeft(r)
                       /\ pc[r] # "idle" => StepsLeft(r)' <= StepsLeft(r)
    BY DEF WindDown
  <2>1. LoopStep(r) => StepsLeft(r)' < StepsLeft(r)
    BY LoopStepWindsDown
  <2>2. pc[r] # "idle" /\ ~LoopStep(r) => StepsLeft(r)' <= StepsLeft(r)
    BY OthersWindDown
  <2>3. LoopStep(r) => StepsLeft(r)' <= StepsLeft(r)
    <3>. SUFFICES ASSUME LoopStep(r) PROVE StepsLeft(r)' <= StepsLeft(r)
      OBVIOUS
    <3>1. StepsLeft(r)' \in Int /\ StepsLeft(r)' < StepsLeft(r)
      BY LoopStepWindsDown
    <3>2. StepsLeft(r) \in Int
      BY StepsLeftType, RollerAssumption
    <3>. QED
      BY <3>1, <3>2
  <2>. QED
    BY <2>1, <2>2, <2>3
<1>. QED
  BY <1>1, <1>2, RollerInvariant, PTL DEF Spec

-----------------------------------------------------------------------------
(* Where the code's comments become true. The runs MCRoller_deadline and   *)
(* MCRoller_safety show what the deadline and failing calls do to them;    *)
(* the theorems of this section say that nothing else is needed for it.    *)

Harmless == mishap = {} /\ expired = {}

(* Only four kinds of failure leave an address behind.                     *)
LEMMA HarmlessStep ==
  ASSUME Faults \cap {"timeout", "release", "lost", "restart"} = {},
         Harmless, [Next]_vars
  PROVE  Harmless'
<1>1. ASSUME NEW r \in Runs, LoopStep(r)
      PROVE  Harmless'
  BY <1>1 DEF Harmless, LoopStep, Exhausted, CheckAllowed, CheckDenied, WaitOk, WaitFails,
       AllocateSucceeds, AllocateFailsTransient, AllocateFails, MayCreateUnheard,
       BackoffSleeps, BackoffGivesUp, BackoffInterrupted, CountRoll, Matches, Misses,
       Released, ReleaseFails, Return, ledgerVars
<1>2. ASSUME NEW r \in Runs, \/ \E a \in Accounts, b \in 0..MaxBudget : Start(r, a, b)
                             \/ ExpireContext(r)
      PROVE  Harmless'
  BY <1>2 DEF Harmless, Start, ExpireContext, ledgerVars
<1>3. CASE Restart \/ Midnight \/ ReadLimits \/ UNCHANGED vars
  BY <1>3 DEF Harmless, Restart, Midnight, ReadLimits, vars, runVars, ledgerVars
<1>. QED
  BY <1>1, <1>2, <1>3 DEF Next

(* A provider that releases what it is asked to release, answers that do   *)
(* not get lost, a deadline that is never reached and a process that does  *)
(* not stop: then whatever did not match is released once nobody rolls     *)
(* (roller.go:119), whichever allocations and storage calls fail.          *)
THEOREM EveryMissIsReleased ==
  ASSUME Faults \cap {"timeout", "release", "lost", "restart"} = {}
  PROVE  Spec => []NonMatchingReleased
<1>1. Init => Harmless
  BY DEF Init, Harmless
<1>2. Harmless /\ [Next]_vars => Harmless'
  BY HarmlessStep
<1>3. Harmless /\ LedgerInv => NonMatchingReleased
  <2>. SUFFICES ASSUME Harmless, LedgerInv, \A r \in Runs : pc[r] = "idle"
                PROVE  live \subseteq kept
    BY DEF NonMatchingReleased
  <2>1. \A r \in Runs : hand[r] = None
    BY DEF LedgerInv, HandInv, HasAddress
  <2>2. Held = {}
    BY <2>1 DEF Held
  <2>. QED
    BY <2>2 DEF Harmless, LedgerInv, FateInv, NoSilentLeak
<1>. QED
  BY <1>1, <1>2, <1>3, RollerInvariant, PTL DEF Spec

Logged == {e.ip : e \in rollLog}

EveryAddressLogged ==
  \A x \in used : x \in Logged \cup mishap \/ \E r \in Runs : NotYetLogged(r) /\ hand[r] = x

NeverExpires == expired = {}

(* What no step but LogRoll's and the restart's changes.                   *)
LEMMA LoggedFrame ==
  ASSUME EveryAddressLogged, rollLog \subseteq rollLog', mishap \subseteq mishap',
         used' \subseteq used \cup mishap',
         \A r \in Runs : NotYetLogged(r) =>
           \/ NotYetLogged(r)' /\ hand'[r] = hand[r]
           \/ hand[r] \in Logged' \cup mishap'
  PROVE  EveryAddressLogged'
<1>1. Logged \subseteq Logged'
  BY DEF Logged
<1>. QED
  BY <1>1 DEF EveryAddressLogged

LEMMA LoggedStep ==
  ASSUME {"timeout", "store"} \cap Faults = {},
         RunInv, LedgerInv, NeverExpires, EveryAddressLogged, [Next]_vars
  PROVE  EveryAddressLogged' /\ NeverExpires'
<1>1. ASSUME NEW r \in Runs, LoopStep(r)
      PROVE  EveryAddressLogged' /\ NeverExpires'
  <2>1. NeverExpires'
    BY <1>1 DEF NeverExpires, LoopStep, Exhausted, CheckAllowed, CheckDenied, WaitOk, WaitFails,
         AllocateSucceeds, AllocateFailsTransient, AllocateFails, BackoffSleeps,
         BackoffGivesUp, BackoffInterrupted, CountRoll, Matches, Misses, Released,
         ReleaseFails, Return
  <2>2. CASE \/ Exhausted(r) \/ CheckAllowed(r) \/ CheckDenied(r) \/ WaitOk(r) \/ WaitFails(r)
             \/ AllocateFailsTransient(r) \/ AllocateFails(r)
             \/ BackoffSleeps(r) \/ BackoffGivesUp(r) \/ BackoffInterrupted(r)
             \/ CountRoll(r) \/ Released(r) \/ ReleaseFails(r)
    <3>1. /\ rollLog \subseteq rollLog' /\ mishap \subseteq mishap'
          /\ used' \subseteq used \cup mishap'
      BY <2>2 DEF Exhausted, CheckAllowed, CheckDenied, WaitOk, WaitFails,
           AllocateFailsTransient, AllocateFails, MayCreateUnheard, BackoffSleeps,
           BackoffGivesUp, BackoffInterrupted, CountRoll, Released, ReleaseFails, ledgerVars
    <3>2. \A s \in Runs : NotYetLogged(s) => NotYetLogged(s)' /\ hand'[s] = hand[s]
      BY <2>2 DEF Exhausted, CheckAllowed, CheckDenied, WaitOk, WaitFails,
           AllocateFailsTransient, AllocateFails, BackoffSleeps, BackoffGivesUp,
           BackoffInterrupted, CountRoll, Released, ReleaseFails, Return, NextAttempt, Goto,
           NotYetLogged, RunInv, RunTypeOK
    <3>. QED
      BY <2>1, <3>1, <3>2, LoggedFrame
  <2>3. ASSUME NEW x \in Resources, AllocateSucceeds(r, x)
        PROVE  EveryAddressLogged'
    <3>1. /\ \A s \in Runs : NotYetLogged(s) => NotYetLogged(s)' /\ hand'[s] = hand[s]
          /\ NotYetLogged(r)' /\ hand'[r] = x
      BY <2>3 DEF AllocateSucceeds, Goto, NotYetLogged, RunInv, RunTypeOK
    <3>2. used' = used \cup {x} /\ mishap' = mishap /\ rollLog' = rollLog
      BY <2>3 DEF AllocateSucceeds
    <3>3. Logged' = Logged
      BY <3>2 DEF Logged
    <3>. QED
      BY <3>1, <3>2, <3>3 DEF EveryAddressLogged
  <2>4. CASE Matches(r) \/ Misses(r)
    <3>1. PICK m \in BOOLEAN : rollLog' = rollLog \cup {LogEntry(hand[r], m)}
      BY <2>4 DEF Matches, Misses, LogRoll, NeverExpires
    <3>2. hand[r] \in Logged'
      <4>1. LogEntry(hand[r], m).ip = hand[r] /\ LogEntry(hand[r], m) \in rollLog'
        BY <3>1 DEF LogEntry
      <4>. QED
        BY <4>1 DEF Logged
    <3>3. /\ rollLog \subseteq rollLog' /\ mishap' = mishap /\ used' = used
          /\ \A s \in Runs \ {r} : NotYetLogged(s) => NotYetLogged(s)' /\ hand'[s] = hand[s]
      BY <2>4, <3>1 DEF Matches, Misses, Return, Goto, NotYetLogged, RunInv, RunTypeOK
    <3>. QED
      BY <2>1, <3>2, <3>3, LoggedFrame
  <2>. QED
    BY <1>1, <2>1, <2>2, <2>3, <2>4 DEF LoopStep
<1>2. ASSUME NEW r \in Runs, \/ \E a \in Accounts, b \in 0..MaxBudget : Start(r, a, b)
                             \/ ExpireContext(r)
      PROVE  EveryAddressLogged' /\ NeverExpires'
  <2>1. UNCHANGED <<ledgerVars, hand, expired>>
    BY <1>2 DEF Start, ExpireContext
  <2>2. \A s \in Runs : NotYetLogged(s) => NotYetLogged(s)'
    BY <1>2 DEF Start, ExpireContext, Goto, NotYetLogged, RunInv, RunTypeOK
  <2>. QED
    BY <2>1, <2>2, LoggedFrame DEF NeverExpires, ledgerVars
<1>3. CASE Restart
  <2>1. \A s \in Runs : NotYetLogged(s) => hand[s] \in mishap'
    BY <1>3 DEF Restart, NotYetLogged, LedgerInv, HandInv, HasAddress, Held
  <2>2. rollLog' = rollLog /\ mishap \subseteq mishap' /\ used' = used /\ expired' = {}
    BY <1>3 DEF Restart
  <2>. QED
    BY <2>1, <2>2, LoggedFrame DEF NeverExpires
<1>4. CASE Midnight \/ ReadLimits \/ UNCHANGED vars
  <2>1. UNCHANGED <<ledgerVars, hand, expired, pc>>
    BY <1>4 DEF Midnight, ReadLimits, vars, runVars
  <2>. QED
    BY <2>1, LoggedFrame DEF NeverExpires, ledgerVars, NotYetLogged
<1>. QED
  BY <1>1, <1>2, <1>3, <1>4 DEF Next

(* roll_log misses no address: while no deadline is reached and the store  *)
(* works, every address the provider ever handed out has its entry, but    *)
(* for one whose run is about to write it and for those a lost answer or a *)
(* crash left behind (roller.go:108).                                      *)
THEOREM RollLogComplete ==
  ASSUME {"timeout", "store"} \cap Faults = {}
  PROVE  Spec => []EveryAddressLogged
<1>1. Init => EveryAddressLogged /\ NeverExpires
  BY DEF Init, EveryAddressLogged, NeverExpires
<1>2. /\ RunInv /\ LedgerInv /\ EveryAddressLogged /\ NeverExpires /\ [Next]_vars
      => EveryAddressLogged' /\ NeverExpires'
  BY LoggedStep
<1>. QED
  BY <1>1, <1>2, RollerInvariant, PTL DEF Spec
=============================================================================
