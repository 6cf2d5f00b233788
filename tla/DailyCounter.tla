---------------------------- MODULE DailyCounter ----------------------------
(***************************************************************************)
(* The per-account daily counter of the rolling engine                     *)
(* (internal/engine/limiter.go): counts are cached in memory, loaded       *)
(* lazily from the daily_counters table and written through to it.         *)
(*                                                                         *)
(* Every operation runs under dailyCounter.mu and uses                     *)
(* context.Background(), so each is one atomic action, whatever happened   *)
(* to the context of the run that called it.                               *)
(*                                                                         *)
(* Every table access names d.day right after ensureDay set it to today(), *)
(* so rows of earlier days are never read or written again: rows[a] is the *)
(* count of the row (a, today), 0 when there is none.                      *)
(***************************************************************************)
EXTENDS Integers

CONSTANTS
  Accounts,   \* account keys, the "provider" column ("timeweb#1", ...)
  DailyCap,   \* [Accounts -> Int]: RollCaps.DailyCap, unlimited when <= 0
  Faults,     \* the failures the environment may produce, a set of names
  MaxDay      \* bound: the calendar stops at this day

ASSUME DailyAssumption ==
  /\ DailyCap \in [Accounts -> Int]
  /\ MaxDay \in Nat

VARIABLES
  today,      \* the wall clock: what today() returns
  cacheDay,   \* dailyCounter.day
  counts,     \* dailyCounter.counts; Uncached where the map has no entry
  rows,       \* daily_counters: count of the row (account, today)
  drifted     \* history: accounts with a failed load or increment today

dailyVars == <<today, cacheDay, counts, rows, drifted>>

Uncached == -1
NoCounts == [a \in Accounts |-> Uncached]

Capped(a) == DailyCap[a] > 0

\* May a storage call fail this time?
StoreOutcomes == IF "store" \in Faults THEN BOOLEAN ELSE {FALSE}

DailyTypeOK ==
  /\ today \in Nat
  /\ cacheDay \in Nat
  /\ counts \in [Accounts -> Nat \cup {Uncached}]
  /\ rows \in [Accounts -> Nat]
  /\ drifted \in SUBSET Accounts

DailyInit ==
  /\ today = 0
  /\ cacheDay = 0
  /\ counts = NoCounts
  /\ rows = [a \in Accounts |-> 0]
  /\ drifted = {}

-----------------------------------------------------------------------------
(* The counter's operations.                                               *)

\* A bug: the map survives midnight.
StaleCounts == counts

\* ensureDay: the map the operation works on, emptied when the day changed.
FreshCounts == IF cacheDay = today THEN counts ELSE NoCounts

\* A bug: nothing is loaded from the table.
CountNotLoaded(a, loadFails) == IF FreshCounts[a] # Uncached THEN FreshCounts[a] ELSE 0

\* get: the cached count, else the stored one, else 0 when the load fails.
Count(a, loadFails) ==
  IF FreshCounts[a] # Uncached THEN FreshCounts[a]
  ELSE IF loadFails THEN 0 ELSE rows[a]

\* A load can fail only when get has to load.
LoadMayFail(a, loadFails) ==
  /\ loadFails \in StoreOutcomes
  /\ loadFails => FreshCounts[a] = Uncached

\* get as a step of its own: the value read stays cached.
Lookup(a, loadFails) ==
  /\ LoadMayFail(a, loadFails)
  /\ cacheDay' = today
  /\ counts' = [FreshCounts EXCEPT ![a] = Count(a, loadFails)]
  /\ drifted' = IF loadFails THEN drifted \cup {a} ELSE drifted
  /\ UNCHANGED <<today, rows>>

\* Allow, answering granted; an uncapped account does not touch the cache.
AllowUncapped(a) == ~Capped(a) /\ UNCHANGED dailyVars

\* A bug: <= where < is meant.
AllowGrantedAtCap(a) ==
  \/ AllowUncapped(a)
  \/ Capped(a) /\ \E f \in StoreOutcomes : Lookup(a, f) /\ Count(a, f) <= DailyCap[a]

AllowGranted(a) ==
  \/ AllowUncapped(a)
  \/ Capped(a) /\ \E f \in StoreOutcomes : Lookup(a, f) /\ Count(a, f) < DailyCap[a]

AllowDenied(a) ==
  Capped(a) /\ \E f \in StoreOutcomes : Lookup(a, f) /\ Count(a, f) >= DailyCap[a]

\* Inc: the cache is incremented even when the write to the table fails.
Inc(a) ==
  \E loadFails, incFails \in StoreOutcomes :
    /\ LoadMayFail(a, loadFails)
    /\ cacheDay' = today
    /\ counts' = [FreshCounts EXCEPT ![a] = Count(a, loadFails) + 1]
    /\ rows' = IF incFails THEN rows ELSE [rows EXCEPT ![a] = @ + 1]
    /\ drifted' = IF loadFails \/ incFails THEN drifted \cup {a} ELSE drifted
    /\ UNCHANGED today

\* Used and Remaining, read by /limits and by the confirmation text.
ReadUsage(a) == \E f \in StoreOutcomes : Lookup(a, f)

-----------------------------------------------------------------------------
(* The environment: midnight, and a restart that loses the cache.          *)

DayPasses ==
  /\ today < MaxDay
  /\ today' = today + 1
  /\ rows' = [a \in Accounts |-> 0]
  /\ drifted' = {}
  /\ UNCHANGED <<cacheDay, counts>>

\* newDailyCounter: an empty cache for the current day.
DailyRestart ==
  /\ cacheDay' = today
  /\ counts' = NoCounts
  /\ UNCHANGED <<today, rows, drifted>>

-----------------------------------------------------------------------------
(* The counter on its own, called by any number of goroutines. A run calls *)
(* Allow, then Inc for each address it got; nothing orders the calls of    *)
(* different runs, so any call may come next.                              *)

DailyCall(a) ==
  \/ AllowGranted(a)
  \/ AllowDenied(a)
  \/ ReadUsage(a)
  \/ Inc(a)

DailyNext ==
  \/ \E a \in Accounts : DailyCall(a)
  \/ DayPasses
  \/ DailyRestart

DailySpec == DailyInit /\ [][DailyNext]_dailyVars

-----------------------------------------------------------------------------
(* What the counter promises.                                              *)

\* What Used reports when the storage answers.
UsedToday(a) == IF FreshCounts[a] # Uncached THEN FreshCounts[a] ELSE rows[a]

(* As long as no storage call failed for an account today, a count cached  *)
(* for today equals the stored one (limiter.go:12 "written through to      *)
(* storage"): neither a lazy load nor the reset at midnight nor a restart  *)
(* makes the cache and the table disagree.                                 *)
CacheAgreesWithStore ==
  \A a \in Accounts \ drifted :
    FreshCounts[a] # Uncached => FreshCounts[a] = rows[a]

(* Consumption is never forgotten within a day, not even by a restart      *)
(* (limiter.go:12 "so they survive restarts within the same day").         *)
UsageNeverForgotten ==
  [][\A a \in Accounts :
       today' = today /\ a \notin drifted' => UsedToday(a)' >= UsedToday(a)]_dailyVars
=============================================================================
