------------------------------- MODULE Roller -------------------------------
(***************************************************************************)
(* Engine.Roll (internal/engine/roller.go): allocate an address at the     *)
(* provider, keep it if it matches the mask, release it if not, until the  *)
(* budget or the daily cap is exhausted.                                   *)
(*                                                                         *)
(* Any number of runs execute the loop at once (one goroutine each), on    *)
(* the same account or on different ones, sharing the daily counter and    *)
(* the provider. pc[r] is where the loop of run r stands; between two      *)
(* actions of a run anything else may happen, its own deadline and a crash *)
(* of the process included.                                                *)
(*                                                                         *)
(* Abstracted: the mask (a nondeterministic answer per address; see the    *)
(* matching code itself for what it computes), durations, and the pacing   *)
(* of the token bucket (Wait either gets its token or fails).              *)
(***************************************************************************)
EXTENDS DailyCounter, FiniteSets

CONSTANTS
  Runs,               \* the goroutines that may be inside Roll
  Resources,          \* the addresses the provider can hand out
  None,               \* no address in hand
  MaxRollsPerRun,     \* [Accounts -> Int]: RollCaps, unlimited when <= 0
  MaxBackoffAttempts, \* maxBackoffAttempts
  MaxBudget           \* bound: the largest budget a user asks for

\* Besides "store" (a storage call fails), Faults may hold
\*   "retryable"  the provider answers 429 or 5xx
\*   "fatal"      the provider answers any other error
\*   "lost"       a request takes effect but its answer is an error
\*   "release"    the provider refuses to release an address
\*   "timeout"    the run's ten minutes elapse
\*   "restart"    the process stops and starts again
ASSUME RollerAssumption ==
  /\ IsFiniteSet(Runs)
  /\ None \notin Resources
  /\ MaxRollsPerRun \in [Accounts -> Int]
  /\ MaxBackoffAttempts \in Nat
  /\ MaxBudget \in Nat \ {0}

VARIABLES
  pc,         \* where the loop of each run stands
  acct,       \* the account (provider p) of each run
  attempt,    \* the loop variable i
  budget,     \* the budget after the clamp
  expired,    \* the runs whose context is done
  hand,       \* ip: the address the run got and has not yet disposed of
  live,       \* the addresses that exist at the provider, and are billed
  used,       \* the addresses the provider has ever handed out
  kept,       \* the addresses returned as matches
  rollLog,    \* roll_log: what LogRoll recorded
  mishap      \* history: addresses a lost answer, a failed release or a
              \* crash left behind

runVars == <<pc, acct, attempt, budget, expired, hand>>
ledgerVars == <<live, used, kept, rollLog, mishap>>
vars == <<dailyVars, runVars, ledgerVars>>

Active == {"check", "wait", "allocate", "backoff", "count", "log", "release"}

RollLogEntry == [ip : Resources, matched : BOOLEAN, released : BOOLEAN]

RunTypeOK ==
  /\ pc \in [Runs -> Active \cup {"idle"}]
  /\ acct \in [Runs -> Accounts]
  /\ attempt \in [Runs -> 1..(MaxBudget + 1)]
  /\ budget \in [Runs -> 0..MaxBudget]
  /\ expired \in SUBSET Runs
  /\ hand \in [Runs -> Resources \cup {None}]

LedgerTypeOK ==
  /\ live \in SUBSET Resources
  /\ used \in SUBSET Resources
  /\ kept \in SUBSET Resources
  /\ rollLog \in SUBSET RollLogEntry
  /\ mishap \in SUBSET Resources

TypeOK == DailyTypeOK /\ RunTypeOK /\ LedgerTypeOK

Init ==
  /\ DailyInit
  /\ pc = [r \in Runs |-> "idle"]
  /\ acct \in [Runs -> Accounts]
  /\ attempt = [r \in Runs |-> 1]
  /\ budget = [r \in Runs |-> 1]
  /\ expired = {}
  /\ hand = [r \in Runs |-> None]
  /\ live = {} /\ used = {} /\ kept = {}
  /\ rollLog = {}
  /\ mishap = {}

Goto(r, label) == pc' = [pc EXCEPT ![r] = label]
NextAttempt(r) == Goto(r, "check") /\ attempt' = [attempt EXCEPT ![r] = @ + 1]

\* Roll returns, whatever its result: the locals of the call are gone.
Return(r) ==
  /\ Goto(r, "idle")
  /\ attempt' = [attempt EXCEPT ![r] = 1]
  /\ budget' = [budget EXCEPT ![r] = 1]
  /\ expired' = expired \ {r}
  /\ UNCHANGED acct

-----------------------------------------------------------------------------
(* Entering the loop.                                                      *)

\* The budget a run may use on account a when the user asked for b.
ClampedBudget(a, b) ==
  IF MaxRollsPerRun[a] > 0 /\ b > MaxRollsPerRun[a] THEN MaxRollsPerRun[a] ELSE b

Start(r, a, b) ==
  /\ pc[r] = "idle"
  /\ Goto(r, "check")
  /\ acct' = [acct EXCEPT ![r] = a]
  /\ attempt' = [attempt EXCEPT ![r] = 1]
  /\ budget' = [budget EXCEPT ![r] = ClampedBudget(a, b)]
  /\ UNCHANGED <<dailyVars, expired, hand, ledgerVars>>

\* A bug: the comparison off by one.
OutOfBudgetLate(r) == attempt[r] > budget[r] + 1

\* The for statement's condition is false.
OutOfBudget(r) == attempt[r] > budget[r]

Exhausted(r) ==
  /\ pc[r] = "check" /\ OutOfBudget(r)
  /\ Return(r)
  /\ UNCHANGED <<dailyVars, hand, ledgerVars>>

CheckAllowed(r) ==
  /\ pc[r] = "check" /\ ~OutOfBudget(r)
  /\ AllowGranted(acct[r])
  /\ Goto(r, "wait")
  /\ UNCHANGED <<acct, attempt, budget, expired, hand, ledgerVars>>

CheckDenied(r) ==
  /\ pc[r] = "check" /\ ~OutOfBudget(r)
  /\ AllowDenied(acct[r])
  /\ Return(r)
  /\ UNCHANGED <<hand, ledgerVars>>

\* lim.Wait fails when the context is done, and also before, when the token
\* would come after the deadline.
WaitOk(r) ==
  /\ pc[r] = "wait" /\ r \notin expired
  /\ Goto(r, "allocate")
  /\ UNCHANGED <<dailyVars, acct, attempt, budget, expired, hand, ledgerVars>>

WaitFails(r) ==
  /\ pc[r] = "wait" /\ "timeout" \in Faults
  /\ Return(r)
  /\ UNCHANGED <<dailyVars, hand, ledgerVars>>

-----------------------------------------------------------------------------
(* The allocation and its errors.                                          *)

AllocateSucceeds(r, x) ==
  /\ pc[r] = "allocate" /\ r \notin expired
  /\ x \in Resources \ used
  /\ used' = used \cup {x} /\ live' = live \cup {x}
  /\ hand' = [hand EXCEPT ![r] = x]
  /\ Goto(r, "count")
  /\ UNCHANGED <<dailyVars, acct, attempt, budget, expired,
                 kept, rollLog, mishap>>

\* An error answer creates nothing, or an address nobody hears of.
MayCreateUnheard ==
  \/ UNCHANGED <<live, used, mishap>>
  \/ /\ "lost" \in Faults
     /\ \E x \in Resources \ used :
          used' = used \cup {x} /\ live' = live \cup {x} /\ mishap' = mishap \cup {x}

\* A retryable APIError: backoff decides.
AllocateFailsTransient(r) ==
  /\ pc[r] = "allocate" /\ "retryable" \in Faults
  /\ MayCreateUnheard
  /\ Goto(r, "backoff")
  /\ UNCHANGED <<dailyVars, acct, attempt, budget, expired, hand, kept, rollLog>>

\* Any other error, such as a context that is done or a provider that has no
\* address left: backoff answers false at once.
AllocateFails(r) ==
  /\ pc[r] = "allocate"
  /\ "fatal" \in Faults \/ r \in expired \/ used = Resources
  /\ MayCreateUnheard
  /\ Return(r)
  /\ UNCHANGED <<dailyVars, hand, kept, rollLog>>

\* A bug: the retry starts over at the same attempt.
BackoffRepeats(r) ==
  /\ pc[r] = "backoff" /\ attempt[r] <= MaxBackoffAttempts /\ r \notin expired
  /\ Goto(r, "check")
  /\ UNCHANGED <<dailyVars, acct, attempt, budget, expired, hand, ledgerVars>>

\* backoff is called with the loop variable, not with a count of retries.
BackoffSleeps(r) ==
  /\ pc[r] = "backoff" /\ attempt[r] <= MaxBackoffAttempts /\ r \notin expired
  /\ NextAttempt(r)
  /\ UNCHANGED <<dailyVars, acct, budget, expired, hand, ledgerVars>>

BackoffGivesUp(r) ==
  /\ pc[r] = "backoff" /\ attempt[r] > MaxBackoffAttempts
  /\ Return(r)
  /\ UNCHANGED <<dailyVars, hand, ledgerVars>>

BackoffInterrupted(r) ==
  /\ pc[r] = "backoff" /\ attempt[r] <= MaxBackoffAttempts /\ r \in expired
  /\ Return(r)
  /\ UNCHANGED <<dailyVars, hand, ledgerVars>>

-----------------------------------------------------------------------------
(* What becomes of an address.                                             *)

CountRoll(r) ==
  /\ pc[r] = "count"
  /\ Inc(acct[r])
  /\ Goto(r, "log")
  /\ UNCHANGED <<acct, attempt, budget, expired, hand, ledgerVars>>

\* A bug: the flag not negated.
LogEntryInverted(x, matched) == [ip |-> x, matched |-> matched, released |-> matched]

\* LogRoll is called with the run's context and its error is dropped; it
\* records as released what is about to be released.
LogEntry(x, matched) == [ip |-> x, matched |-> matched, released |-> ~matched]

LogRoll(r, matched) ==
  \/ r \notin expired /\ rollLog' = rollLog \cup {LogEntry(hand[r], matched)}
  \/ (r \in expired \/ "store" \in Faults) /\ UNCHANGED rollLog

\* A bug: no return after a match.
MatchesFallsThrough(r) ==
  /\ pc[r] = "log"
  /\ LogRoll(r, TRUE)
  /\ kept' = kept \cup {hand[r]}
  /\ Goto(r, "release")
  /\ UNCHANGED <<dailyVars, acct, attempt, budget, expired, hand,
                 live, used, mishap>>

Matches(r) ==
  /\ pc[r] = "log"
  /\ LogRoll(r, TRUE)
  /\ kept' = kept \cup {hand[r]}
  /\ hand' = [hand EXCEPT ![r] = None]
  /\ Return(r)
  /\ UNCHANGED <<dailyVars, live, used, mishap>>

\* A bug: the next attempt without a release.
MissesAndContinues(r) ==
  /\ pc[r] = "log"
  /\ LogRoll(r, FALSE)
  /\ hand' = [hand EXCEPT ![r] = None]
  /\ NextAttempt(r)
  /\ UNCHANGED <<dailyVars, acct, budget, expired, live, used, kept, mishap>>

Misses(r) ==
  /\ pc[r] = "log"
  /\ LogRoll(r, FALSE)
  /\ Goto(r, "release")
  /\ UNCHANGED <<dailyVars, acct, attempt, budget, expired, hand,
                 live, used, kept, mishap>>

\* Whatever Release answers, the loop sleeps and goes on.
Released(r) ==
  /\ pc[r] = "release" /\ r \notin expired
  /\ live' = live \ {hand[r]}
  /\ hand' = [hand EXCEPT ![r] = None]
  /\ NextAttempt(r)
  /\ UNCHANGED <<dailyVars, acct, budget, expired, used, kept, rollLog, mishap>>

ReleaseFails(r) ==
  /\ pc[r] = "release" /\ (r \in expired \/ "release" \in Faults)
  /\ \/ UNCHANGED live /\ mishap' = mishap \cup {hand[r]}
     \/ "lost" \in Faults /\ live' = live \ {hand[r]} /\ UNCHANGED mishap
  /\ hand' = [hand EXCEPT ![r] = None]
  /\ NextAttempt(r)
  /\ UNCHANGED <<dailyVars, acct, budget, expired, used, kept, rollLog>>

-----------------------------------------------------------------------------
(* The environment.                                                        *)

ExpireContext(r) ==
  /\ "timeout" \in Faults
  /\ pc[r] \in Active /\ r \notin expired
  /\ expired' = expired \cup {r}
  /\ UNCHANGED <<dailyVars, pc, acct, attempt, budget, hand, ledgerVars>>

Held == {hand[r] : r \in Runs} \ {None}

\* The process stops: main does not wait for the runs, and no run is resumed.
Restart ==
  /\ "restart" \in Faults
  /\ DailyRestart
  /\ pc' = [r \in Runs |-> "idle"]
  /\ attempt' = [r \in Runs |-> 1]
  /\ budget' = [r \in Runs |-> 1]
  /\ hand' = [r \in Runs |-> None]
  /\ expired' = {}
  /\ mishap' = mishap \cup Held
  /\ UNCHANGED <<acct, live, used, kept, rollLog>>

Midnight == DayPasses /\ UNCHANGED <<runVars, ledgerVars>>

\* /limits and the confirmation text read the counter.
ReadLimits == (\E a \in Accounts : ReadUsage(a)) /\ UNCHANGED <<runVars, ledgerVars>>

-----------------------------------------------------------------------------
LoopStep(r) ==
  \/ Exhausted(r) \/ CheckAllowed(r) \/ CheckDenied(r)
  \/ WaitOk(r) \/ WaitFails(r)
  \/ \E x \in Resources : AllocateSucceeds(r, x)
  \/ AllocateFailsTransient(r) \/ AllocateFails(r)
  \/ BackoffSleeps(r) \/ BackoffGivesUp(r) \/ BackoffInterrupted(r)
  \/ CountRoll(r)
  \/ Matches(r) \/ Misses(r)
  \/ Released(r) \/ ReleaseFails(r)

Next ==
  \/ \E r \in Runs :
       \/ \E a \in Accounts, b \in 0..MaxBudget : Start(r, a, b)
       \/ LoopStep(r)
       \/ ExpireContext(r)
  \/ Restart
  \/ Midnight
  \/ ReadLimits

Spec == Init /\ [][Next]_vars

\* The scheduler runs every goroutine, and every blocking call of the loop is
\* bounded by the HTTP client's timeout or by the run's context: but for the
\* wait for the mutex of an OpenStack adapter, see Adapters!RunIsBounded.
Fairness == \A r \in Runs : WF_vars(LoopStep(r))

FairSpec == Spec /\ Fairness

-----------------------------------------------------------------------------
(* Safety.                                                                 *)

(* No silent leak: an address that is live at the provider is in the hand  *)
(* of a run, was returned as a match, or was left behind by a failure of   *)
(* the provider or of the process (roller.go:119 "Did not match -> release *)
(* it"). On no other path does the loop forget an address.                 *)
NoSilentLeak == live \subseteq Held \cup kept \cup mishap

(* A match stays: what Roll returned as matched is never released, neither *)
(* by its own run nor by another one that goes on rolling                  *)
(* (roller.go:116 "keep it").                                              *)
KeptStaysLive == kept \subseteq live \ Held

(* roll_log tells the fate of an address: an entry says matched exactly if *)
(* the address was kept, and what it says was released is gone, unless the *)
(* release is still to come or went wrong.                                 *)
LogTellsFate ==
  \A e \in rollLog :
    /\ e.matched <=> e.ip \in kept
    /\ e.released /\ e.ip \in live => e.ip \in Held \cup mishap

\* The runs of account a between Allow and Inc.
InFlight(a) ==
  {r \in Runs : acct[r] = a /\ pc[r] \in {"wait", "allocate", "count"}}

(* How far the daily cap can be exceeded: Allow and Inc are two critical   *)
(* sections (roller.go:87 and 102), so runs of one account that check      *)
(* together all go through. The excess is at most one roll for each run    *)
(* but one, and never accumulates over a day.                              *)
OvershootBounded ==
  \A a \in Accounts \ drifted :
    Capped(a) => rows[a] + Cardinality(InFlight(a)) <= DailyCap[a] - 1 + Cardinality(Runs)

-----------------------------------------------------------------------------
(* The loop implements the ledger of addresses.                            *)

\* "forgotten" is no fate of the ledger.
FateOf(x) ==
  IF x \notin used THEN "free"
  ELSE IF x \notin live THEN "released"
  ELSE IF x \in kept THEN "kept"
  ELSE IF x \in Held THEN "held"
  ELSE IF x \in mishap THEN "lost"
  ELSE "forgotten"

Fate == [x \in Resources |-> FateOf(x)]

Ledger == INSTANCE AddressLedger WITH fate <- Fate

(* Whatever the runs do to an address is a step of its life in the ledger: *)
(* it is obtained once, never changes hands between runs, is returned or   *)
(* released only by the run that holds it, and never both (roller.go:96-   *)
(* 125); only failures and a crash lose one.                               *)
ImplementsLedger == Ledger!Spec

(* Every run of the loop ends: retries count against the budget, and no    *)
(* error path repeats an attempt.                                          *)
RunTerminates == \A r \in Runs : pc[r] \in Active ~> pc[r] = "idle"

-----------------------------------------------------------------------------
(* What the code's comments say and the code does not do.                  *)

(* provider.go:42 "max new IPs per day": the count never exceeds the cap.  *)
DailyCapRespected == \A a \in Accounts \ drifted : Capped(a) => rows[a] <= DailyCap[a]

(* roller.go:119 "Did not match -> release it (otherwise it keeps          *)
(* billing)": with a provider that never refuses a release and a process   *)
(* that never stops, once no run is active only matches are live.          *)
NonMatchingReleased == (\A r \in Runs : pc[r] = "idle") => live \subseteq kept
=============================================================================
