------------------------------ MODULE Adapters ------------------------------
(***************************************************************************)
(* The provider adapters (internal/provider/...) of one account, and the   *)
(* goroutines that call them: runs of Engine.Roll, which allocate, release *)
(* and keep addresses through the adapter they looked up when they began,  *)
(* and attach handlers, which look the account up when they need it.       *)
(*                                                                         *)
(* Every Registry.Reload builds the account a new adapter, from the        *)
(* credentials of its row; older adapters live on in the runs that hold    *)
(* them. Adapters of different accounts share nothing, so one account of   *)
(* each provider type is modelled.                                         *)
(*                                                                         *)
(* Abstracted: paths, headers and texts. An answer of the provider is its  *)
(* status and what its body decodes to.                                    *)
(***************************************************************************)
EXTENDS Integers

CONSTANTS
  Callers,     \* goroutines
  Types,       \* provider types, one of which the account has
  Projects,    \* what credentials give access to
  Resources,   \* the addresses the provider can hand out
  None,        \* no project, caller, address
  MaxAdapters  \* bound: how often the registry rebuilds the account

RestTypes == {"timeweb", "gcore", "mws"}
OpenStackTypes == {"vkcloud", "selectel"}
StubTypes == {"ruvds", "beget", "cookie"}

ASSUME AdaptersAssumption ==
  /\ Types \subseteq RestTypes \cup OpenStackTypes \cup StubTypes
  /\ None \notin Callers \cup Projects \cup Resources
  /\ MaxAdapters \in Nat

VARIABLES
  typ,       \* the account's provider type
  project,   \* of each adapter: the project its credentials give access to
  net,       \* of each adapter: the OpenStack client is cached
  mu,        \* of each adapter: who holds Provider.mu across a blocking call
  byKey,     \* Registry.byKey: the account's current adapter, 0 if none
  built,     \* the adapters built so far are 1..built
  pc,        \* where each caller stands
  op,        \* the operation it is in
  acc,       \* the adapter it calls, 0 if none
  hand,      \* ip: the address a run got and has not yet disposed of
  expired,   \* the runs whose rollTimeout has elapsed
  kept,      \* the matches returned to users
  used,      \* the addresses the provider has ever handed out or promised
  home,      \* of each address that exists: the project it was created in
  pending,   \* those of them an asynchronous task has still to create
  told       \* history: addresses that an error left behind

adapterVars == <<project, net, byKey, built>>
callerVars == <<pc, op, acc, hand, expired>>
cloudVars == <<used, home, pending, told>>
vars == <<typ, adapterVars, mu, callerVars, kept, cloudVars>>

AdapterIds == 1..MaxAdapters

\* provider.AllocatedIP; id says whether the answer carried the id.
Allocated == [addr : Resources, id : BOOLEAN]
NoIP == [addr |-> None, id |-> FALSE]

TypeOK ==
  /\ typ \in Types
  /\ project \in [AdapterIds -> Projects \cup {None}]
  /\ net \in [AdapterIds -> BOOLEAN]
  /\ mu \in [AdapterIds -> Callers \cup {None}]
  /\ byKey \in 0..built
  /\ built \in 0..MaxAdapters
  /\ pc \in [Callers -> {"idle", "ready", "lock", "auth", "request"}]
  /\ op \in [Callers -> {"none", "allocate", "release", "attach"}]
  /\ acc \in [Callers -> 0..built]
  /\ hand \in [Callers -> Allocated \cup {NoIP}]
  /\ expired \in SUBSET Callers
  /\ kept \in SUBSET Resources
  /\ home \in [Resources -> Projects \cup {None}]
  /\ used \in SUBSET Resources
  /\ pending \in SUBSET Resources
  /\ told \in SUBSET Resources

Init ==
  /\ typ \in Types
  /\ project = [a \in AdapterIds |-> None]
  /\ net = [a \in AdapterIds |-> FALSE]
  /\ mu = [a \in AdapterIds |-> None]
  /\ byKey = 0 /\ built = 0
  /\ pc = [c \in Callers |-> "idle"]
  /\ op = [c \in Callers |-> "none"]
  /\ acc = [c \in Callers |-> 0]
  /\ hand = [c \in Callers |-> NoIP]
  /\ expired = {}
  /\ kept = {}
  /\ home = [x \in Resources |-> None]
  /\ used = {} /\ pending = {} /\ told = {}

-----------------------------------------------------------------------------
(* The registry.                                                           *)

\* Reload with the account enabled, its row's credentials being those of p.
Rebuild(p) ==
  /\ built < MaxAdapters
  /\ built' = built + 1
  /\ byKey' = built + 1
  /\ project' = [project EXCEPT ![built + 1] = p]
  /\ UNCHANGED <<typ, net, mu, callerVars, kept, cloudVars>>

\* Reload with the account deleted, disabled, or not to be built.
Drop ==
  /\ byKey' = 0
  /\ UNCHANGED <<typ, project, net, built, mu, callerVars, kept, cloudVars>>

-----------------------------------------------------------------------------
(* The provider's answers and what an adapter makes of them.               *)

\* "ok" any 2xx; "overload" 429 and 5xx; "absent" 404; "refused" any other
\* status; "none" no answer before the context or the client's timeout ends.
Statuses == {"ok", "overload", "absent", "refused", "none"}

\* A bug: what is not there counts as released.
NilErrorIfAbsent(status) == status \in {"ok", "absent"}

\* DoJSON without a value to decode into; ExtractErr.
NilError(status) == status = "ok"

\* APIError.Retryable. The OpenStack adapters return no APIError.
Retryable(status) == typ \in RestTypes /\ status = "overload"

\* What Allocate reads of a body that decodes: timeweb and the OpenStack
\* adapters of a nested object, gcore of a flat one, mws of the nested one if
\* it is there (resolve). What is missing reads as empty, all of it if the body
\* is empty.
Fields == [id : BOOLEAN, ip : {"valid", "empty", "malformed"}]

\* A bug: an answer without an address passes for one with an address.
UsableIfEmpty(f) == f.ip # "malformed"

\* netip.ParseAddr accepts the address.
Usable(f) == f.ip = "valid"

-----------------------------------------------------------------------------
(* The callers.                                                            *)

Goto(c, label) == pc' = [pc EXCEPT ![c] = label]

\* The goroutine ends, or its handler returns.
Return(c) ==
  /\ Goto(c, "idle")
  /\ op' = [op EXCEPT ![c] = "none"]
  /\ acc' = [acc EXCEPT ![c] = 0]
  /\ hand' = [hand EXCEPT ![c] = NoIP]
  /\ expired' = expired \ {c}

\* The call of a run returns, with ip in the run's hand from now on.
Answer(c, ip) ==
  /\ Goto(c, "ready")
  /\ op' = [op EXCEPT ![c] = "none"]
  /\ hand' = [hand EXCEPT ![c] = ip]
  /\ UNCHANGED <<acc, expired>>

\* An OpenStack adapter gets its client first.
Call(c, o) ==
  /\ Goto(c, IF typ \in OpenStackTypes THEN "lock" ELSE "request")
  /\ op' = [op EXCEPT ![c] = o]

\* runRoll: Get, then Roll with the adapter it got.
BeginRun(c) ==
  /\ pc[c] = "idle" /\ byKey # 0
  /\ Goto(c, "ready")
  /\ acc' = [acc EXCEPT ![c] = byKey]
  /\ UNCHANGED <<typ, adapterVars, mu, op, hand, expired, kept, cloudVars>>

\* The stubs answer NotImplementedError to everything.
AllocateUnsupported(c) ==
  /\ pc[c] = "ready" /\ typ \in StubTypes
  /\ Return(c)
  /\ UNCHANGED <<typ, adapterVars, mu, kept, cloudVars>>

Allocate(c) ==
  /\ pc[c] = "ready" /\ hand[c] = NoIP /\ c \notin expired
  /\ typ \notin StubTypes
  /\ Call(c, "allocate")
  /\ UNCHANGED <<typ, adapterVars, mu, acc, hand, expired, kept, cloudVars>>

\* A bug: the release looks the account up again.
ReleaseByKey(c) ==
  /\ pc[c] = "ready" /\ hand[c] # NoIP /\ byKey # 0
  /\ acc' = [acc EXCEPT ![c] = byKey]
  /\ Call(c, "release")
  /\ UNCHANGED <<typ, adapterVars, mu, hand, expired, kept, cloudVars>>

Release(c) ==
  /\ pc[c] = "ready" /\ hand[c] # NoIP
  /\ Call(c, "release")
  /\ UNCHANGED <<typ, adapterVars, mu, acc, hand, expired, kept, cloudVars>>

\* A match is returned to the user.
Keep(c) ==
  /\ pc[c] = "ready" /\ hand[c] # NoIP
  /\ kept' = kept \cup {hand[c].addr}
  /\ Return(c)
  /\ UNCHANGED <<typ, adapterVars, mu, cloudVars>>

\* Out of budget, over the daily cap, or out of time.
Finish(c) ==
  /\ pc[c] = "ready" /\ hand[c] = NoIP
  /\ Return(c)
  /\ UNCHANGED <<typ, adapterVars, mu, kept, cloudVars>>

\* doAttach, of some match. mws and the stubs answer NotImplementedError
\* without a request.
BeginAttach(c) ==
  /\ pc[c] = "idle" /\ byKey # 0 /\ kept # {}
  /\ typ \notin {"mws"} \cup StubTypes
  /\ Call(c, "attach")
  /\ acc' = [acc EXCEPT ![c] = byKey]
  /\ UNCHANGED <<typ, adapterVars, mu, hand, expired, kept, cloudVars>>

-----------------------------------------------------------------------------
(* Provider.client: the lazily authenticated OpenStack client.             *)

\* A bug: no mutex.
EnterClientUnlocked(c) ==
  /\ pc[c] = "lock"
  /\ Goto(c, IF net[acc[c]] THEN "request" ELSE "auth")
  /\ UNCHANGED <<typ, adapterVars, mu, op, acc, hand, expired, kept, cloudVars>>

\* Nothing interrupts the wait for the mutex, a done context neither.
EnterClient(c) ==
  /\ pc[c] = "lock" /\ mu[acc[c]] = None
  /\ \/ net[acc[c]] /\ Goto(c, "request") /\ UNCHANGED mu
     \/ ~net[acc[c]] /\ Goto(c, "auth") /\ mu' = [mu EXCEPT ![acc[c]] = c]
  /\ UNCHANGED <<typ, adapterVars, op, acc, hand, expired, kept, cloudVars>>

AuthSucceeds(c) ==
  /\ pc[c] = "auth" /\ c \notin expired
  /\ net' = [net EXCEPT ![acc[c]] = TRUE]
  /\ mu' = [mu EXCEPT ![acc[c]] = None]
  /\ Goto(c, "request")
  /\ UNCHANGED <<typ, project, byKey, built, op, acc, hand, expired, kept, cloudVars>>

\* The operation fails before its request: Allocate's error ends the run,
\* Release's is logged, Attach's is reported.
FailsEarly(c) ==
  \/ op[c] # "release" /\ Return(c) /\ UNCHANGED told
  \/ op[c] = "release" /\ Answer(c, NoIP) /\ told' = told \cup {hand[c].addr}

\* A bug: the error path does not unlock.
AuthFailsLocked(c) ==
  /\ pc[c] = "auth"
  /\ FailsEarly(c)
  /\ UNCHANGED <<typ, adapterVars, mu, kept, used, home, pending>>

\* The client is not cached, so the next operation authenticates again.
AuthFails(c) ==
  /\ pc[c] = "auth"
  /\ mu' = [mu EXCEPT ![acc[c]] = None]
  /\ FailsEarly(c)
  /\ UNCHANGED <<typ, adapterVars, kept, used, home, pending>>

-----------------------------------------------------------------------------
(* The request itself: what the provider does and what it answers.         *)

At(c, o) == pc[c] = "request" /\ op[c] = o
Exists(x) == home[x] # None /\ x \notin pending
Creates(c, x) ==
  /\ x \notin used /\ used' = used \cup {x}
  /\ home' = [home EXCEPT ![x] = project[acc[c]]]

\* The address the run believes it got.
Claimed(x, f) == [addr |-> IF f.ip = "valid" THEN x ELSE None, id |-> f.id]

AllocateSucceeds(c) ==
  /\ At(c, "allocate") /\ c \notin expired
  /\ \E x \in Resources, f \in Fields :
       /\ Usable(f)
       /\ Creates(c, x)
       /\ Answer(c, Claimed(x, f))
  /\ UNCHANGED <<typ, adapterVars, mu, kept, pending, told>>

\* The address exists, or, at Gcore, an asynchronous task will create it.
CreatedUnheard(c) ==
  \E x \in Resources :
    /\ Creates(c, x)
    /\ told' = told \cup {x}
    /\ \/ UNCHANGED pending
       \/ typ = "gcore" /\ pending' = pending \cup {x}

\* A 2xx whose body does not decode, or holds no usable address: an error that
\* ends the run.
AllocateUnreadable(c) ==
  /\ At(c, "allocate")
  /\ CreatedUnheard(c)
  /\ Return(c)
  /\ UNCHANGED <<typ, adapterVars, mu, kept>>

\* Any other answer, or none; the request may yet have had its effect.
AllocateFails(c) ==
  /\ At(c, "allocate")
  /\ \E status \in Statuses \ {"ok"} :
       /\ c \in expired => status = "none"
       /\ \/ Retryable(status) /\ Answer(c, NoIP)
          \/ ~Retryable(status) /\ Return(c)
  /\ CreatedUnheard(c) \/ UNCHANGED cloudVars
  /\ UNCHANGED <<typ, adapterVars, mu, kept>>

\* The task behind an asynchronous creation is done; nobody asks for it.
TaskCompletes(x) ==
  /\ x \in pending
  /\ pending' = pending \ {x}
  /\ UNCHANGED <<typ, adapterVars, mu, callerVars, kept, used, home, told>>

\* The request names the address: by its id, within the adapter's project.
Reaches(c) ==
  /\ hand[c].id
  /\ Exists(hand[c].addr)
  /\ home[hand[c].addr] = project[acc[c]]

\* What the provider does with a DELETE that it answers with status.
Deletes(c, status) ==
  \/ status # "ok" /\ UNCHANGED home
  \/ Reaches(c) /\ status # "absent" /\ home' = [home EXCEPT ![hand[c].addr] = None]

ReleaseAnswered(c) ==
  /\ At(c, "release")
  /\ \E status \in Statuses :
       /\ c \in expired => status = "none"
       /\ Deletes(c, status)
       /\ told' = IF NilError(status) \/ home'[hand[c].addr] = None
                  THEN told ELSE told \cup {hand[c].addr}
  /\ Answer(c, NoIP)
  /\ UNCHANGED <<typ, adapterVars, mu, kept, used, pending>>

\* Attaching changes no address's life, whatever is answered.
AttachAnswered(c) ==
  /\ At(c, "attach")
  /\ Return(c)
  /\ UNCHANGED <<typ, adapterVars, mu, kept, cloudVars>>

\* rollTimeout: only a run has a deadline.
Expire(c) ==
  /\ pc[c] # "idle" /\ op[c] # "attach" /\ c \notin expired
  /\ expired' = expired \cup {c}
  /\ UNCHANGED <<typ, adapterVars, mu, pc, op, acc, hand, kept, cloudVars>>

-----------------------------------------------------------------------------
Engine(c) ==
  AllocateUnsupported(c) \/ Allocate(c) \/ Release(c) \/ Keep(c) \/ Finish(c)

Answered(c) ==
  \/ AuthSucceeds(c) \/ AuthFails(c)
  \/ AllocateSucceeds(c) \/ AllocateUnreadable(c) \/ AllocateFails(c)
  \/ ReleaseAnswered(c) \/ AttachAnswered(c)

Next ==
  \/ (\E p \in Projects : Rebuild(p)) \/ Drop
  \/ \E c \in Callers :
       \/ BeginRun(c) \/ BeginAttach(c)
       \/ Engine(c) \/ EnterClient(c) \/ Answered(c)
       \/ Expire(c)
  \/ \E x \in Resources : TaskCompletes(x)

Spec == Init /\ [][Next]_vars

\* Who may wait for an answer for ever: the context of an attach handler has
\* no deadline, and gophercloud's HTTP client no timeout. The other adapters'
\* clients have one, and so has the context of a run.
Unbounded(c) ==
  op[c] = "attach" /\ typ \in OpenStackTypes /\ pc[c] \in {"auth", "request"}

\* Goroutines run, a Go mutex is not withheld from one that waits for it, and
\* every wait for an answer with a deadline ends.
Fairness ==
  \A c \in Callers :
    /\ WF_vars(Engine(c))
    /\ SF_vars(EnterClient(c))
    /\ WF_vars(~Unbounded(c) /\ Answered(c))

FairSpec == Spec /\ Fairness

-----------------------------------------------------------------------------
(* The adapters implement the ledger of addresses.                         *)

InHand == {hand[c].addr : c \in Callers}

\* "forgotten" is no fate of the ledger.
FateOf(x) ==
  IF x \notin used THEN "free"
  ELSE IF home[x] = None THEN "released"
  ELSE IF x \in kept THEN "kept"
  ELSE IF x \in InHand THEN "held"
  ELSE IF x \in told THEN "lost"
  ELSE "forgotten"

Fate == [x \in Resources |-> FateOf(x)]

Ledger == INSTANCE AddressLedger WITH fate <- Fate

(* What the engine relies on (provider.go:24-29): an Allocate without an   *)
(* error gives an address that exists and that nobody else has, a Release  *)
(* without an error means it is gone, and an address that exists is in the *)
(* hand of a run, a user's, or the matter of an error, whatever the        *)
(* provider answers and however the registry changes meanwhile.            *)
ImplementsLedger == Ledger!Spec

(* A release is sent with the credentials that created the address, though *)
(* the account may have been edited or deleted during the run              *)
(* (handlers.go:778, roller.go:120).                                       *)
ReleasesGoHome ==
  \A c \in Callers : op[c] = "release" => project[acc[c]] = home[hand[c].addr]

(* An OpenStack adapter authenticates once: not twice at the same time,    *)
(* not again when it has a client, and no request leaves without one       *)
(* (vkcloud.go:49 "lazily authenticates and caches the Neutron client").   *)
OneClient ==
  /\ \A c, d \in Callers : pc[c] = "auth" /\ pc[d] = "auth" /\ acc[c] = acc[d] => c = d
  /\ \A c \in Callers : typ \in OpenStackTypes =>
       /\ pc[c] = "auth" => ~net[acc[c]]
       /\ pc[c] = "request" => net[acc[c]]

InCall(c) == pc[c] \in {"lock", "auth", "request"}
BehindUnbounded(c) ==
  pc[c] = "lock" /\ \E d \in Callers : Unbounded(d) /\ pc[d] = "auth" /\ acc[d] = acc[c]

(* Every call returns, after failed authentications too, unless it is an   *)
(* attach without a deadline or waits for the client of such a one.        *)
CallsEnd ==
  \A c \in Callers : InCall(c) ~> ~InCall(c) \/ Unbounded(c) \/ BehindUnbounded(c)

-----------------------------------------------------------------------------
(* What the code's comments say and the code does not do.                  *)

(* handlers.go:30 "rollTimeout bounds a single /roll run": a run ends once *)
(* its deadline has passed.                                                *)
RunIsBounded == \A c \in Callers : c \in expired ~> c \notin expired
=============================================================================
