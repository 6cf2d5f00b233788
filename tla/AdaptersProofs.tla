--------------------------- MODULE AdaptersProofs ---------------------------
(***************************************************************************)
(* Theorems about Adapters for every provider type, every set of callers,  *)
(* projects and addresses, and any number of rebuilds of the account.      *)
(***************************************************************************)
EXTENDS Adapters, TLAPS

CallerStep(c) ==
  BeginRun(c) \/ BeginAttach(c) \/ Engine(c) \/ EnterClient(c) \/ Answered(c) \/ Expire(c)

(* Every step is one of the registry, of a caller, or of a task.           *)
LEMMA NextCases ==
  ASSUME [Next]_vars
  PROVE  \/ \E p \in Projects : Rebuild(p)
         \/ Drop
         \/ \E c \in Callers : CallerStep(c)
         \/ \E x \in Resources : TaskCompletes(x)
         \/ UNCHANGED vars
BY DEF Next, CallerStep

-----------------------------------------------------------------------------
(* Types. That an error names an address needs that a release has one in   *)
(* its hand.                                                               *)

CallInv ==
  \A c \in Callers :
    /\ pc[c] = "idle" <=> acc[c] = 0
    /\ pc[c] \in {"idle", "ready"} <=> op[c] = "none"
    /\ pc[c] \in {"lock", "auth"} => typ \in OpenStackTypes
    /\ hand[c] # NoIP => pc[c] = "ready" \/ op[c] = "release"
    /\ op[c] = "release" => hand[c] # NoIP
    /\ typ \in StubTypes => op[c] = "none" /\ hand[c] = NoIP

(* What the statements of a call do to its locals keeps their types.       *)
LEMMA LocalsType ==
  ASSUME TypeOK, NEW c \in Callers
  PROVE  /\ Return(c) => /\ pc' \in [Callers -> {"idle", "ready", "lock", "auth", "request"}]
                         /\ op' \in [Callers -> {"none", "allocate", "release", "attach"}]
                         /\ acc' \in [Callers -> 0..built]
                         /\ hand' \in [Callers -> Allocated \cup {NoIP}]
                         /\ expired' \in SUBSET Callers
         /\ \A ip \in Allocated \cup {NoIP} : Answer(c, ip) =>
                         /\ pc' \in [Callers -> {"idle", "ready", "lock", "auth", "request"}]
                         /\ op' \in [Callers -> {"none", "allocate", "release", "attach"}]
                         /\ acc' \in [Callers -> 0..built]
                         /\ hand' \in [Callers -> Allocated \cup {NoIP}]
                         /\ expired' \in SUBSET Callers
<1>1. built \in Nat /\ 0 \in 0..built
  BY AdaptersAssumption DEF TypeOK
<1>. QED
  BY <1>1 DEF TypeOK, Return, Answer, Goto

(* An answer that is usable names the address that was created.            *)
LEMMA ClaimedType ==
  ASSUME NEW x \in Resources, NEW f \in Fields, Usable(f)
  PROVE  /\ Claimed(x, f) \in Allocated
         /\ Claimed(x, f).addr = x
         /\ Claimed(x, f) # NoIP
BY AdaptersAssumption DEF Claimed, Fields, Usable, Allocated, NoIP

(* A caller that is in a run or in a call holds an adapter that was built. *)
LEMMA AdapterOfCaller ==
  ASSUME TypeOK, CallInv, NEW c \in Callers, pc[c] # "idle"
  PROVE  acc[c] \in 1..built /\ acc[c] \in AdapterIds
BY AdaptersAssumption DEF TypeOK, CallInv, AdapterIds

(* Every variable keeps its type.                                          *)
LEMMA TypeStep ==
  ASSUME TypeOK, CallInv, [Next]_vars
  PROVE  TypeOK'
<1>0. MaxAdapters \in Nat /\ built \in 0..MaxAdapters /\ built \in Nat
  BY AdaptersAssumption DEF TypeOK
<1>1. ASSUME NEW p \in Projects, Rebuild(p) PROVE TypeOK'
  <2>1. built + 1 \in AdapterIds /\ 0..built \subseteq 0..(built + 1)
    BY <1>0, <1>1 DEF Rebuild, AdapterIds
  <2>. QED
    BY <1>0, <1>1, <2>1 DEF Rebuild, TypeOK, callerVars, cloudVars
<1>2. CASE Drop
  BY <1>0, <1>2 DEF Drop, TypeOK, callerVars, cloudVars
<1>3. ASSUME NEW c \in Callers, CallerStep(c) PROVE TypeOK'
  <2>. USE <1>0 DEF adapterVars, callerVars, cloudVars, Goto
  <2>1. CASE BeginRun(c) \/ BeginAttach(c)
    BY <2>1 DEF BeginRun, BeginAttach, Call, TypeOK
  <2>2. CASE Allocate(c) \/ Release(c) \/ Expire(c)
    <3>1. CASE Allocate(c)
      BY <3>1 DEF Allocate, Call, TypeOK
    <3>2. CASE Release(c)
      BY <3>2 DEF Release, Call, TypeOK
    <3>3. CASE Expire(c)
      BY <3>3 DEF Expire, TypeOK
    <3>. QED
      BY <2>2, <3>1, <3>2, <3>3
  <2>3. CASE EnterClient(c) \/ AuthSucceeds(c)
    <3>1. CASE EnterClient(c)
      BY <3>1 DEF EnterClient, TypeOK
    <3>2. CASE AuthSucceeds(c)
      BY <3>2 DEF AuthSucceeds, TypeOK
    <3>. QED
      BY <2>3, <3>1, <3>2
  <2>4. CASE AllocateUnsupported(c) \/ Finish(c) \/ AttachAnswered(c)
    BY <2>4, LocalsType DEF AllocateUnsupported, Finish, AttachAnswered, TypeOK
  <2>5. CASE Keep(c)
    BY <2>5, LocalsType DEF Keep, TypeOK, Allocated, NoIP
  <2>6. CASE AuthFails(c)
    <3>1. op[c] = "release" => hand[c].addr \in Resources
      BY DEF TypeOK, CallInv, Allocated
    <3>2. NoIP \in Allocated \cup {NoIP}
      OBVIOUS
    <3>3. told' \in SUBSET Resources /\ mu' \in [AdapterIds -> Callers \cup {None}]
      BY <2>6, <3>1 DEF AuthFails, FailsEarly, TypeOK
    <3>. QED
      BY <2>6, <3>2, <3>3, LocalsType DEF AuthFails, FailsEarly, TypeOK
  <2>7. CASE AllocateSucceeds(c)
    <3>1. PICK x \in Resources, f \in Fields : Usable(f) /\ Creates(c, x) /\ Answer(c, Claimed(x, f))
      BY <2>7 DEF AllocateSucceeds
    <3>2. project[acc[c]] \in Projects \cup {None}
      BY <2>7, AdapterOfCaller DEF AllocateSucceeds, At, TypeOK
    <3>3. home' \in [Resources -> Projects \cup {None}] /\ used' \in SUBSET Resources
      BY <3>1, <3>2 DEF Creates, TypeOK
    <3>4. UNCHANGED <<typ, adapterVars, mu, kept, pending, told>>
      BY <2>7 DEF AllocateSucceeds
    <3>. QED
      BY <3>1, <3>3, <3>4, LocalsType, ClaimedType DEF TypeOK
  <2>8. CASE AllocateUnreadable(c) \/ AllocateFails(c)
    <3>1. /\ home' \in [Resources -> Projects \cup {None}]
          /\ used' \in SUBSET Resources /\ pending' \in SUBSET Resources
          /\ told' \in SUBSET Resources
      <4>1. project[acc[c]] \in Projects \cup {None}
        BY <2>8, AdapterOfCaller DEF AllocateUnreadable, AllocateFails, At, TypeOK
      <4>. QED
        BY <2>8, <4>1 DEF AllocateUnreadable, AllocateFails, CreatedUnheard, Creates, TypeOK
    <3>2. Return(c) \/ Answer(c, NoIP)
      BY <2>8 DEF AllocateUnreadable, AllocateFails
    <3>3. UNCHANGED <<typ, adapterVars, mu, kept>>
      BY <2>8 DEF AllocateUnreadable, AllocateFails
    <3>. QED
      BY <3>1, <3>2, <3>3, LocalsType DEF TypeOK
  <2>9. CASE ReleaseAnswered(c)
    <3>1. hand[c].addr \in Resources
      BY <2>9 DEF ReleaseAnswered, At, TypeOK, CallInv, Allocated
    <3>2. home' \in [Resources -> Projects \cup {None}] /\ told' \in SUBSET Resources
      BY <2>9, <3>1 DEF ReleaseAnswered, Deletes, TypeOK
    <3>3. Answer(c, NoIP) /\ UNCHANGED <<typ, adapterVars, mu, kept, used, pending>>
      BY <2>9 DEF ReleaseAnswered
    <3>. QED
      BY <3>2, <3>3, LocalsType DEF TypeOK
  <2>. QED
    BY <1>3, <2>1, <2>2, <2>3, <2>4, <2>5, <2>6, <2>7, <2>8, <2>9
       DEF CallerStep, Engine, Answered
<1>4. ASSUME NEW x \in Resources, TaskCompletes(x) PROVE TypeOK'
  BY <1>4 DEF TaskCompletes, TypeOK, adapterVars, callerVars
<1>5. CASE UNCHANGED vars
  BY <1>5 DEF vars, TypeOK, adapterVars, callerVars, cloudVars
<1>. QED
  BY <1>1, <1>2, <1>3, <1>4, <1>5, NextCases
(* The steps of a call keep what its program counter says of its locals.   *)
LEMMA CallStep ==
  ASSUME TypeOK, CallInv, [Next]_vars
  PROVE  CallInv'
<1>1. ASSUME NEW p \in Projects, Rebuild(p) PROVE CallInv'
  BY <1>1 DEF Rebuild, CallInv, callerVars
<1>2. CASE Drop
  BY <1>2 DEF Drop, CallInv, callerVars
<1>3. ASSUME NEW c \in Callers, CallerStep(c) PROVE CallInv'
  <2>. USE DEF adapterVars, callerVars, Goto
  <2>0. typ' = typ
    BY <1>3 DEF CallerStep, Engine, Answered, BeginRun, BeginAttach, Allocate, Release, Keep,
         Finish, AllocateUnsupported, EnterClient, AuthSucceeds, AuthFails, AllocateSucceeds,
         AllocateUnreadable, AllocateFails, ReleaseAnswered, AttachAnswered, Expire
  <2>1. CASE BeginRun(c) \/ BeginAttach(c) \/ Allocate(c) \/ Release(c)
    BY <2>1 DEF BeginRun, BeginAttach, Allocate, Release, Call, TypeOK, CallInv,
         OpenStackTypes, StubTypes
  <2>2. CASE EnterClient(c) \/ AuthSucceeds(c) \/ Expire(c)
    BY <2>2 DEF EnterClient, AuthSucceeds, Expire, TypeOK, CallInv
  <2>3. Return(c) => CallInv'
    BY <2>0 DEF Return, TypeOK, CallInv
  <2>4. ASSUME NEW ip \in Allocated \cup {NoIP}, Answer(c, ip), pc[c] \notin {"idle", "ready"}
        PROVE  CallInv'
    BY <2>0, <2>4 DEF Answer, TypeOK, CallInv
  <2>5. CASE AllocateSucceeds(c)
    BY <2>5, <2>4, ClaimedType DEF AllocateSucceeds, At
  <2>6. CASE \/ AllocateUnsupported(c) \/ Keep(c) \/ Finish(c) \/ AuthFails(c)
             \/ AllocateUnreadable(c) \/ AllocateFails(c)
             \/ ReleaseAnswered(c) \/ AttachAnswered(c)
    BY <2>6, <2>3, <2>4 DEF AllocateUnsupported, Keep, Finish, AuthFails, FailsEarly,
         AllocateUnreadable, AllocateFails, ReleaseAnswered, AttachAnswered, At
  <2>. QED
    BY <1>3, <2>1, <2>2, <2>5, <2>6 DEF CallerStep, Engine, Answered
<1>4. ASSUME NEW x \in Resources, TaskCompletes(x) PROVE CallInv'
  BY <1>4 DEF TaskCompletes, CallInv, callerVars
<1>5. CASE UNCHANGED vars
  BY <1>5 DEF vars, CallInv, callerVars
<1>. QED
  BY <1>1, <1>2, <1>3, <1>4, <1>5, NextCases

-----------------------------------------------------------------------------
(* The OpenStack client. That an adapter authenticates once needs that the *)
(* mutex is held by whoever authenticates.                                 *)

ClientInv ==
  \A c \in Callers :
    /\ pc[c] = "auth" => mu[acc[c]] = c /\ ~net[acc[c]]
    /\ pc[c] = "request" /\ typ \in OpenStackTypes => net[acc[c]]

(* A step that moves one caller out of authentication and touches neither  *)
(* mutex nor client.                                                       *)
LEMMA ClientFrame ==
  ASSUME ClientInv, NEW c \in Callers, UNCHANGED <<typ, net, mu>>,
         pc'[c] # "auth", pc'[c] = "request" => typ \notin OpenStackTypes,
         \A d \in Callers \ {c} : pc'[d] = pc[d] /\ acc'[d] = acc[d]
  PROVE  ClientInv'
BY DEF ClientInv

(* Every step keeps clients and mutexes in order.                          *)
LEMMA ClientStep ==
  ASSUME TypeOK, CallInv, ClientInv, [Next]_vars
  PROVE  ClientInv'
<1>1. ASSUME NEW p \in Projects, Rebuild(p) PROVE ClientInv'
  BY <1>1 DEF Rebuild, ClientInv, callerVars
<1>2. CASE Drop
  BY <1>2 DEF Drop, ClientInv, callerVars
<1>3. ASSUME NEW c \in Callers, CallerStep(c) PROVE ClientInv'
  <2>. USE DEF adapterVars, callerVars
  <2>1. CASE \/ BeginRun(c) \/ BeginAttach(c) \/ Allocate(c) \/ Release(c)
             \/ AllocateUnsupported(c) \/ Keep(c) \/ Finish(c)
             \/ AllocateSucceeds(c) \/ AllocateUnreadable(c) \/ AllocateFails(c)
             \/ ReleaseAnswered(c) \/ AttachAnswered(c)
    <3>1. /\ UNCHANGED <<typ, net, mu>>
          /\ \A d \in Callers \ {c} : pc'[d] = pc[d] /\ acc'[d] = acc[d]
          /\ \/ pc'[c] \in {"idle", "ready", "lock"}
             \/ typ \notin OpenStackTypes /\ pc'[c] = "request"
      <4>1. CASE BeginRun(c) \/ Allocate(c) \/ Release(c) \/ BeginAttach(c)
        <5>1. CASE BeginRun(c)
          BY <5>1 DEF BeginRun, Goto, TypeOK
        <5>2. CASE Allocate(c) \/ Release(c)
          BY <5>2 DEF Allocate, Release, Call, Goto, TypeOK
        <5>3. CASE BeginAttach(c)
          BY <5>3 DEF BeginAttach, Call, Goto, TypeOK
        <5>. QED
          BY <4>1, <5>1, <5>2, <5>3
      <4>2. ASSUME Return(c) \/ \E ip \in Allocated \cup {NoIP} : Answer(c, ip)
            PROVE  /\ \A d \in Callers \ {c} : pc'[d] = pc[d] /\ acc'[d] = acc[d]
                   /\ pc'[c] \in {"idle", "ready"}
        BY <4>2 DEF Return, Answer, Goto, TypeOK
      <4>3. CASE \/ AllocateUnsupported(c) \/ Keep(c) \/ Finish(c)
                 \/ AllocateSucceeds(c) \/ AllocateUnreadable(c) \/ AllocateFails(c)
                 \/ ReleaseAnswered(c) \/ AttachAnswered(c)
        <5>1. Return(c) \/ \E ip \in Allocated \cup {NoIP} : Answer(c, ip)
          BY <4>3, ClaimedType DEF AllocateUnsupported, Keep, Finish, AllocateSucceeds,
               AllocateUnreadable, AllocateFails, ReleaseAnswered, AttachAnswered
        <5>2. UNCHANGED <<typ, net, mu>>
          BY <4>3 DEF AllocateUnsupported, Keep, Finish, AllocateSucceeds, AllocateUnreadable,
               AllocateFails, ReleaseAnswered, AttachAnswered
        <5>. QED
          BY <4>2, <5>1, <5>2
      <4>. QED
        BY <2>1, <4>1, <4>3
    <3>. QED
      BY <3>1, ClientFrame
  <2>2. CASE EnterClient(c)
    <3>1. acc[c] \in AdapterIds /\ typ' = typ /\ net' = net /\ acc' = acc
      BY <2>2, AdapterOfCaller DEF EnterClient
    <3>2. CASE net[acc[c]] /\ Goto(c, "request") /\ mu' = mu
      BY <3>1, <3>2 DEF Goto, TypeOK, ClientInv
    <3>3. CASE ~net[acc[c]] /\ Goto(c, "auth") /\ mu' = [mu EXCEPT ![acc[c]] = c]
      <4>1. \A d \in Callers : pc[d] = "auth" => acc[d] # acc[c]
        BY <2>2, AdaptersAssumption DEF EnterClient, ClientInv
      <4>2. \A d \in Callers \ {c} : pc[d] = "auth" => mu'[acc[d]] = mu[acc[d]]
        BY <3>3, <4>1, AdapterOfCaller DEF TypeOK
      <4>. QED
        BY <3>1, <3>3, <4>2 DEF Goto, TypeOK, ClientInv
    <3>. QED
      BY <2>2, <3>2, <3>3 DEF EnterClient
  <2>3. CASE AuthSucceeds(c)
    <3>1. acc[c] \in AdapterIds /\ typ' = typ /\ acc' = acc
      BY <2>3, AdapterOfCaller DEF AuthSucceeds
    <3>2. \A d \in Callers \ {c} : pc[d] = "auth" => acc[d] # acc[c]
      BY <2>3 DEF AuthSucceeds, ClientInv
    <3>3. \A d \in Callers \ {c} : pc[d] = "auth" =>
            mu'[acc[d]] = mu[acc[d]] /\ net'[acc[d]] = net[acc[d]]
      BY <2>3, <3>2, AdapterOfCaller DEF AuthSucceeds, TypeOK
    <3>4. net'[acc[c]] = TRUE /\ \A a \in AdapterIds : net[a] => net'[a]
      BY <2>3, <3>1 DEF AuthSucceeds, TypeOK
    <3>5. \A d \in Callers : pc[d] = "request" => acc[d] \in AdapterIds
      BY AdapterOfCaller
    <3>. QED
      BY <2>3, <3>1, <3>3, <3>4, <3>5 DEF AuthSucceeds, Goto, TypeOK, ClientInv
  <2>4. CASE AuthFails(c)
    <3>1. acc[c] \in AdapterIds /\ typ' = typ /\ net' = net
      BY <2>4, AdapterOfCaller DEF AuthFails
    <3>2. \A d \in Callers \ {c} : pc[d] = "auth" => acc[d] # acc[c]
      BY <2>4 DEF AuthFails, ClientInv
    <3>3. \A d \in Callers \ {c} : pc[d] = "auth" => mu'[acc[d]] = mu[acc[d]]
      BY <2>4, <3>2, AdapterOfCaller DEF AuthFails, TypeOK
    <3>4. /\ \A d \in Callers \ {c} : pc'[d] = pc[d] /\ acc'[d] = acc[d]
          /\ pc'[c] \in {"idle", "ready"}
      BY <2>4 DEF AuthFails, FailsEarly, Return, Answer, Goto, TypeOK
    <3>. QED
      BY <3>1, <3>3, <3>4 DEF ClientInv
  <2>5. CASE Expire(c)
    BY <2>5 DEF Expire, ClientInv
  <2>. QED
    BY <1>3, <2>1, <2>2, <2>3, <2>4, <2>5 DEF CallerStep, Engine, Answered
<1>4. ASSUME NEW x \in Resources, TaskCompletes(x) PROVE ClientInv'
  BY <1>4 DEF TaskCompletes, ClientInv, adapterVars, callerVars
<1>5. CASE UNCHANGED vars
  BY <1>5 DEF vars, ClientInv, adapterVars, callerVars
<1>. QED
  BY <1>1, <1>2, <1>3, <1>4, <1>5, NextCases
-----------------------------------------------------------------------------
(* The addresses. That a release finds its address needs that no two       *)
(* callers hold one address, that what is in a hand is nobody's match, and *)
(* that the project of an adapter never changes.                           *)

HandInv ==
  /\ \A a \in 1..built : project[a] \in Projects
  /\ kept \subseteq used
  /\ \A c \in Callers : hand[c] # NoIP =>
       /\ hand[c].addr \in used \ kept
       /\ home[hand[c].addr] = project[acc[c]]
  /\ \A c, d \in Callers :
       hand[c] # NoIP /\ hand[d] # NoIP /\ hand[c].addr = hand[d].addr => c = d

Accounted == \A x \in used : home[x] # None => x \in kept \cup InHand \cup told

AddressInv == HandInv /\ Accounted

\* What the ledger allows a step to do to the addresses.
FateMoves ==
  \A x \in Resources : FateOf(x)' = FateOf(x) \/ <<FateOf(x), FateOf(x)'>> \in Ledger!Moves

AddressOK == AddressInv' /\ FateMoves

(* What is in a hand is an address that was handed out, and whose project  *)
(* is that of the adapter.                                                 *)
LEMMA HandOfCaller ==
  ASSUME TypeOK, CallInv, HandInv, NEW c \in Callers, hand[c] # NoIP
  PROVE  /\ hand[c].addr \in Resources
         /\ hand[c].addr \in used
         /\ hand[c].addr \notin kept
         /\ home[hand[c].addr] = project[acc[c]]
         /\ home[hand[c].addr] # None
         /\ pc[c] # "idle"
<1>1. hand[c] \in Allocated
  BY DEF TypeOK
<1>2. pc[c] # "idle"
  BY DEF CallInv
<1>3. project[acc[c]] \in Projects
  BY <1>2, AdapterOfCaller DEF HandInv
<1>. QED
  BY <1>1, <1>2, <1>3, AdaptersAssumption DEF Allocated, HandInv

(* The addresses in hand are those of the hands that are not empty.        *)
LEMMA InHandIs ==
  ASSUME TypeOK, NEW x \in Resources
  PROVE  x \in InHand <=> \E c \in Callers : hand[c] # NoIP /\ hand[c].addr = x
<1>1. \A c \in Callers : hand[c] = NoIP \/ hand[c] \in Allocated
  BY DEF TypeOK
<1>2. NoIP.addr = None /\ x # None
  BY AdaptersAssumption DEF NoIP
<1>. QED
  BY <1>1, <1>2 DEF InHand

(* The same of the next state.                                             *)
LEMMA InHandNextIs ==
  ASSUME TypeOK', NEW x \in Resources
  PROVE  x \in InHand' <=> \E c \in Callers : hand'[c] # NoIP /\ hand'[c].addr = x
<1>1. \A c \in Callers : hand'[c] = NoIP \/ hand'[c] \in Allocated
  BY DEF TypeOK
<1>2. NoIP.addr = None /\ x # None
  BY AdaptersAssumption DEF NoIP
<1>. QED
  BY <1>1, <1>2 DEF InHand

(* A step that leaves every address and every hand as it is.               *)
LEMMA AddressFrame ==
  ASSUME TypeOK, CallInv, AddressInv, UNCHANGED <<hand, kept, used, home, told>>,
         \A c \in Callers : hand[c] # NoIP => acc'[c] = acc[c],
         built' >= built, \A a \in 1..built : project'[a] = project[a],
         \A a \in 1..built' : a \in 1..built \/ project'[a] \in Projects
  PROVE  AddressOK
<1>1. \A c \in Callers : hand[c] # NoIP => acc[c] \in 1..built
  BY AdapterOfCaller, HandOfCaller DEF AddressInv
<1>2. InHand' = InHand
  BY DEF InHand
<1>3. HandInv'
  BY <1>1 DEF AddressInv, HandInv
<1>4. AddressInv'
  BY <1>2, <1>3 DEF AddressInv, Accounted
<1>5. FateMoves
  BY <1>2 DEF FateMoves, FateOf
<1>. QED
  BY <1>4, <1>5 DEF AddressOK

(* A step at whose end the hand of c is empty; what was in it is a match,  *)
(* gone, or told of.                                                       *)
LEMMA PutDown ==
  ASSUME TypeOK, TypeOK', CallInv, AddressInv, NEW c \in Callers,
         hand' = [hand EXCEPT ![c] = NoIP],
         \A d \in Callers \ {c} : acc'[d] = acc[d],
         UNCHANGED <<project, built, used>>,
         kept \subseteq kept', told \subseteq told',
         \A x \in told' \ told : hand[c] # NoIP /\ x = hand[c].addr,
         \A x \in kept' \ kept : hand[c] # NoIP /\ x = hand[c].addr,
         \A x \in Resources : home'[x] # home[x] => hand[c] # NoIP /\ x = hand[c].addr,
         hand[c] # NoIP => LET x == hand[c].addr IN home'[x] = None \/ x \in kept' \cup told'
  PROVE  AddressOK
<1>1. hand'[c] = NoIP /\ \A d \in Callers \ {c} : hand'[d] = hand[d]
  BY DEF TypeOK
<1>2. \A d \in Callers \ {c} : hand[d] # NoIP =>
        hand[c] = NoIP \/ hand[d].addr # hand[c].addr
  BY DEF AddressInv, HandInv
<1>3. HandInv'
  <2>1. kept' \subseteq used'
    BY HandOfCaller DEF AddressInv, HandInv
  <2>2. ASSUME NEW d \in Callers, hand'[d] # NoIP
        PROVE  hand'[d].addr \in used' \ kept' /\ home'[hand'[d].addr] = project'[acc'[d]]
    <3>1. d # c /\ hand'[d] = hand[d] /\ acc'[d] = acc[d]
      BY <1>1, <2>2
    <3>2. hand[d].addr \in Resources /\ hand[d].addr \in used \ kept
          /\ home[hand[d].addr] = project[acc[d]]
      BY <2>2, <3>1, HandOfCaller DEF AddressInv
    <3>. QED
      BY <1>2, <2>2, <3>1, <3>2
  <2>. QED
    BY <1>1, <2>1, <2>2 DEF AddressInv, HandInv
<1>4. Accounted'
  <2>. SUFFICES ASSUME NEW x \in used, home'[x] # None
                PROVE  x \in kept' \cup InHand' \cup told'
    BY DEF Accounted
  <2>0. x \in Resources
    BY DEF TypeOK
  <2>1. CASE hand[c] # NoIP /\ x = hand[c].addr
    BY <2>1
  <2>2. CASE ~(hand[c] # NoIP /\ x = hand[c].addr)
    <3>1. home[x] # None
      BY <2>0, <2>2
    <3>2. CASE x \in kept \cup told
      BY <3>2
    <3>3. CASE x \in InHand
      <4>1. PICK d \in Callers : hand[d] # NoIP /\ hand[d].addr = x
        BY <2>0, <3>3, InHandIs
      <4>2. hand'[d] = hand[d]
        BY <1>1, <2>2, <4>1
      <4>. QED
        BY <4>1, <4>2 DEF InHand
    <3>. QED
      BY <3>1, <3>2, <3>3 DEF AddressInv, Accounted
  <2>. QED
    BY <2>1, <2>2
<1>5. FateMoves
  <2>. SUFFICES ASSUME NEW x \in Resources
                PROVE  FateOf(x)' = FateOf(x) \/ <<FateOf(x), FateOf(x)'>> \in Ledger!Moves
    BY DEF FateMoves
  <2>1. CASE hand[c] # NoIP /\ x = hand[c].addr
    <3>1. FateOf(x) = "held"
      BY <2>1, HandOfCaller, InHandIs DEF FateOf, AddressInv
    <3>2. x \notin InHand'
      BY <1>1, <1>2, <2>1, InHandNextIs
    <3>3. FateOf(x)' \in {"released", "kept", "lost"}
      BY <2>1, <3>2, HandOfCaller DEF FateOf, AddressInv
    <3>. QED
      BY <3>1, <3>3 DEF Ledger!Moves, Ledger!Released, Ledger!Kept, Ledger!Lost
  <2>2. CASE ~(hand[c] # NoIP /\ x = hand[c].addr)
    <3>1. x \in InHand' <=> x \in InHand
      BY <1>1, <2>2, InHandIs, InHandNextIs
    <3>2. home'[x] = home[x] /\ (x \in kept' <=> x \in kept) /\ (x \in told' <=> x \in told)
      BY <2>2
    <3>. QED
      BY <3>1, <3>2 DEF FateOf
  <2>. QED
    BY <2>1, <2>2
<1>. QED
  BY <1>3, <1>4, <1>5 DEF AddressInv, AddressOK
(* A step that creates an address and puts it into the empty hand of c, or *)
(* tells of it.                                                            *)
LEMMA Created ==
  ASSUME TypeOK, TypeOK', CallInv, AddressInv, NEW c \in Callers, NEW x \in Resources,
         pc[c] # "idle", hand[c] = NoIP, Creates(c, x),
         NEW ip \in Allocated \cup {NoIP}, hand' = [hand EXCEPT ![c] = ip],
         ip = NoIP \/ ip.addr = x,
         ip = NoIP => x \in told',
         ip # NoIP => acc'[c] = acc[c],
         \A d \in Callers \ {c} : acc'[d] = acc[d],
         UNCHANGED <<project, built, kept>>, told \subseteq told', told' \subseteq told \cup {x}
  PROVE  AddressOK
<1>1. hand'[c] = ip /\ \A d \in Callers \ {c} : hand'[d] = hand[d]
  BY DEF TypeOK
<1>2. /\ x \notin used /\ used' = used \cup {x} /\ x \notin kept
      /\ home'[x] = project[acc[c]]
      /\ \A y \in Resources \ {x} : home'[y] = home[y]
  BY DEF Creates, TypeOK, AddressInv, HandInv
<1>3. \A d \in Callers : hand[d] # NoIP => hand[d].addr # x /\ hand[d].addr \in Resources
  BY <1>2, HandOfCaller DEF AddressInv
<1>4. HandInv'
  BY <1>1, <1>2, <1>3 DEF AddressInv, HandInv
<1>5. Accounted'
  <2>. SUFFICES ASSUME NEW y \in used', home'[y] # None
                PROVE  y \in kept' \cup InHand' \cup told'
    BY DEF Accounted
  <2>1. CASE y = x
    BY <1>1, <2>1 DEF InHand
  <2>2. CASE y # x
    <3>1. y \in Resources /\ y \in used /\ home[y] # None
      BY <1>2, <2>2 DEF TypeOK
    <3>2. CASE y \in InHand
      <4>1. PICK d \in Callers : hand[d] # NoIP /\ hand[d].addr = y
        BY <3>1, <3>2, InHandIs
      <4>2. hand'[d] = hand[d]
        BY <1>1, <4>1
      <4>. QED
        BY <4>1, <4>2 DEF InHand
    <3>. QED
      BY <3>1, <3>2 DEF AddressInv, Accounted
  <2>. QED
    BY <2>1, <2>2
<1>6. FateMoves
  <2>. SUFFICES ASSUME NEW y \in Resources
                PROVE  FateOf(y)' = FateOf(y) \/ <<FateOf(y), FateOf(y)'>> \in Ledger!Moves
    BY DEF FateMoves
  <2>1. CASE y = x
    <3>1. FateOf(x) = "free"
      BY <1>2 DEF FateOf
    <3>2. home'[x] # None
      BY <1>2, AdapterOfCaller, AdaptersAssumption DEF AddressInv, HandInv
    <3>3. x \in InHand' \/ x \in told'
      BY <1>1 DEF InHand
    <3>4. FateOf(x)' \in {"held", "lost"}
      BY <1>2, <3>2, <3>3 DEF FateOf
    <3>. QED
      BY <2>1, <3>1, <3>4 DEF Ledger!Moves, Ledger!Obtained, Ledger!CreatedUnheard
  <2>2. CASE y # x
    <3>1. y \in InHand' <=> y \in InHand
      BY <1>1, <2>2, InHandIs, InHandNextIs
    <3>2. /\ home'[y] = home[y] /\ (y \in used' <=> y \in used)
          /\ (y \in told' <=> y \in told)
      BY <1>2, <2>2
    <3>. QED
      BY <3>1, <3>2 DEF FateOf
  <2>. QED
    BY <2>1, <2>2
<1>. QED
  BY <1>4, <1>5, <1>6 DEF AddressInv, AddressOK

(* What the end of a call leaves of its locals.                            *)
LEMMA EndOfCall ==
  ASSUME TypeOK, NEW c \in Callers
  PROVE  /\ Return(c) => /\ hand' = [hand EXCEPT ![c] = NoIP]
                         /\ \A d \in Callers \ {c} : acc'[d] = acc[d]
         /\ \A ip \in Allocated \cup {NoIP} : Answer(c, ip) =>
              hand' = [hand EXCEPT ![c] = ip] /\ acc' = acc
BY DEF TypeOK, Return, Answer

(* Every step keeps track of every address, and moves it as the ledger     *)
(* allows.                                                                 *)
LEMMA AddressStep ==
  ASSUME TypeOK, CallInv, AddressInv, [Next]_vars
  PROVE  AddressOK
<1>0. TypeOK' /\ built \in Nat
  BY TypeStep DEF TypeOK
<1>1. ASSUME NEW p \in Projects, Rebuild(p) PROVE AddressOK
  <2>1. /\ built' = built + 1
        /\ \A a \in 1..built : project'[a] = project[a]
        /\ \A a \in 1..built' : a \in 1..built \/ project'[a] \in Projects
    BY <1>0, <1>1, AdaptersAssumption DEF Rebuild, TypeOK, AdapterIds
  <2>2. UNCHANGED <<hand, kept, used, home, told, acc>>
    BY <1>1 DEF Rebuild, callerVars, cloudVars
  <2>. QED
    BY <1>0, <2>1, <2>2, AddressFrame
<1>2. ASSUME /\ UNCHANGED <<hand, kept, used, home, told, project, built>>
             /\ \A c \in Callers : hand[c] # NoIP => acc'[c] = acc[c]
      PROVE  AddressOK
  BY <1>0, <1>2, AddressFrame
<1>3. ASSUME NEW c \in Callers, CallerStep(c) PROVE AddressOK
  <2>. USE DEF adapterVars, callerVars, cloudVars
  <2>1. CASE BeginRun(c) \/ BeginAttach(c)
    BY <1>2, <2>1 DEF BeginRun, BeginAttach, TypeOK, CallInv
  <2>2. CASE Allocate(c) \/ Release(c) \/ EnterClient(c) \/ AuthSucceeds(c) \/ Expire(c)
    BY <1>2, <2>2 DEF Allocate, Release, EnterClient, AuthSucceeds, Expire
  <2>3. CASE AllocateUnsupported(c) \/ Finish(c) \/ AttachAnswered(c)
    <3>1. hand[c] = NoIP
      BY <2>3 DEF AllocateUnsupported, Finish, AttachAnswered, At, CallInv
    <3>. QED
      BY <1>0, <2>3, <3>1, EndOfCall, PutDown DEF AllocateUnsupported, Finish, AttachAnswered
  <2>4. CASE Keep(c)
    <3>1. hand[c] # NoIP /\ Return(c) /\ kept' = kept \cup {hand[c].addr}
          /\ UNCHANGED <<project, built, used, home, told>>
      BY <2>4 DEF Keep
    <3>. QED
      BY <1>0, <3>1, EndOfCall, PutDown
  <2>5. CASE AuthFails(c)
    <3>1. UNCHANGED <<project, built, used, home, kept>>
      BY <2>5 DEF AuthFails
    <3>2. CASE op[c] # "release" /\ Return(c) /\ told' = told
      <4>1. hand[c] = NoIP
        BY <2>5, <3>2 DEF AuthFails, CallInv
      <4>. QED
        BY <1>0, <3>1, <3>2, <4>1, EndOfCall, PutDown
    <3>3. CASE op[c] = "release" /\ Answer(c, NoIP) /\ told' = told \cup {hand[c].addr}
      <4>1. hand[c] # NoIP
        BY <3>3 DEF CallInv
      <4>. QED
        BY <1>0, <3>1, <3>3, <4>1, EndOfCall, PutDown
    <3>. QED
      BY <2>5, <3>2, <3>3 DEF AuthFails, FailsEarly
  <2>6. CASE AllocateSucceeds(c)
    <3>1. PICK x \in Resources, f \in Fields : Usable(f) /\ Creates(c, x) /\ Answer(c, Claimed(x, f))
      BY <2>6 DEF AllocateSucceeds
    <3>2. hand[c] = NoIP /\ pc[c] # "idle"
      BY <2>6 DEF AllocateSucceeds, At, CallInv
    <3>3. UNCHANGED <<project, built, kept, told>>
      BY <2>6 DEF AllocateSucceeds
    <3>4. /\ Claimed(x, f) \in Allocated /\ Claimed(x, f).addr = x /\ Claimed(x, f) # NoIP
          /\ hand' = [hand EXCEPT ![c] = Claimed(x, f)] /\ acc' = acc
      BY <3>1, ClaimedType, EndOfCall
    <3>. QED
      BY <1>0, <3>1, <3>2, <3>3, <3>4, Created
  <2>7. CASE AllocateUnreadable(c) \/ AllocateFails(c)
    <3>1. hand[c] = NoIP /\ pc[c] # "idle"
      BY <2>7 DEF AllocateUnreadable, AllocateFails, At, CallInv
    <3>2. /\ hand' = [hand EXCEPT ![c] = NoIP]
          /\ \A d \in Callers \ {c} : acc'[d] = acc[d]
          /\ UNCHANGED <<project, built, kept>>
      BY <2>7, EndOfCall DEF AllocateUnreadable, AllocateFails
    <3>3. CASE CreatedUnheard(c)
      <4>1. PICK x \in Resources : Creates(c, x) /\ told' = told \cup {x}
        BY <3>3 DEF CreatedUnheard
      <4>. QED
        BY <1>0, <3>1, <3>2, <4>1, Created
    <3>4. CASE UNCHANGED <<used, home, pending, told>>
      BY <1>0, <3>1, <3>2, <3>4, PutDown
    <3>. QED
      BY <2>7, <3>3, <3>4 DEF AllocateUnreadable, AllocateFails
  <2>8. CASE ReleaseAnswered(c)
    <3>1. hand[c] # NoIP /\ hand[c].addr \in Resources
      BY <2>8, HandOfCaller DEF ReleaseAnswered, At, CallInv, AddressInv
    <3>2. /\ hand' = [hand EXCEPT ![c] = NoIP] /\ acc' = acc
          /\ UNCHANGED <<project, built, kept, used>>
      BY <2>8, EndOfCall DEF ReleaseAnswered
    <3>3. PICK status \in Statuses :
            /\ Deletes(c, status)
            /\ told' = IF NilError(status) \/ home'[hand[c].addr] = None
                       THEN told ELSE told \cup {hand[c].addr}
      BY <2>8 DEF ReleaseAnswered
    <3>4. /\ \A y \in Resources : home'[y] # home[y] => y = hand[c].addr
          /\ NilError(status) => home'[hand[c].addr] = None
      BY <3>1, <3>3 DEF Deletes, NilError, TypeOK
    <3>5. /\ told \subseteq told' /\ told' \subseteq told \cup {hand[c].addr}
          /\ home'[hand[c].addr] = None \/ hand[c].addr \in told'
      BY <3>3, <3>4
    <3>. QED
      BY <1>0, <3>1, <3>2, <3>4, <3>5, PutDown
  <2>. QED
    BY <1>3, <2>1, <2>2, <2>3, <2>4, <2>5, <2>6, <2>7, <2>8 DEF CallerStep, Engine, Answered
<1>4. CASE Drop \/ (\E x \in Resources : TaskCompletes(x)) \/ UNCHANGED vars
  BY <1>2, <1>4 DEF Drop, TaskCompletes, vars, adapterVars, callerVars, cloudVars
<1>. QED
  BY <1>1, <1>3, <1>4, NextCases
-----------------------------------------------------------------------------
(* The theorems.                                                           *)

AdaptersInv == TypeOK /\ CallInv /\ ClientInv /\ AddressInv

(* The inductive invariant of the adapters.                                *)
LEMMA AdaptersInvariant == Spec => []AdaptersInv
<1>1. Init => AdaptersInv
  <2>. SUFFICES ASSUME Init PROVE AdaptersInv
    OBVIOUS
  <2>1. TypeOK
    BY AdaptersAssumption DEF Init, TypeOK
  <2>2. CallInv /\ ClientInv
    BY DEF Init, CallInv, ClientInv
  <2>3. AddressInv
    BY DEF Init, AddressInv, HandInv, Accounted
  <2>. QED
    BY <2>1, <2>2, <2>3 DEF AdaptersInv
<1>2. AdaptersInv /\ [Next]_vars => AdaptersInv'
  BY TypeStep, CallStep, ClientStep, AddressStep DEF AdaptersInv, AddressOK
<1>. QED
  BY <1>1, <1>2, PTL DEF Spec

(* Every variable of the adapters and their callers keeps its type.        *)
THEOREM AdaptersTypeCorrect == Spec => []TypeOK
<1>1. AdaptersInv => TypeOK
  BY DEF AdaptersInv
<1>. QED
  BY <1>1, AdaptersInvariant, PTL

(* However often the account is edited or deleted during a run, what the   *)
(* run obtained is released with the credentials that created it           *)
(* (handlers.go:778, roller.go:120).                                       *)
THEOREM ReleaseFindsItsAddress == Spec => []ReleasesGoHome
<1>1. AdaptersInv => ReleasesGoHome
  BY DEF AdaptersInv, CallInv, AddressInv, HandInv, ReleasesGoHome
<1>. QED
  BY <1>1, AdaptersInvariant, PTL

(* However many calls race on a new OpenStack adapter, it authenticates    *)
(* once at a time and only while it has no client (vkcloud.go:49).         *)
THEOREM ClientBuiltOnce == Spec => []OneClient
<1>1. AdaptersInv => OneClient
  BY DEF AdaptersInv, ClientInv, OneClient
<1>. QED
  BY <1>1, AdaptersInvariant, PTL

(* Whatever the provider answers, whoever calls and however the registry   *)
(* changes, what the adapters do to the addresses is a behaviour of the    *)
(* ledger (provider.go:24-29).                                             *)
THEOREM AdaptersKeepLedger == Spec => ImplementsLedger
<1>1. Init => Ledger!Init
  BY DEF Init, Ledger!Init, Fate, FateOf
<1>2. AdaptersInv /\ [Next]_vars => [Ledger!Next]_Fate
  <2>. SUFFICES ASSUME AdaptersInv, [Next]_vars PROVE Ledger!Next
    OBVIOUS
  <2>1. AddressOK
    BY AddressStep DEF AdaptersInv
  <2>2. Accounted'
    BY <2>1 DEF AddressOK, AddressInv
  <2>3. ASSUME NEW x \in Resources PROVE FateOf(x)' \in Ledger!Fates
    BY <2>2 DEF Accounted, FateOf, Ledger!Fates
  <2>4. Fate' \in [Resources -> Ledger!Fates]
    BY <2>3 DEF Fate
  <2>. QED
    BY <2>1, <2>4 DEF AddressOK, FateMoves, Ledger!Next, Fate
<1>. QED
  BY <1>1, <1>2, AdaptersInvariant, PTL DEF Spec, ImplementsLedger, Ledger!Spec

(* A match is never taken from its user by any adapter, and an address     *)
(* that was released does not come back, edits and deletions of the        *)
(* account included (provider.go:24-29).                                   *)
THEOREM AdaptersFatesAreFinal == Spec => Ledger!FinalFates
<1>1. [Ledger!Next]_Fate =>
        [\A x \in Resources :
           Fate[x] \in {"kept", "released"} => Fate'[x] = Fate[x]]_Fate
  BY DEF Ledger!Next, Ledger!Moves, Ledger!Obtained, Ledger!Kept, Ledger!Released,
       Ledger!Lost, Ledger!CreatedUnheard
<1>. QED
  BY <1>1, AdaptersKeepLedger, PTL DEF ImplementsLedger, Ledger!Spec, Ledger!FinalFates

-----------------------------------------------------------------------------
(* The mutex of the OpenStack adapters.                                    *)

MutexInv == \A a \in AdapterIds : mu[a] # None => pc[mu[a]] = "auth" /\ acc[mu[a]] = a

\* Who waits for a client waits for one that asks the provider for a token.
WaitsForAuth ==
  \A c \in Callers : pc[c] = "lock" /\ mu[acc[c]] # None =>
    \E d \in Callers \ {c} : pc[d] = "auth" /\ acc[d] = acc[c]

(* A step that leaves the mutexes alone, and everybody who authenticates.  *)
LEMMA MutexFrame ==
  ASSUME TypeOK, MutexInv, mu' = mu,
         \A c \in Callers : pc[c] = "auth" => pc'[c] = "auth" /\ acc'[c] = acc[c]
  PROVE  MutexInv'
BY DEF TypeOK, MutexInv

LEMMA MutexStep ==
  ASSUME TypeOK, CallInv, ClientInv, MutexInv, [Next]_vars
  PROVE  MutexInv'
<1>1. ASSUME NEW c \in Callers, CallerStep(c) PROVE MutexInv'
  <2>. USE DEF adapterVars, callerVars
  <2>1. CASE EnterClient(c)
    <3>1. acc[c] \in AdapterIds /\ acc' = acc
      BY <2>1, AdapterOfCaller DEF EnterClient
    <3>2. CASE Goto(c, "request") /\ mu' = mu
      BY <2>1, <3>1, <3>2, MutexFrame DEF EnterClient, Goto, TypeOK
    <3>3. CASE Goto(c, "auth") /\ mu' = [mu EXCEPT ![acc[c]] = c]
      BY <3>1, <3>3 DEF Goto, TypeOK, MutexInv
    <3>. QED
      BY <2>1, <3>2, <3>3 DEF EnterClient
  <2>2. CASE AuthSucceeds(c) \/ AuthFails(c)
    <3>1. /\ acc[c] \in AdapterIds /\ mu[acc[c]] = c
          /\ mu' = [mu EXCEPT ![acc[c]] = None]
          /\ \A d \in Callers \ {c} : pc'[d] = pc[d] /\ acc'[d] = acc[d]
      BY <2>2, AdapterOfCaller DEF AuthSucceeds, AuthFails, FailsEarly, Return, Answer, Goto,
           ClientInv, TypeOK
    <3>2. \A a \in AdapterIds : mu'[a] # None => a # acc[c] /\ mu'[a] = mu[a]
      BY <3>1 DEF TypeOK
    <3>3. \A a \in AdapterIds : mu'[a] # None => mu'[a] \in Callers \ {c}
      BY <3>1, <3>2 DEF TypeOK, MutexInv
    <3>. QED
      BY <3>1, <3>2, <3>3 DEF MutexInv
  <2>3. CASE \/ BeginRun(c) \/ BeginAttach(c) \/ Engine(c) \/ Expire(c)
             \/ AllocateSucceeds(c) \/ AllocateUnreadable(c) \/ AllocateFails(c)
             \/ ReleaseAnswered(c) \/ AttachAnswered(c)
    <3>1. mu' = mu /\ (pc[c] # "auth" \/ UNCHANGED <<pc, acc>>)
      BY <2>3 DEF Engine, BeginRun, BeginAttach, Allocate, Release, Keep, Finish,
           AllocateUnsupported, AllocateSucceeds, AllocateUnreadable, AllocateFails,
           ReleaseAnswered, AttachAnswered, At, Expire, CallInv
    <3>2. \A d \in Callers \ {c} : pc'[d] = pc[d] /\ acc'[d] = acc[d]
      <4>1. CASE BeginRun(c) \/ BeginAttach(c) \/ Allocate(c) \/ Release(c) \/ Expire(c)
        BY <4>1 DEF BeginRun, BeginAttach, Allocate, Release, Expire, Call, Goto, TypeOK
      <4>2. ASSUME Return(c) \/ \E ip \in Allocated \cup {NoIP} : Answer(c, ip)
            PROVE  \A d \in Callers \ {c} : pc'[d] = pc[d] /\ acc'[d] = acc[d]
        BY <4>2 DEF Return, Answer, Goto, TypeOK
      <4>3. CASE \/ AllocateUnsupported(c) \/ Keep(c) \/ Finish(c)
                 \/ AllocateSucceeds(c) \/ AllocateUnreadable(c) \/ AllocateFails(c)
                 \/ ReleaseAnswered(c) \/ AttachAnswered(c)
        BY <4>2, <4>3, ClaimedType DEF AllocateUnsupported, Keep, Finish, AllocateSucceeds,
             AllocateUnreadable, AllocateFails, ReleaseAnswered, AttachAnswered
      <4>. QED
        BY <2>3, <4>1, <4>3 DEF Engine
    <3>. QED
      BY <3>1, <3>2, MutexFrame
  <2>. QED
    BY <1>1, <2>1, <2>2, <2>3 DEF CallerStep, Answered
<1>2. CASE (\E p \in Projects : Rebuild(p)) \/ Drop \/ (\E x \in Resources : TaskCompletes(x))
           \/ UNCHANGED vars
  BY <1>2, MutexFrame DEF Rebuild, Drop, TaskCompletes, vars, callerVars
<1>. QED
  BY <1>1, <1>2, NextCases

(* No deadlock on Provider.mu, and no lock left behind: whoever waits for  *)
(* it waits for another caller of the same adapter whose request for a     *)
(* token is under way, after failed authentications too (vkcloud.go:50-66, *)
(* selectel.go:59-75). How long that takes is the other one's deadline.    *)
THEOREM NobodyWaitsForNobody == Spec => []WaitsForAuth
<1>1. Init => MutexInv
  BY DEF Init, MutexInv
<1>2. AdaptersInv /\ MutexInv /\ [Next]_vars => MutexInv'
  BY MutexStep DEF AdaptersInv
<1>3. AdaptersInv /\ MutexInv => WaitsForAuth
  <2>. SUFFICES ASSUME AdaptersInv, MutexInv, NEW c \in Callers, pc[c] = "lock", mu[acc[c]] # None
                PROVE  \E d \in Callers \ {c} : pc[d] = "auth" /\ acc[d] = acc[c]
    BY DEF WaitsForAuth
  <2>1. acc[c] \in AdapterIds
    BY AdapterOfCaller DEF AdaptersInv
  <2>2. mu[acc[c]] \in Callers /\ pc[mu[acc[c]]] = "auth" /\ acc[mu[acc[c]]] = acc[c]
    BY <2>1 DEF AdaptersInv, TypeOK, MutexInv
  <2>. QED
    BY <2>2
<1>. QED
  BY <1>1, <1>2, <1>3, AdaptersInvariant, PTL DEF Spec

-----------------------------------------------------------------------------
(* What a user is given exists.                                            *)

HandExists(c) == hand[c] # NoIP => Exists(hand[c].addr)

ExistInv ==
  /\ pending \subseteq used
  /\ \A c \in Callers : HandExists(c)
  /\ \A x \in kept : Exists(x)

(* A step that creates and deletes nothing.                                *)
LEMMA ExistFrame ==
  ASSUME ExistInv, UNCHANGED <<home, used>>, pending' \subseteq pending,
         \A c \in Callers : hand'[c] \in {hand[c], NoIP},
         \A x \in kept' : x \in kept \/ \E c \in Callers : hand[c] # NoIP /\ hand[c].addr = x
  PROVE  ExistInv'
BY DEF ExistInv, HandExists, Exists

(* A step that creates an address or the task that will create one.        *)
LEMMA ExistCreated ==
  ASSUME TypeOK, CallInv, AddressInv, ExistInv,
         NEW c \in Callers, NEW x \in Resources, pc[c] # "idle", Creates(c, x), kept' = kept,
         NEW ip, hand' = [hand EXCEPT ![c] = ip],
         \/ ip = NoIP /\ pending' \subseteq pending \cup {x}
         \/ ip.addr = x /\ pending' = pending
  PROVE  ExistInv'
<1>1. /\ x \notin used /\ used' = used \cup {x}
      /\ home'[x] # None /\ \A y \in Resources \ {x} : home'[y] = home[y]
  BY AdapterOfCaller, AdaptersAssumption DEF Creates, TypeOK, AddressInv, HandInv
<1>2. hand'[c] = ip /\ \A d \in Callers \ {c} : hand'[d] = hand[d]
  BY DEF TypeOK
<1>3. pending' \subseteq used' /\ x \notin pending
  BY <1>1 DEF ExistInv
<1>4. ASSUME NEW y \in used, y \in Resources, Exists(y) PROVE Exists(y)'
  BY <1>1, <1>4 DEF Exists
<1>5. \A y \in kept : Exists(y)'
  BY <1>4 DEF ExistInv, AddressInv, HandInv, TypeOK
<1>6. ASSUME NEW d \in Callers \ {c} PROVE HandExists(d)'
  <2>1. hand[d] # NoIP => hand[d].addr \in Resources /\ hand[d].addr \in used
    BY HandOfCaller DEF AddressInv
  <2>2. hand[d] # NoIP => home'[hand[d].addr] # None /\ hand[d].addr \notin pending'
    BY <1>4, <2>1 DEF ExistInv, HandExists, Exists
  <2>. QED
    BY <1>2, <2>2 DEF HandExists, Exists
<1>7. HandExists(c)'
  BY <1>1, <1>2, <1>3 DEF HandExists, Exists
<1>. QED
  BY <1>3, <1>5, <1>6, <1>7 DEF ExistInv

LEMMA ExistStep ==
  ASSUME TypeOK, CallInv, AddressInv, ExistInv, [Next]_vars
  PROVE  ExistInv'
<1>1. ASSUME NEW c \in Callers, CallerStep(c) PROVE ExistInv'
  <2>. USE DEF adapterVars, callerVars, cloudVars
  <2>1. CASE \/ BeginRun(c) \/ BeginAttach(c) \/ Engine(c) \/ EnterClient(c) \/ Expire(c)
             \/ AuthSucceeds(c) \/ AuthFails(c) \/ AttachAnswered(c)
    <3>1. /\ UNCHANGED <<home, used, pending>>
          /\ \/ kept' = kept
             \/ hand[c] # NoIP /\ kept' = kept \cup {hand[c].addr}
      BY <2>1 DEF BeginRun, BeginAttach, Engine, EnterClient, Expire, AuthSucceeds, AuthFails,
           AttachAnswered, Allocate, Release, Keep, Finish, AllocateUnsupported
    <3>2. hand' = hand \/ hand' = [hand EXCEPT ![c] = NoIP]
      BY <2>1 DEF BeginRun, BeginAttach, Engine, EnterClient, Expire, AuthSucceeds, AuthFails,
           AttachAnswered, Allocate, Release, Keep, Finish, AllocateUnsupported, FailsEarly,
           Return, Answer
    <3>3. \A d \in Callers : hand'[d] \in {hand[d], NoIP}
      BY <3>2 DEF TypeOK
    <3>. QED
      BY <3>1, <3>3, ExistFrame
  <2>2. CASE AllocateSucceeds(c)
    <3>1. PICK x \in Resources, f \in Fields : Usable(f) /\ Creates(c, x) /\ Answer(c, Claimed(x, f))
      BY <2>2 DEF AllocateSucceeds
    <3>2. /\ pc[c] # "idle" /\ kept' = kept /\ pending' = pending
          /\ hand' = [hand EXCEPT ![c] = Claimed(x, f)] /\ Claimed(x, f).addr = x
      BY <2>2, <3>1, ClaimedType DEF AllocateSucceeds, At, Answer
    <3>. QED
      BY <3>1, <3>2, ExistCreated
  <2>3. CASE AllocateUnreadable(c) \/ AllocateFails(c)
    <3>1. pc[c] # "idle" /\ kept' = kept /\ hand' = [hand EXCEPT ![c] = NoIP]
      BY <2>3 DEF AllocateUnreadable, AllocateFails, At, Return, Answer
    <3>2. CASE CreatedUnheard(c)
      <4>1. PICK x \in Resources : Creates(c, x) /\ pending' \subseteq pending \cup {x}
        BY <3>2 DEF CreatedUnheard
      <4>. QED
        BY <3>1, <4>1, ExistCreated
    <3>3. CASE UNCHANGED <<used, home, pending, told>>
      <4>1. \A d \in Callers : hand'[d] \in {hand[d], NoIP}
        BY <3>1 DEF TypeOK
      <4>. QED
        BY <3>1, <3>3, <4>1, ExistFrame
    <3>. QED
      BY <2>3, <3>2, <3>3 DEF AllocateUnreadable, AllocateFails
  <2>4. CASE ReleaseAnswered(c)
    <3>1. hand[c] # NoIP /\ hand[c].addr \in Resources /\ hand[c].addr \notin kept
      BY <2>4, HandOfCaller DEF ReleaseAnswered, At, CallInv, AddressInv
    <3>2. /\ hand'[c] = NoIP /\ \A d \in Callers \ {c} : hand'[d] = hand[d]
          /\ UNCHANGED <<kept, used, pending>>
          /\ \A x \in Resources : x # hand[c].addr => home'[x] = home[x]
      BY <2>4 DEF ReleaseAnswered, Answer, Deletes, TypeOK
    <3>3. \A d \in Callers \ {c} : hand[d] # NoIP =>
            hand[d].addr # hand[c].addr /\ hand[d].addr \in Resources
      BY <3>1, HandOfCaller DEF AddressInv, HandInv
    <3>4. \A d \in Callers : HandExists(d)'
      BY <3>2, <3>3 DEF ExistInv, HandExists, Exists
    <3>5. \A x \in kept' : Exists(x)'
      BY <3>1, <3>2 DEF ExistInv, Exists, TypeOK
    <3>. QED
      BY <3>2, <3>4, <3>5 DEF ExistInv
  <2>. QED
    BY <1>1, <2>1, <2>2, <2>3, <2>4 DEF CallerStep, Answered
<1>2. CASE (\E p \in Projects : Rebuild(p)) \/ Drop \/ (\E x \in Resources : TaskCompletes(x))
           \/ UNCHANGED vars
  BY <1>2, ExistFrame DEF Rebuild, Drop, TaskCompletes, vars, callerVars, cloudVars
<1>. QED
  BY <1>1, <1>2, NextCases

MatchesExist == kept \cup (InHand \ {None}) \subseteq {x \in Resources : Exists(x)}

(* An address in the hand of a run or returned to a user exists at the     *)
(* provider: it is never one that an asynchronous task of Gcore has still  *)
(* to create (gcore.go:94), and no release, of this run or another, of this*)
(* adapter or its successor, deletes it.                                   *)
THEOREM WhatUsersGetExists == Spec => []MatchesExist
<1>1. Init => ExistInv
  BY DEF Init, ExistInv, HandExists
<1>2. AdaptersInv /\ ExistInv /\ [Next]_vars => ExistInv'
  BY ExistStep DEF AdaptersInv
<1>3. AdaptersInv /\ ExistInv => MatchesExist
  <2>. SUFFICES ASSUME AdaptersInv, ExistInv PROVE MatchesExist
    OBVIOUS
  <2>1. kept \subseteq Resources /\ \A x \in kept : Exists(x)
    BY DEF AdaptersInv, TypeOK, ExistInv
  <2>2. ASSUME NEW c \in Callers, hand[c].addr # None
        PROVE  hand[c].addr \in Resources /\ Exists(hand[c].addr)
    <3>1. hand[c] # NoIP
      BY <2>2 DEF NoIP
    <3>. QED
      BY <3>1, HandOfCaller DEF AdaptersInv, AddressInv, ExistInv, HandExists
  <2>. QED
    BY <2>1, <2>2 DEF MatchesExist, InHand
<1>. QED
  BY <1>1, <1>2, <1>3, AdaptersInvariant, PTL DEF Spec
=============================================================================
