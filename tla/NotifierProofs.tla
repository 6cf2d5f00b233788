--------------------------- MODULE NotifierProofs ---------------------------
(***************************************************************************)
(* Theorems about Notifier for every number of posters, accounts, topics,  *)
(* and all failures and crashes.                                           *)
(***************************************************************************)
EXTENDS Notifier, TLAPS

-----------------------------------------------------------------------------
(* The inductive invariant.                                                *)

Critical(p) == pc[p] \in {"load", "create", "store"}

\* Who is between lock and unlock holds the lock, and looks for the topic of
\* an account that the cache does not know.
LockInv ==
  \A p \in Posters :
    /\ Critical(p) => lock = p /\ cache[topic[p]] = Unknown
    /\ pc[p] # "idle" => topic[p] \in Accounts

\* Wherever a topic is remembered for an account, it was created for it.
OwnerInv ==
  /\ \A a \in Accounts :
       /\ cache[a] \in Topics => owner[cache[a]] = a
       /\ stored[a] \in Topics => owner[stored[a]] = a
  /\ \A p \in Posters : pc[p] = "store" => thread[p] \in Topics
  /\ \A p \in Posters :
       pc[p] \in {"store", "send"} => thread[p] = Root \/ owner[thread[p]] = topic[p]

\* A topic no failure has hidden is in the table, or in the hand of the poster
\* that has just created it, and then the table has none.
KnownInv ==
  /\ \A t \in Topics : owner[t] # None /\ owner[t] \notin faulty =>
       \/ stored[owner[t]] = t
       \/ \E p \in Posters : pc[p] = "store" /\ topic[p] = owner[t] /\ thread[p] = t
  /\ \A p \in Posters : pc[p] \in {"create", "store"} /\ topic[p] \notin faulty =>
       stored[topic[p]] = Unknown

Inv == TypeOK /\ LockInv /\ OwnerInv /\ KnownInv

LEMMA Numbers == Topics \subseteq Nat \ {0} /\ Root \notin Topics /\ Unknown \notin Threads
BY NotifierAssumption DEF Topics, Threads, Root, Unknown

LEMMA InitInv == Init => Inv
BY Numbers, NotifierAssumption
DEF Init, Inv, TypeOK, LockInv, OwnerInv, KnownInv, Critical, Threads

(* Two posters are never in the critical section.                          *)
LEMMA Exclusion ==
  ASSUME Inv, NEW p \in Posters, NEW q \in Posters, Critical(p), Critical(q)
  PROVE  p = q
BY DEF Inv, LockInv

-----------------------------------------------------------------------------
(* One lemma per action.                                                   *)

LEMMA PostStep ==
  ASSUME Inv, NEW p \in Posters, NEW a \in Accounts, Post(p, a)
  PROVE  Inv'
BY Numbers, NotifierAssumption
DEF Post, Goto, Inv, TypeOK, LockInv, OwnerInv, KnownInv, Critical

LEMMA SendStep ==
  ASSUME Inv, NEW p \in Posters, Send(p)
  PROVE  Inv'
BY Numbers, NotifierAssumption
DEF Send, Goto, Inv, TypeOK, LockInv, OwnerInv, KnownInv, Critical, Threads

LEMMA AcquireStep ==
  ASSUME Inv, NEW p \in Posters, Acquire(p)
  PROVE  Inv'
<1>1. topic[p] \in Accounts /\ lock = None /\ \A q \in Posters : ~Critical(q)
  BY NotifierAssumption DEF Acquire, LockFree, Inv, LockInv
<1>2. CASE cache[topic[p]] # Unknown /\ Resolve(p, cache[topic[p]])
  <2>1. cache[topic[p]] \in Threads
    BY <1>1, <1>2 DEF Inv, TypeOK
  <2>. QED
    BY <1>1, <1>2, <2>1, Numbers, NotifierAssumption
    DEF Acquire, Resolve, Goto, Inv, TypeOK, LockInv, OwnerInv, KnownInv, Critical, Threads
<1>3. CASE cache[topic[p]] = Unknown /\ lock' = p /\ Goto(p, "load") /\ UNCHANGED thread
  BY <1>1, <1>3, Numbers, NotifierAssumption
  DEF Acquire, Goto, Inv, TypeOK, LockInv, OwnerInv, KnownInv, Critical
<1>. QED
  BY <1>2, <1>3 DEF Acquire

LEMMA LoadStep ==
  ASSUME Inv, NEW p \in Posters, LoadTopic(p)
  PROVE  Inv'
<1>1. topic[p] \in Accounts /\ lock = p /\ \A q \in Posters : Critical(q) => q = p
  BY DEF LoadTopic, Critical, Inv, LockInv
<1>2. CASE stored[topic[p]] # Unknown /\ UNCHANGED faulty
             /\ Remember(p, stored[topic[p]]) /\ Resolve(p, stored[topic[p]])
  <2>1. stored[topic[p]] \in Topics
    BY <1>1, <1>2 DEF Inv, TypeOK
  <2>. QED
    BY <1>1, <1>2, <2>1, Numbers, NotifierAssumption
    DEF LoadTopic, Remember, Resolve, Goto, Inv, TypeOK, LockInv, OwnerInv, KnownInv, Critical,
        Threads
<1>3. CASE /\ \/ stored[topic[p]] = Unknown /\ UNCHANGED faulty
              \/ faulty' = faulty \cup {topic[p]}
           /\ Goto(p, "create")
           /\ UNCHANGED <<lock, cache, thread>>
  BY <1>1, <1>3, Numbers, NotifierAssumption
  DEF LoadTopic, Goto, Inv, TypeOK, LockInv, OwnerInv, KnownInv, Critical
<1>. QED
  BY <1>2, <1>3 DEF LoadTopic

LEMMA CreateStep ==
  ASSUME Inv, NEW p \in Posters, NEW t \in Topics, CreateTopic(p, t)
  PROVE  Inv'
<1>1. topic[p] \in Accounts /\ lock = p /\ \A q \in Posters : Critical(q) => q = p
  BY DEF CreateTopic, Critical, Inv, LockInv
<1>2. owner[t] = None /\ owner' = [owner EXCEPT ![t] = topic[p]]
  BY DEF CreateTopic, Creatable
<1>3. \A x \in Topics \ {t} : owner'[x] = owner[x]
  BY <1>2 DEF Inv, TypeOK
<1>4. TypeOK' /\ LockInv'
  BY <1>1, <1>2 DEF CreateTopic, Goto, Inv, TypeOK, LockInv, Critical, Threads
<1>5. OwnerInv'
  <2>1. \A x \in Topics : owner[x] # None => owner'[x] = owner[x]
    BY <1>2, <1>3
  <2>. QED
    BY <1>1, <1>2, <2>1, Numbers, NotifierAssumption
    DEF CreateTopic, Goto, Inv, TypeOK, OwnerInv, LockInv, Threads
<1>6. KnownInv'
  BY <1>1, <1>2, <1>3 DEF CreateTopic, Goto, Inv, TypeOK, KnownInv, Critical
<1>. QED
  BY <1>4, <1>5, <1>6 DEF Inv

LEMMA CreateFailsStep ==
  ASSUME Inv, NEW p \in Posters, CreateFails(p)
  PROVE  Inv'
<1>1. topic[p] \in Accounts /\ lock = p /\ \A q \in Posters : Critical(q) => q = p
  BY DEF CreateFails, Critical, Inv, LockInv
<1>2. \/ UNCHANGED <<owner, faulty>>
      \/ \E t \in Topics : /\ owner[t] = None
                           /\ owner' = [owner EXCEPT ![t] = topic[p]]
                           /\ faulty' = faulty \cup {topic[p]}
  BY DEF CreateFails, Creatable
<1>3. /\ \A x \in Topics : owner[x] # None => owner'[x] = owner[x]
      /\ \A x \in Topics : owner'[x] = owner[x] \/ owner'[x] = topic[p]
      /\ \A x \in Topics : owner'[x] = owner[x] \/ owner'[x] \in faulty'
      /\ faulty \subseteq faulty' /\ faulty' \in SUBSET Accounts
      /\ owner' \in [Topics -> Accounts \cup {None}]
  BY <1>1, <1>2 DEF Inv, TypeOK
<1>4. TypeOK' /\ LockInv'
  BY <1>1, <1>3, NotifierAssumption
  DEF CreateFails, Remember, Resolve, Goto, Inv, TypeOK, LockInv, Critical, Threads
<1>5. OwnerInv'
  <2>1. /\ cache' = [cache EXCEPT ![topic[p]] = Root] /\ UNCHANGED <<stored, topic>>
        /\ pc' = [pc EXCEPT ![p] = "send"] /\ thread' = [thread EXCEPT ![p] = Root]
        /\ pc[p] = "create"
    BY DEF CreateFails, Remember, Resolve, Goto
  <2>2. \A a \in Accounts :
          /\ cache'[a] \in Topics => owner'[cache'[a]] = a
          /\ stored'[a] \in Topics => owner'[stored'[a]] = a
    <3>. SUFFICES ASSUME NEW a \in Accounts
                  PROVE  /\ cache'[a] \in Topics => owner'[cache'[a]] = a
                         /\ stored[a] \in Topics => owner'[stored[a]] = a
      BY <2>1
    <3>1. cache'[a] = Root \/ cache'[a] = cache[a]
      BY <2>1 DEF Inv, TypeOK
    <3>2. a # None
      BY NotifierAssumption
    <3>3. /\ cache[a] \in Topics => owner'[cache[a]] = a
          /\ stored[a] \in Topics => owner'[stored[a]] = a
      BY <1>3, <3>2 DEF Inv, OwnerInv
    <3>. QED
      BY <3>1, <3>3, Numbers
  <2>3. \A q \in Posters : pc'[q] = "store" => thread'[q] \in Topics
    BY <2>1 DEF Inv, TypeOK, OwnerInv
  <2>4. ASSUME NEW q \in Posters, pc'[q] \in {"store", "send"}
        PROVE  thread'[q] = Root \/ owner'[thread'[q]] = topic'[q]
    <3>1. CASE q = p
      BY <2>1, <3>1 DEF Inv, TypeOK
    <3>2. CASE q # p
      <4>1. pc[q] \in {"store", "send"} /\ thread'[q] = thread[q] /\ topic'[q] = topic[q]
        BY <2>1, <2>4, <3>2 DEF Inv, TypeOK
      <4>2. topic[q] # None /\ thread[q] \in Threads
        BY <4>1, NotifierAssumption DEF Inv, TypeOK, LockInv
      <4>. QED
        BY <1>3, <4>1, <4>2 DEF Inv, OwnerInv, Threads
    <3>. QED
      BY <3>1, <3>2
  <2>. QED
    BY <2>2, <2>3, <2>4 DEF OwnerInv
<1>6. KnownInv'
  BY <1>1, <1>3, NotifierAssumption
  DEF CreateFails, Resolve, Goto, Inv, TypeOK, KnownInv, Critical
<1>. QED
  BY <1>4, <1>5, <1>6 DEF Inv

LEMMA StoreStep ==
  ASSUME Inv, NEW p \in Posters, StoreTopic(p)
  PROVE  Inv'
<1>1. /\ topic[p] \in Accounts /\ lock = p /\ \A q \in Posters : Critical(q) => q = p
      /\ thread[p] \in Topics /\ owner[thread[p]] = topic[p]
  BY Numbers DEF StoreTopic, Critical, Inv, LockInv, OwnerInv
<1>2. \/ stored' = [stored EXCEPT ![topic[p]] = thread[p]] /\ UNCHANGED faulty
      \/ faulty' = faulty \cup {topic[p]} /\ UNCHANGED stored
  BY DEF StoreTopic
<1>3. TypeOK' /\ LockInv'
  BY <1>1, <1>2, NotifierAssumption
  DEF StoreTopic, Remember, Resolve, Goto, Inv, TypeOK, LockInv, Critical, Threads
<1>4. OwnerInv'
  BY <1>1, <1>2, Numbers, NotifierAssumption
  DEF StoreTopic, Remember, Resolve, Goto, Inv, TypeOK, LockInv, OwnerInv, Threads
<1>5. KnownInv'
  <2>1. UNCHANGED <<owner, topic>> /\ pc' = [pc EXCEPT ![p] = "send"]
    BY DEF StoreTopic, Resolve, Goto
  <2>2. \A q \in Posters : pc'[q] \notin {"create", "store"}
    BY <1>1, <2>1 DEF Inv, TypeOK, Critical
  <2>3. ASSUME NEW t \in Topics, owner[t] # None, owner[t] \notin faulty'
        PROVE  stored'[owner[t]] = t
    <3>1. owner[t] \notin faulty /\ owner[t] \in Accounts
      BY <1>2, <2>3 DEF Inv, TypeOK
    <3>2. CASE owner[t] = topic[p]
      <4>1. stored' = [stored EXCEPT ![topic[p]] = thread[p]]
        BY <1>2, <2>3, <3>2
      <4>2. stored[topic[p]] \notin Topics
        BY <3>1, <3>2, Numbers DEF StoreTopic, Inv, KnownInv, Threads
      <4>3. thread[p] = t
        BY <1>1, <2>3, <3>1, <3>2, <4>2 DEF Inv, KnownInv, Critical
      <4>. QED
        BY <1>1, <3>2, <4>1, <4>3 DEF Inv, TypeOK
    <3>3. CASE owner[t] # topic[p]
      <4>1. stored[owner[t]] = t
        BY <1>1, <2>3, <3>1, <3>3 DEF Inv, KnownInv, Critical
      <4>. QED
        BY <1>2, <3>1, <3>3, <4>1 DEF Inv, TypeOK
    <3>. QED
      BY <3>2, <3>3
  <2>. QED
    BY <2>1, <2>2, <2>3 DEF KnownInv
<1>. QED
  BY <1>3, <1>4, <1>5 DEF Inv

LEMMA RestartStep ==
  ASSUME Inv, Restart
  PROVE  Inv'
<1>1. {topic[p] : p \in {q \in Posters : pc[q] = "store"}} \subseteq Accounts
  BY DEF Inv, LockInv
<1>2. TypeOK' /\ LockInv' /\ OwnerInv'
  BY <1>1, Numbers DEF Restart, Inv, TypeOK, LockInv, OwnerInv, Critical, Threads
<1>3. KnownInv'
  BY DEF Restart, Inv, KnownInv
<1>. QED
  BY <1>2, <1>3 DEF Inv

LEMMA StepInv == Inv /\ [Next]_vars => Inv'
<1>. SUFFICES ASSUME Inv, [Next]_vars
              PROVE  Inv'
  OBVIOUS
<1>1. CASE UNCHANGED vars
  BY <1>1 DEF vars, Inv, TypeOK, LockInv, OwnerInv, KnownInv, Critical
<1>. QED
  BY <1>1, PostStep, AcquireStep, LoadStep, CreateStep, CreateFailsStep, StoreStep, SendStep,
     RestartStep
  DEF Next, PosterContinues

LEMMA Invariance == Spec => []Inv
BY InitInv, StepInv, PTL DEF Spec

-----------------------------------------------------------------------------
(* The types of the notifier, its posters and Telegram's topics.           *)
THEOREM NotifierTypeCorrect == Spec => []TypeOK
<1>1. Inv => TypeOK
  BY DEF Inv
<1>. QED
  BY <1>1, Invariance, PTL

(* No message goes to the topic of another account (notify.go:2), whatever *)
(* fails and whoever posts at the same time.                               *)
THEOREM Sorted == Spec => []MessagesAreSorted
<1>1. Inv => MessagesAreSorted
  BY DEF Inv, OwnerInv, MessagesAreSorted
<1>. QED
  BY <1>1, Invariance, PTL

(* An account has one topic unless a failure hid one (notify.go:2 and 18), *)
(* for any number of posters that find none.                               *)
THEOREM TopicsAreUnique == Spec => []OneTopicPerAccount
<1>1. Inv => OneTopicPerAccount
  <2>. SUFFICES ASSUME Inv, NEW s \in Topics, NEW t \in Topics,
                       owner[s] # None, owner[s] = owner[t], owner[s] \notin faulty
                PROVE  s = t
    BY DEF OneTopicPerAccount
  <2>1. \/ stored[owner[s]] = s
        \/ \E p \in Posters : pc[p] = "store" /\ topic[p] = owner[s] /\ thread[p] = s
    BY DEF Inv, KnownInv
  <2>2. \/ stored[owner[s]] = t
        \/ \E p \in Posters : pc[p] = "store" /\ topic[p] = owner[s] /\ thread[p] = t
    BY DEF Inv, KnownInv
  <2>3. \A p \in Posters : pc[p] = "store" /\ topic[p] = owner[s] => stored[owner[s]] \notin Topics
    BY Numbers DEF Inv, KnownInv, Threads
  <2>. QED
    BY <2>1, <2>2, <2>3, Exclusion DEF Critical
<1>. QED
  BY <1>1, Invariance, PTL

(* While the process runs, a known thread does not change (notify.go:90):  *)
(* whoever writes the cache has found no entry and still holds the lock.   *)
THEOREM ThreadsAreFinal == Spec => ThreadIsFinal
<1>. DEFINE Final == \A a \in Accounts :
                       cache[a] # Unknown /\ cache'[a] # Unknown => cache'[a] = cache[a]
<1>1. Inv /\ [Next]_vars => [Final]_vars
  <2>. SUFFICES ASSUME Inv, Next
                PROVE  Final
    OBVIOUS
  <2>1. ASSUME NEW p \in Posters, LoadTopic(p) \/ CreateFails(p) \/ StoreTopic(p)
        PROVE  Final
    <3>1. cache[topic[p]] = Unknown
      BY <2>1 DEF LoadTopic, CreateFails, StoreTopic, Inv, LockInv, Critical
    <3>2. UNCHANGED cache \/ \E v : cache' = [cache EXCEPT ![topic[p]] = v]
      BY <2>1 DEF LoadTopic, CreateFails, StoreTopic, Remember
    <3>. QED
      BY <3>1, <3>2 DEF Inv, TypeOK
  <2>2. CASE Restart
    BY <2>2 DEF Restart
  <2>3. CASE UNCHANGED cache
    BY <2>3
  <2>. QED
    BY <2>1, <2>2, <2>3 DEF Next, PosterContinues, Post, Acquire, CreateTopic, Send
<1>. QED
  BY <1>1, Invariance, PTL DEF Spec, ThreadIsFinal

-----------------------------------------------------------------------------
(* Nobody waits for a lock that nobody will release.                       *)

NoLockLeaked == lock # None => Critical(lock)

(* Whoever holds Notifier.mu is on its way to the unlock: no path of       *)
(* ensureTopic, no error and no crash leaves the lock behind               *)
(* (notify.go:92-93). Posts that wait therefore wait for one that works.   *)
THEOREM LockIsReturned == Spec => []NoLockLeaked
<1>1. Init => NoLockLeaked
  BY DEF Init, NoLockLeaked
<1>2. Inv /\ NoLockLeaked /\ [Next]_vars => NoLockLeaked'
  <2>. SUFFICES ASSUME Inv, NoLockLeaked, [Next]_vars, lock' # None
                PROVE  Critical(lock)'
    BY DEF NoLockLeaked
  <2>. USE DEF Inv, TypeOK, LockInv, NoLockLeaked, Critical
  <2>1. ASSUME NEW p \in Posters, NEW a \in Accounts, Post(p, a) PROVE Critical(lock)'
    BY <2>1 DEF Post, Goto
  <2>2. ASSUME NEW p \in Posters, Acquire(p) PROVE Critical(lock)'
    BY <2>2 DEF Acquire, Resolve, Goto, LockFree
  <2>3. ASSUME NEW p \in Posters, PosterContinues(p) PROVE Critical(lock)'
    BY <2>3 DEF PosterContinues, LoadTopic, CreateTopic, CreateFails, StoreTopic, Send, Resolve,
         Goto
  <2>. QED
    BY <2>1, <2>2, <2>3 DEF Next, Restart, vars
<1>. QED
  BY <1>1, <1>2, Invariance, PTL DEF Spec

-----------------------------------------------------------------------------
(* What hides a topic.                                                     *)

NothingHidden == faulty = {}

OneTopicEach ==
  \A s, t \in Topics : owner[s] # None /\ owner[s] = owner[t] => s = t

(* With storage calls that work, answers of Telegram that arrive, and no   *)
(* crash, an account has one topic at most: however many posts meet on a   *)
(* new account, and whatever Telegram refuses (notify.go:2).               *)
THEOREM OneTopicForEveryAccount ==
  ASSUME Faults \cap {"store", "lost", "crash"} = {}
  PROVE  Spec => []OneTopicEach
<1>1. Init => NothingHidden
  BY DEF Init, NothingHidden
<1>2. NothingHidden /\ [Next]_vars => NothingHidden'
  BY DEF NothingHidden, Next, Post, Acquire, PosterContinues, LoadTopic, CreateTopic, CreateFails,
       StoreTopic, Send, Restart, vars
<1>3. NothingHidden /\ OneTopicPerAccount => OneTopicEach
  BY DEF NothingHidden, OneTopicPerAccount, OneTopicEach
<1>. QED
  BY <1>1, <1>2, <1>3, TopicsAreUnique, PTL DEF Spec
=============================================================================
