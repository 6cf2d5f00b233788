------------------------------ MODULE Notifier ------------------------------
(***************************************************************************)
(* Notifications to a forum group, one topic per account                   *)
(* (internal/notify/notify.go). ensureTopic looks the account's topic up   *)
(* in memory, then in the forum_topics table, then creates it at Telegram, *)
(* all under Notifier.mu; the message is sent without the lock. Handlers   *)
(* and runs post at the same time.                                         *)
(***************************************************************************)
EXTENDS Integers

CONSTANTS
  Posters,    \* the goroutines that post
  Accounts,   \* topic names
  None,       \* no topic name, or nobody
  Faults,     \* "store", "telegram", "lost" (an error answer to a request
              \* that took effect), "crash"
  MaxTopic    \* bound: topics Telegram creates

ASSUME NotifierAssumption ==
  /\ None \notin Accounts /\ None \notin Posters
  /\ MaxTopic \in Nat \ {0}

VARIABLES
  lock,       \* who holds Notifier.mu
  cache,      \* Notifier.cache; Unknown where there is no entry
  stored,     \* forum_topics; Unknown where there is no row
  owner,      \* at Telegram: the account each created topic was created for
  pc,         \* where each poster stands
  topic,      \* the account it posts for
  thread,     \* the thread id it has got
  faulty      \* history: accounts with a topic the notifier may not know, because
              \* of a failed storage call, a lost answer or a crash

vars == <<lock, cache, stored, owner, pc, topic, thread, faulty>>

Root == 0        \* the group itself, no topic
Unknown == -1
Topics == 1..MaxTopic
Threads == Topics \cup {Root}

TypeOK ==
  /\ lock \in Posters \cup {None}
  /\ cache \in [Accounts -> Threads \cup {Unknown}]
  /\ stored \in [Accounts -> Topics \cup {Unknown}]
  /\ owner \in [Topics -> Accounts \cup {None}]
  /\ pc \in [Posters -> {"idle", "lock", "load", "create", "store", "send"}]
  /\ topic \in [Posters -> Accounts \cup {None}]
  /\ thread \in [Posters -> Threads]
  /\ faulty \in SUBSET Accounts

Init ==
  /\ lock = None
  /\ cache = [a \in Accounts |-> Unknown]
  /\ stored = [a \in Accounts |-> Unknown]
  /\ owner = [t \in Topics |-> None]
  /\ pc = [p \in Posters |-> "idle"]
  /\ topic = [p \in Posters |-> None]
  /\ thread = [p \in Posters |-> Root]
  /\ faulty = {}

Goto(p, label) == pc' = [pc EXCEPT ![p] = label]

\* A bug: the lock is kept.
ResolveLocked(p, t) ==
  /\ UNCHANGED lock
  /\ thread' = [thread EXCEPT ![p] = t]
  /\ Goto(p, "send")

\* ensureTopic returns t: the lock is released, the message is sent next.
Resolve(p, t) ==
  /\ lock' = None
  /\ thread' = [thread EXCEPT ![p] = t]
  /\ Goto(p, "send")

\* A bug: the cache is not keyed by account.
RememberForAll(p, t) == cache' = [a \in Accounts |-> t]

Remember(p, t) == cache' = [cache EXCEPT ![topic[p]] = t]

-----------------------------------------------------------------------------
Post(p, a) ==
  /\ pc[p] = "idle"
  /\ Goto(p, "lock")
  /\ topic' = [topic EXCEPT ![p] = a]
  /\ UNCHANGED <<lock, cache, stored, owner, thread, faulty>>

\* A bug: the lock is not taken.
NoLockFree == TRUE

LockFree == lock = None

\* Take the lock, look into the cache.
Acquire(p) ==
  /\ pc[p] = "lock" /\ LockFree
  /\ \/ cache[topic[p]] # Unknown /\ Resolve(p, cache[topic[p]])
     \/ cache[topic[p]] = Unknown /\ lock' = p /\ Goto(p, "load") /\ UNCHANGED thread
  /\ UNCHANGED <<cache, stored, owner, topic, faulty>>

\* A bug: a missing row is taken for one.
LoadTopicUnchecked(p) ==
  /\ pc[p] = "load"
  /\ Remember(p, stored[topic[p]])
  /\ Resolve(p, stored[topic[p]])
  /\ UNCHANGED <<stored, owner, topic, faulty>>

\* GetForumTopic; an error is taken for a missing row.
LoadTopic(p) ==
  /\ pc[p] = "load"
  /\ \/ /\ stored[topic[p]] # Unknown
        /\ Remember(p, stored[topic[p]])
        /\ Resolve(p, stored[topic[p]])
        /\ UNCHANGED faulty
     \/ /\ \/ stored[topic[p]] = Unknown /\ UNCHANGED faulty
           \/ "store" \in Faults /\ faulty' = faulty \cup {topic[p]}
        /\ Goto(p, "create")
        /\ UNCHANGED <<lock, cache, thread>>
  /\ UNCHANGED <<stored, owner, topic>>

Creatable == {t \in Topics : owner[t] = None}

CreateTopic(p, t) ==
  /\ pc[p] = "create" /\ t \in Creatable
  /\ owner' = [owner EXCEPT ![t] = topic[p]]
  /\ thread' = [thread EXCEPT ![p] = t]
  /\ Goto(p, "store")
  /\ UNCHANGED <<lock, cache, stored, topic, faulty>>

\* An error, or the bound: the group root, without retrying.
CreateFails(p) ==
  /\ pc[p] = "create" /\ ("telegram" \in Faults \/ Creatable = {})
  /\ \/ UNCHANGED <<owner, faulty>>
     \/ /\ "lost" \in Faults
        /\ \E t \in Creatable : owner' = [owner EXCEPT ![t] = topic[p]]
        /\ faulty' = faulty \cup {topic[p]}
  /\ Remember(p, Root)
  /\ Resolve(p, Root)
  /\ UNCHANGED <<stored, topic>>

\* A bug: the new topic is cached but not written to the table.
StoreTopicNever(p) ==
  /\ pc[p] = "store"
  /\ Remember(p, thread[p])
  /\ Resolve(p, thread[p])
  /\ UNCHANGED <<stored, owner, topic, faulty>>

\* SetForumTopic; its error is only logged.
StoreTopic(p) ==
  /\ pc[p] = "store"
  /\ \/ stored' = [stored EXCEPT ![topic[p]] = thread[p]] /\ UNCHANGED faulty
     \/ "store" \in Faults /\ faulty' = faulty \cup {topic[p]} /\ UNCHANGED stored
  /\ Remember(p, thread[p])
  /\ Resolve(p, thread[p])
  /\ UNCHANGED <<owner, topic>>

\* SendMessage to thread[p]; its error is only logged.
Send(p) ==
  /\ pc[p] = "send"
  /\ Goto(p, "idle")
  /\ topic' = [topic EXCEPT ![p] = None]
  /\ thread' = [thread EXCEPT ![p] = Root]
  /\ UNCHANGED <<lock, cache, stored, owner, faulty>>

\* With a crash, the topic a poster has created and not yet stored is lost.
Restart ==
  /\ "crash" \in Faults
  /\ lock' = None
  /\ cache' = [a \in Accounts |-> Unknown]
  /\ pc' = [p \in Posters |-> "idle"]
  /\ topic' = [p \in Posters |-> None]
  /\ thread' = [p \in Posters |-> Root]
  /\ faulty' = faulty \cup {topic[p] : p \in {q \in Posters : pc[q] = "store"}}
  /\ UNCHANGED <<stored, owner>>

PosterContinues(p) ==
  \/ LoadTopic(p)
  \/ (\E t \in Topics : CreateTopic(p, t)) \/ CreateFails(p)
  \/ StoreTopic(p)
  \/ Send(p)

Next ==
  \/ \E p \in Posters : (\E a \in Accounts : Post(p, a)) \/ Acquire(p) \/ PosterContinues(p)
  \/ Restart

Spec == Init /\ [][Next]_vars

\* Every call has a timeout, and sync.Mutex lets nobody wait for ever.
Fairness == \A p \in Posters : WF_vars(PosterContinues(p)) /\ SF_vars(Acquire(p))

FairSpec == Spec /\ Fairness

-----------------------------------------------------------------------------
(* notify.go:2 "so events are sorted by account": a message goes to the    *)
(* topic of its account or to the group root, never to the topic of        *)
(* another account, whatever failed before and whoever posts meanwhile.    *)
MessagesAreSorted ==
  \A p \in Posters : pc[p] = "send" => thread[p] = Root \/ owner[thread[p]] = topic[p]

(* notify.go:2 "one topic per provider account" and notify.go:18 "topics   *)
(* survive restarts": an account gets a second topic only if a failure     *)
(* hid the first one. That two goroutines post for a new account at once   *)
(* is no such reason, nor is a restart.                                    *)
OneTopicPerAccount ==
  \A s, t \in Topics :
    owner[s] # None /\ owner[s] = owner[t] => s = t \/ owner[s] \in faulty

(* notify.go:90 "without retrying": while the process runs, the thread of  *)
(* an account does not change once it is known.                            *)
ThreadIsFinal ==
  [][\A a \in Accounts :
       cache[a] # Unknown /\ cache'[a] # Unknown => cache'[a] = cache[a]]_vars

(* No post hangs: the lock is released on every path of ensureTopic.       *)
PostsEnd == \A p \in Posters : pc[p] # "idle" ~> pc[p] = "idle"
=============================================================================
