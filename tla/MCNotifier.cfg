CONSTANTS
  p1 = p1
  p2 = p2
  a1 = a1
  a2 = a2
  None = None
  Posters = {p1, p2}
  Accounts = {a1, a2}
  Faults = {"store", "telegram", "lost", "crash"}
  MaxTopic = 3
SPECIFICATION FairSpec
INVARIANTS
  TypeOK
  MessagesAreSorted
  OneTopicPerAccount
PROPERTIES
  ThreadIsFinal
  PostsEnd
