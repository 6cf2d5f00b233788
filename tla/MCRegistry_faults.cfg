CONSTANTS
  h1 = h1
  h2 = h2
  n1 = n1
  n2 = n2
  c1 = c1
  c2 = c2
  Handlers = {h1, h2}
  Names = {n1, n2}
  Creds = {c1, c2}
  SeedList <- OneSeed
  SeedCreds = c1
  Faults = {"store", "crash"}
  MaxId = 3
SPECIFICATION FairSpec
INVARIANTS
  TypeOK
  KeysNeverReused
  LiveMatchesTable
PROPERTIES
  DeletedStaysDeleted
  ChangesTakeEffect
