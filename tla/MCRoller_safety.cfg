CONSTANTS
  a1 = a1
  a2 = a2
  r1 = r1
  r2 = r2
  i1 = i1
  i2 = i2
  i3 = i3
  None = None
  Accounts <- OneAccount
  DailyCap <- CapOfOne
  MaxRollsPerRun <- NoCap
  Runs = {r1, r2}
  Resources = {i1, i2, i3}
  Faults = {"retryable", "fatal", "lost", "release", "timeout", "restart", "store"}
  MaxDay = 1
  MaxBackoffAttempts = 1
  MaxBudget = 2
SYMMETRY Symmetry
SPECIFICATION Spec
INVARIANTS
  TypeOK
  NoSilentLeak
  KeptStaysLive
  LogTellsFate
  OvershootBounded
  CacheAgreesWithStore
PROPERTIES
  UsageNeverForgotten
  ImplementsLedger
