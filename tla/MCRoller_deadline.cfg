CONSTANTS
  a1 = a1
  a2 = a2
  r1 = r1
  r2 = r2
  i1 = i1
  i2 = i2
  i3 = i3
  None = None
  Accounts <- OneAccount
  DailyCap <- CapOfTwo
  MaxRollsPerRun <- NoCap
  Runs = {r1}
  Resources = {i1, i2, i3}
  Faults = {"timeout"}
  MaxDay = 0
  MaxBackoffAttempts = 1
  MaxBudget = 2
SPECIFICATION Spec
INVARIANT NonMatchingReleased
