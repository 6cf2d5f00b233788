CONSTANTS
  a1 = a1
  a2 = a2
  r1 = r1
  r2 = r2
  i1 = i1
  i2 = i2
  i3 = i3
  None = None
  Accounts <- MCAccounts
  DailyCap <- MCDailyCap
  MaxRollsPerRun <- MCMaxRollsPerRun
  Runs = {r1, r2}
  Resources = {i1, i2}
  Faults = {"retryable", "timeout"}
  MaxDay = 0
  MaxBackoffAttempts = 1
  MaxBudget = 2
SPECIFICATION FairSpec
PROPERTY RunTerminates
