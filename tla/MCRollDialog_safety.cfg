CONSTANTS
  h1 = h1
  h2 = h2
  r1 = r1
  r2 = r2
  a1 = a1
  a2 = a2
  v1 = v1
  v2 = v2
  None = None
  Handlers = {h1}
  Runs = {r1, r2}
  Accounts = {a1}
  VMs = {v1}
  Faults = {"store", "attach", "crash"}
SYMMETRY Symmetry
SPECIFICATION Spec
INVARIANTS
  TypeOK
  NoBlindMatch
  RowBelongsToResult
  RunningHasRun
  MarkFollowsAttach
  OnlyMatches
