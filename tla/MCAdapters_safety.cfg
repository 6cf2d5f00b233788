CONSTANTS
  c1 = c1
  c2 = c2
  p1 = p1
  p2 = p2
  i1 = i1
  i2 = i2
  None = None
  Callers = {c1, c2}
  Types = {"gcore", "vkcloud", "ruvds"}
  Projects = {p1, p2}
  Resources = {i1, i2}
  MaxAdapters = 2
SPECIFICATION FairSpec
INVARIANTS
  TypeOK
  ReleasesGoHome
  OneClient
PROPERTIES
  ImplementsLedger
  CallsEnd
