CONSTANTS
  h1 = h1
  h2 = h2
  u1 = u1
  u2 = u2
  u3 = u3
  Nobody = Nobody
  Handlers = {h1, h2}
  Users = {u1, u2, u3}
  Faults = {"crash"}
SYMMETRY Symmetry
SPECIFICATION Spec
INVARIANTS
  TypeOK
  MemoryMatchesTable
PROPERTY NeverOpensUp
