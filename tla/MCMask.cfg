CONSTANTS
  Octets = 2
  Width = 2
  Inputs <- MCInputs
SPECIFICATION Spec
INVARIANTS
  TypeOK
  MatchesAsWritten
  AcceptedCanBeMet
CHECK_DEADLOCK FALSE
