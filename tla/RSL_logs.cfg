SPECIFICATION Spec
CONSTANTS
  Node = {n1, n2, n3}
  Nobody = Nobody
  NumCommands = 1
  MaxCachedLength = 1
  MaxBallot = 2
  MaxEvents = 1
  MaxInTransit = 2
SYMMETRY Interchangeable
INVARIANTS
  DecidedLogsAgree
