SPECIFICATION Spec
CONSTANTS
  Modes = {"partition", "link"}
  NumNodes = 3
  MaxTerm = 3
  Campaigners = {1, 2}
  NumRequests = 1
  SnapshotFrequency = 2
  MaxStops = 1
  MaxInTransit = 2
INVARIANTS
  TypeOK
  ShownIsInTransit
  ProposedOnce
  StorageKeeps
PROPERTIES
  NoFalseReport
