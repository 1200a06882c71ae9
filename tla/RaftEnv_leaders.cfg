SPECIFICATION Spec
CONSTANTS
  Modes = {"partition"}
  NumNodes = 3
  MaxTerm = 2
  Campaigners = {1, 2, 3}
  NumRequests = 0
  SnapshotFrequency = 1
  MaxStops = 1
  MaxInTransit = 3
INVARIANTS
  TwoLeadersAreReported
