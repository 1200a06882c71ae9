SPECIFICATION FairSpec
CONSTANTS
  Systems <- MCSystems
  Links <- MCLinks
  NumNodes = 2
  MaxClusters = 2
  MaxTrials = 0
  NumRequests = 1
  MaxEvents = 2
INVARIANTS
  TypeOK
  ProcessesOfThisCluster
  StorageOfThisCluster
  LeftoversWereInFlight
  AnsweredOnce
PROPERTIES
  ImplementsPool
  OperationsReturn
CHECK_DEADLOCK FALSE
