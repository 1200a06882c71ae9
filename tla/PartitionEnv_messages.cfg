SPECIFICATION Spec
CONSTANTS
  NumReplicas = 2
  Colors = {1}
  InactiveHash <- MCInactiveHash
  TicketBetweenPartition = 2
  MaxMessagesPerTick = 1
  StaySameStateUpto = 1
  MaxInactive = 0
  CrashLimit = 2
  MaxByzantine = 1
  Requests = 1
  Messages <- Pings
  SelfDelivered <- ReplicaPing
  Multisets <- NoMultisets
INVARIANTS
  TypeOK
  ActiveAreRunning
  CacheInTransit
  DeliveredAmongRunning
