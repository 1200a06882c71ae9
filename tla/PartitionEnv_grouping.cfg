SPECIFICATION Spec
CONSTANTS
  NumReplicas = 3
  Colors = {1, 20}
  InactiveHash <- MCInactiveHash
  TicketBetweenPartition = 1
  MaxMessagesPerTick = 1
  StaySameStateUpto = 2
  MaxInactive = 2
  CrashLimit = 3
  MaxByzantine = 0
  Requests = 0
  Messages <- NoMessages
  SelfDelivered <- NoMessages
  Multisets <- SmallMultisets
INVARIANTS
  Isolation
  CrashBudget
  ViewMatchesMap
  EveryPartitionOnce
