SPECIFICATION Spec
CONSTANTS
  Replicas = 3
  Requests = 1
  MaxPhase = 1
  MaxExpiries = 1
  MaxInTransit = 4
INVARIANTS
  TypeOK
  AcksHold
  PromisesBacked
  ProposalsHaveQuorum
  ChosenSurvives
