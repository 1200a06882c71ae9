SPECIFICATION Spec
CONSTANTS
  Replicas = 2
  Requests = 2
  MaxPhase = 0
  MaxExpiries = 0
  MaxInTransit = 4
PROPERTIES
  DecidedStays
