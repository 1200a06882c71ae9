SPECIFICATION Spec
CONSTANTS
  Machine <- MCMachine
  Monitors <- MCMonitors
  Horizon = 2
  MaxEpisodes = 3
INVARIANTS
  TypeOK
  AnalysisAgrees
  FinalIsEarned
  FulfilledIsSatisfied
CHECK_DEADLOCK FALSE
