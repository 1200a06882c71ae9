SPECIFICATION Spec
CONSTANTS
  Episodes = 2
  Horizon = 1
  MaxCalls = 3
INVARIANTS
  TracesOfOneEpisode
\* RunWithTimeout returns, or the process is gone.
CHECK_DEADLOCK FALSE
