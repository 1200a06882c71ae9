SPECIFICATION Spec
CONSTANTS
  Episodes = 2
  Horizon = 2
  MaxCalls = 3
INVARIANTS
  TypeOK
  RecordedIsLearned
  OneLateSegment
  MixingNeedsTimeOut
PROPERTIES
  MainReturns
\* RunWithTimeout returns, or the process is gone.
CHECK_DEADLOCK FALSE
