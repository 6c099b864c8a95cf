SPECIFICATION Spec
CONSTANTS
  MaxPages = 3
  Steps = 2
  MaxCalls = 1
  MaxLate = 1
  CallsFrom = {}
INVARIANT WillsAlwaysPaired
CHECK_DEADLOCK FALSE
