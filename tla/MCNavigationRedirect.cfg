SPECIFICATION Spec
CONSTANTS
  MaxPages = 3
  Steps = 2
  MaxCalls = 2
  MaxLate = 1
  CallsFrom = {"restore"}
INVARIANT RoutesArePages
CHECK_DEADLOCK FALSE
