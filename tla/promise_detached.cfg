CONSTANTS
  c1 = c1
  c2 = c2
  v1 = v1
  Calls <- MCCalls
  FanIns <- MCFanIns
  Values <- MCValues
  Lengths <- MCLengths
  Fallback = Fallback
  Nothing = Nothing
SPECIFICATION Spec
INVARIANT FailedDetachedLeavesState
CHECK_DEADLOCK FALSE
