CONSTANTS
  s1 = s1
  s2 = s2
  StopCallers = {s1, s2}
SPECIFICATION KernelSpec
CHECK_DEADLOCK FALSE
INVARIANTS
  RaisedStopLeavesFailed
