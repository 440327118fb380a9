CONSTANTS
  s1 = s1
  s2 = s2
  StopCallers = {s1, s2}
SPECIFICATION LoopSpec
CHECK_DEADLOCK FALSE
PROPERTIES SettlesInTime
