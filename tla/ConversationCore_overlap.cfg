CONSTANTS
  Runs = {r1, r2, r3}
  None = None
  MaxUserCancels = 0
SPECIFICATION TalkSpec
CHECK_DEADLOCK FALSE
INVARIANT SuccessorWaitsForGeneration
