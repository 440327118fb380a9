CONSTANTS
  e1 = e1
  e2 = e2
  None = None
  Episodes = {e1, e2}
  FenceCapacity = 1
  IntentionCapacity = 1
  Budget = 1
  CognitionOutcomes <- MCOutcomes
  Contexts <- MCContexts
  Modes = {"live"}
  Routed = {"speak"}
  Replayers = {}
  MaxMindWrites = 0
SPECIFICATION AppSpec
CHECK_DEADLOCK FALSE
INVARIANT ReturnedLeavesNothingRunning
