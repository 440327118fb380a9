CONSTANTS
  Turns = {g1, g2}
  NoTurnId = NoTurnId
  MaxRounds <- MCMaxRounds
  MaxCalls = 1
SPECIFICATION TurnSpec
CHECK_DEADLOCK FALSE
PROPERTY DeferredFailureLands
