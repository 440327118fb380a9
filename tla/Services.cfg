CONSTANTS
  StopCallers = {s1, s2}
  Generations = {g1}
  NoGeneration = NoGeneration
  MaxDeltas = 1
  Turns = {t1}
  NoTurnId = NoTurnId
  MaxRounds <- MCMaxRounds
  MaxCalls = 1
  Messages = {m1, m2}
  NoMessage = NoMessage
  LocalIds = {l1, l2}
  NoLocal = NoLocal
SPECIFICATION ServicesSpec
CHECK_DEADLOCK FALSE
INVARIANTS
  NothingRunsOn
PROPERTIES
  PoisonClosesRuntime
  KernelStopReturns
  CancelledGenerationsSettle
  CancelledTurnsReturn
