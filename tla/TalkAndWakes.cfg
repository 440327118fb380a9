CONSTANTS
  Runs = {r1, r2}
  None = None
  MaxUserCancels = 2
  Keys = {k1, k2}
  Appliers = {a1}
  PendingCapacity = 1
  HistoryCapacity = 1
  MinimumDelay = 1
  MaximumHorizon = 2
  Requested = {0}
  MaxCommits = 2
  MaxClock = 2
  Stoppers = {s1}
  ShutdownTimeout = 1
SPECIFICATION TalkAndWakesSpec
CHECK_DEADLOCK FALSE
INVARIANTS
  AnswersAreGrounded
  OutcomeMatchesHistory
PROPERTIES
  NoStaleGeneration
  RunsProceed
  NoWakeSleptThrough
  HostStopReturns
