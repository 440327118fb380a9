CONSTANTS
  e1 = e1
  e2 = e2
  None = None
  Episodes = {e1, e2}
  FenceCapacity = 1
  IntentionCapacity = 1
  Budget = 1
  CognitionOutcomes <- MCOutcomes
  Contexts <- MCContexts
  Modes = {"live"}
  Routed = {"speak"}
  Replayers = {"replay"}
  MaxMindWrites = 1
  Generations = {g1, g2}
  NoGeneration = NoGeneration
  MaxDeltas = 1
  Turns = {t1, t2}
  NoTurnId = NoTurnId
  MaxRounds <- MCMaxRounds
  MaxCalls = 1
  Keys = {k1, k2}
  Appliers = {a1, a2}
  PendingCapacity = 1
  HistoryCapacity = 1
  MinimumDelay = 1
  MaximumHorizon = 2
  Requested = {0}
  MaxCommits = 2
  MaxClock = 2
  Stoppers = {s1}
  ShutdownTimeout = 1
  post1 = post1
  post2 = post2
  post3 = post3
  DirectMessages = {post1, post2, post3}
  AmbientEvents = {a0}
  DedupeCapacity = 2
  QueueCapacity = 1
  WindowCapacity = 1
  MaxDeliveries = 5
  MaxHandled = 2
  Surfaces = {x1, x2}
  DedupKeys = {d1, d2, d3}
  SupersessionKeys = {f1}
  NoKey = NoKey
  ScopeCapacity = 2
  TotalCapacity = 3
  NoteTtl = 1
  FirstNote = 8
  LastNote = 11
  MaxNoteTime = 1
  SubjectTurns = {u1, u2}
  MaxWakes = 2
  Processes = {p1, p2}
  NoProcess = NoProcess
  MaxMessages = 2
  MaxDeaths = 2
SPECIFICATION ComponentsSpec
CHECK_DEADLOCK FALSE
INVARIANTS
  MemoryIsDurable
  EffectsAtMostOnce
  ReportIsHonest
  WireAgrees
  OnePendingPerKey
  DispatchAccounted
  OneNotePerKey
  NothingLeftBehind
  OneTurnPerMessage
PROPERTIES
  AppliedOnTheStateReadFrom
  ImplementsReplayFence
  ImplementsSlot
  NoLateTool
  TurnsImplementSlot
  SpeaksOnlyUndisturbed
