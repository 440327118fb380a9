CONSTANTS
  UserRequests = {u1}
  NonUserRequests = {n1, n2}
  MailboxCapacity = 1
  FenceCapacity = 2
  Timeout = 1
  Stoppers = {s1, s2}
  MaxSession = 1
  None = None
  UserTurns = {t1, t2}
  IdleTimeout = 2
  MaxTime = 4
  MaxOpportunities = 2
  MaxText = 3
  ChunkSize = 2
  MaxThoughts = 2
  Sizes = {1, 3}
  MaxGiven = 3
  MaxContext = 3
  MaxObservation = 2
  AppraisalWindow = 2
  PlannerWindow = 2
  MaxProposals = 1
  CognitionCapacity = 3
  AmbientCapacity = 1
SPECIFICATION CharacterSpec
CHECK_DEADLOCK FALSE
INVARIANTS
  OneExecutor
  AdmissionsAccounted
  UserPreempts
  StoppedIsQuiet
  ExclusionBalanced
  FinalTextShown
  ThoughtsKeepTheirLane
  EvidenceTellsTheThought
  RequestsAreTheNewest
PROPERTIES
  NoReexecution
  CancellationSettles
  StopsReturn
  NoLostWakeup
  TerminalCallEnds
