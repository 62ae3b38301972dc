\* Each component by itself, in instances as small as its hazards allow.
CONSTANTS
  e1 = e1  m1 = m1  m2 = m2  None = None
  \* work reports
  Reports = {1, 2, 3}
  Queries = {1}
  Equipment = {e1}
  Assets = {a1, a2}
  Editions = {v1, v2}
  Drafts <- MCDrafts
  MaxRecords = 2
  MaxCards = 2
  \* plant configuration
  Catalogs <- MCCatalogs
  Uploads <- MCUploads
  Capabilities = {"transport", "discharge", "drive"}
  BuiltIn <- MCBuiltIn
  Shipped <- MCShipped
  Patterns <- MCPatterns
  Extra <- MCExtra
  Switches = {"jam"}
  NoConfig = NoConfig
  MaxRuns = 3
  MaxChanges = 2
  MaxTicks = 1
  MaxFaults = 2
  \* accounts
  Employees = {a, b, c}
  Admin = a
  MaxFailures = 2
  Window = 2
  Lifetime = 2
  MaxClock = 4
  MaxTokens = 2
  MaxAttempts = 4
  \* progressive faults
  Machines = {1, 2}
  Breakable = {1, 2}
  Queueing = {2}
  Gaps = {2, 3}
  Visible = 2
  Confirmations = 3
  NoPlan = NoPlan
  NoFault = NoFault
  MaxFaultTicks = 7
  MaxSteps = 2
  MaxFaultsMade = 2
  \* random faults
  Options = {p, q, r}
  MaxActive = 2
  Durations = {2, 3}
  Rests = {1, 2}
  Never = Never
  MaxSequence = 6
  \* coils on the line
  Route <- MCCoilRoute
  ScrapFrom = "RT-03"
  ScrapTo = "CV-02"
  Capacity <- MCCapacity
  Disturbances = {"overload", "quality_hold"}
  Prescribed = {"quality_hold"}
  HoldScenarios = {"quality_hold"}
  StopsAt <- MCStopsAt
  Stabilizing = 2
  MaxCoils = 5
  \* the PDA's screens
  Machinery = {m1, m2}
  Foreign = xx
  MaxScanRuns = 1
  MaxUploads = 2
  MaxShots = 1
  MaxTurns = 1
  \* its repair records
  Stations = {m1, m2}
  Chips = {c1}
  Linked = {c1}
  Typed = {t1}
  MaxOpened = 2
  MaxLost = 1
  MaxDone = 2
  MaxSent = 4
  MaxBehind = 1
  MaxStrays = 1
  \* what it saves
  Words = {none, w1}
  Rest = {none, r1}
  Blank = none
  MaxIds = 2
  MaxPosts = 2
  MaxReloads = 1
  MaxOverdue = 1
  \* signing in
  Workers = {a, b}
  Nobody = nobody
  Need = 2
  MaxCameras = 2
  MaxSaves = 1
SPECIFICATION ComponentsSpec
INVARIANTS
  IncidentsAreChains HandoverCandidateCloses CitationsKeepTheAsset
  ActiveIsValid AppliedChangesChain TickerOutlivesCommands
  ConfirmedAccountsStay GuessesAreSlow
  ModeHidesNothing FaultsEndByRepair CompletedWasCalm
  SchedulerKeepsUp WarningsFollowFaults
  CapacityIsKept RejectsLeaveAsScrap
  AnswersFitTheScreen BusyMeansWaiting ScreenShowsTheSession ChatReportsNameTheirOwnSession
  UnconfirmedIsPending WorkersWereChecked
CHECK_DEADLOCK FALSE
