\* Fourteen parts, one at a time, each with its bounds.
SPECIFICATION MCSpec
CONSTANTS
  ui = ui
  Paths = {"f", "g"}  Audited = {"f", "g"}  Bytes = {"s", "t"}  MaxTouches = 1  MaxFailures = 1
  MaxTrouble = 1
  Packages = {"p"}  CacheMarkets = {"m1", "m2"}  CacheAudits = {1, 2}
  MainWindow = ui  Renewals = 2
  Folders = {"lib", "sub"}  Roots = {"lib", "sub"}  LibraryPaths = {"b"}  In <- InDef
  PackageContents = {"s", "t"}  MaxTime = 2  MaxScans = 2  MaxSaves = 1
  Columns = {"c", "d", "l"}  Applies <- AppliesDef  Ids = {"v", "w"}  ViewNames = {"n", "m"}
  MaxViews = 2  MaxEdits = 3
  Queries = {"q1", "q2"}  AppLists = {"p"}  MaxWrites = 4
  Deadline = 3  MaxSessions = 2  MaxNoise = 1
  Phones = {"f", "g"}  SavedProfiles = {"p1"}  MaxDialogs = 2  MaxCaptures = 2  MaxPlugs = 1
  ResolutionApps = {"p1", "p2"}  Eligible <- EligibleDef  Threads = 1
  MaxSignIns = 2  MaxAudits = 2
  EligibleApps = {"b"}  Stores = {"s1", "s2"}  Workers = 2  MaxPhases = 2
  ScanPhones = {"g", "h"}  ScanPackages = {"k1", "k2"}  MaxScanPlugs = 4
  MaxAttempts = 2  MaxRuns = 1  Upstreams <- UpstreamsDef  MaxAppTrouble = 3
  NApps = 1  M = 2  StoreWorkers = 2  BatchSize = 2  MaxRetries = 1  English <- OtherMarkets
  MaxPauses = 1
  Targets = {"x64", "arm64"}  Engineering = "x64"  SourceNames = {"s1", "s2"}
  Commits = {1, 2}  WorkflowRuns = {1, 2, 3}  Grace = 1
INVARIANTS
  EntriesAndRowsFit LibraryIsSound UntouchedStaysPresent RowsFollowDeletions ViewsAreKept
  SettingsKeepMeaning AnswersBelong EvidenceFitsItsSession EveryMissIsAnswered
  RowsSayWhatSourcesSaid CaptureIsSound CandidateIsSound BundleIsSound
  ReleasesHold AuditInv StopBoundsRequests
PROPERTIES
  UndisturbedOperationsHold DeletionsAreReviewed OtherSourceIsKept ProfilesHold
  PauseAdmitsNoFetch ImplementsPromise
CHECK_DEADLOCK FALSE
