SPECIFICATION Spec
CONSTANTS
  install = install  button = button  r1 = r1  r2 = r2  r3 = r3
  BucketSize = 8
  RestoreRate = 2
  CallCosts = {1, 3, 7}
  Jitters = {0, 50}
  MaxWait = 3
  MaxCalls = 3
  SetupRuns = {install, button}
  Installs = {install}
  MaxObjects = 2
  CatalogSize = 5
  StepCount = 2
  PageSize = 2
  MaxPages = 2
  LookupBatch = 2
  PerStep = 2
  MaxEdits = 1
  PushRows = 2
  PushAttempts = 2
  QueueRows = {r1, r2, r3}
  TickJobs = 2
  MaxRequests = 2
  MaxSignals = 2
  FileLines = 2
  Files <- MCFiles
  MaxSample = 1
  MaxPresses = 3
  LogRows = 2
  LogPage = 1
  MaxLoads = 2
  MaxChanges = 4
  MaxErrors = 1
  Creators = {r1, r2, r3}
  MaxEarlier = 3
  MaxHandleTries = 2
  NoCreator = NoCreator
INVARIANTS
  RefusedOnlyIfUnforeseen ReportIsTrue ScanTellsTruth WrittenOnce DisconnectsIdle ReportAddsUp
  ErrorsAreTrue GivesUpOnlyIfOvertaken
PROPERTY LogCatchesUp
CHECK_DEADLOCK FALSE
