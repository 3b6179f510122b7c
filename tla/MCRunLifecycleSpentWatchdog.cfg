SPECIFICATION Spec
CONSTANTS
  Runs = {1}
  IdemKeys = {}
  NoKey = NoKey
  NoRun = NoRun
  MaxTerminalRuns = 1
  DropEventsOnEviction = FALSE
  SlowRunEnabled = FALSE
  WatchChoices = {TRUE}
  ResumableChoices = {FALSE}
  Cancellable = {}
  MaxEntries = 4
  MaxRuns = 1
  InMemory = FALSE
  MaxCursor = 3
  MaxPending = 2
  MaxSuspensions = 0
  MaxFailures = 1
  MaxCrashes = 0
PROPERTY
  InactivityEndsRun
CHECK_DEADLOCK FALSE
