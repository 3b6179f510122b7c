SPECIFICATION Spec
CONSTANTS
  Runs = {1, 2}
  IdemKeys = {k}
  NoKey = NoKey
  NoRun = NoRun
  MaxTerminalRuns = 2
  DropEventsOnEviction = FALSE
  SlowRunEnabled = FALSE
  WatchChoices = {FALSE}
  ResumableChoices = {TRUE}
  Cancellable = {}
  MaxEntries = 4
  MaxRuns = 1
  InMemory = TRUE
  MaxCursor = 3
  MaxPending = 1
  MaxSuspensions = 0
  MaxFailures = 0
  MaxCrashes = 0
PROPERTY
  CursorNeverReused
CHECK_DEADLOCK FALSE
