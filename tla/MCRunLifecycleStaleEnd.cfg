SPECIFICATION Spec
CONSTANTS
  Runs = {1, 2}
  IdemKeys = {k}
  NoKey = NoKey
  NoRun = NoRun
  MaxTerminalRuns = 1
  DropEventsOnEviction = FALSE
  SlowRunEnabled = FALSE
  WatchChoices = {FALSE}
  ResumableChoices = {TRUE}
  Cancellable = {}
  MaxEntries = 4
  MaxRuns = 2
  InMemory = FALSE
  MaxCursor = 3
  MaxPending = 1
  MaxSuspensions = 0
  MaxFailures = 0
  MaxCrashes = 1
INVARIANT
  TerminalLogClosed
CHECK_DEADLOCK FALSE
