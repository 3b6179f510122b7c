SPECIFICATION Spec
CONSTANTS
  Runs = {1, 2}
  IdemKeys = {k}
  NoKey = NoKey
  NoRun = NoRun
  MaxTerminalRuns = 1
  DropEventsOnEviction = FALSE
  SlowRunEnabled = FALSE
  WatchChoices = {FALSE}
  ResumableChoices = {TRUE}
  Cancellable = {}
  MaxEntries = 3
  MaxRuns = 2
  InMemory = FALSE
  MaxCursor = 3
  MaxPending = 2
  MaxSuspensions = 0
  MaxFailures = 1
  MaxCrashes = 2
INVARIANTS
  IndexSound
  TerminalBookkeeping
  NoStrandedWaiter
  EndsWithinAttempts
PROPERTIES
  LiveRecordsKept
  CursorNeverReused
  BootLeavesNoOrphan
  RehydrationEnds
CHECK_DEADLOCK FALSE
