SPECIFICATION Spec
CONSTANTS
  Runs = {1}
  IdemKeys = {}
  NoKey = NoKey
  NoRun = NoRun
  MaxTerminalRuns = 1
  DropEventsOnEviction = TRUE
  SlowRunEnabled = TRUE
  WatchChoices = {TRUE, FALSE}
  ResumableChoices = {TRUE, FALSE}
  Cancellable = {1}
  MaxEntries = 5
  MaxRuns = 1
  InMemory = TRUE
  MaxCursor = 4
  MaxPending = 2
  MaxSuspensions = 2
  MaxFailures = 0
  MaxCrashes = 0
INVARIANTS
  RunLifecycleTypeOK
  TerminalLogClosed
  SuspendedNoticeIsOff
  CancelReachesDriver
PROPERTIES
  InactivityEndsRun
CHECK_DEADLOCK FALSE
