SPECIFICATION Spec
CONSTANTS
  Runs = {r1, r2, r3}
  Payloads <- MCPayloads
  Keys = {k}
  NoKey = NoKey
  MaxEntries = 2
  MaxRuns = 1
  InMemory = TRUE
  MaxCursor = 4
INVARIANTS
  EventLogTypeOK
  ReplayIsExact
  EvictableExactlyEnded
  RunCapSparesOnlyLive
  RetainedKeysDistinct
PROPERTIES
  LiveRunsKept
  EndedRunsShrink
CHECK_DEADLOCK FALSE
