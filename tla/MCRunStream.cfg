SPECIFICATION Spec
CONSTANTS
  Run = run
  Conns = {c1, c2}
  NoConn = NoConn
  MaxEntries = 3
  InMemory = TRUE
  MaxCursor = 4
  MaxQueued = 1
  HighWater = 1
  MaxDrops = 1
INVARIANTS
  RunStreamTypeOK
  LiveStreamIsComplete
  NoLeakedSubscriber
PROPERTIES
  ImplementsFeed
CHECK_DEADLOCK FALSE
