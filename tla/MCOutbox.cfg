SPECIFICATION Spec
CONSTANTS
  Rows = {r1}
  Transactions = {t}
  Workers = {v, w}
  Tokens = {c1, c2, c3}
  None = None
  MaxAttempts = 2
  BatchSize = 1
  Stoppable = {v}
  MaxLate = 1
INVARIANTS
  OutboxTypeOK
  SentAtMostOnce
  StopIsFinal
PROPERTIES
  KeepsPromise
  EveryClaimResolves
CHECK_DEADLOCK FALSE
