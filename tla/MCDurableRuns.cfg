SPECIFICATION Spec
CONSTANTS
  Coordinators = {p, q}
  Calls = {c}
  RecoveryLimit = 1
  MaxInputs = 2
  MaxUnnamed = 1
INVARIANTS
  DurableRunsTypeOK
  RecoveryBounded
PROPERTIES
  UnknownCallsNotRepeated
  StopFences
  AnswerEnds
CHECK_DEADLOCK FALSE
