SPECIFICATION Spec
CONSTANTS
  Chains = {a, b, c}
  Kernels = {k1, k2}
  f1 = f1
  Files = {f1}
  FileOf <- OneFile
  Legacy = {k1}
  Nesters = {a, b}
  MaxDepth <- Nesting
  MaxCalls = 2
INVARIANTS
  KernelTypeOK
  TurnsExclude
  LockCountsTurns
  NoLostGrant
PROPERTIES
  NoOvertaking
  EveryTurnComes
CHECK_DEADLOCK FALSE
