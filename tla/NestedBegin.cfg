SPECIFICATION Spec
CONSTANTS
  Chains = {a, b}
  Kernels = {k1}
  f1 = f1
  Files = {f1}
  FileOf <- OneFile
  Legacy = {k1}
  Nesters = {}
  MaxDepth <- Nesting
  MaxCalls = 1
PROPERTIES
  NoNestedBegin
CHECK_DEADLOCK FALSE
