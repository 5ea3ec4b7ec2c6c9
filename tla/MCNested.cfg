SPECIFICATION Spec
CONSTANTS
  Fun = {"f", "g"}
  Args <- MCNestedArgs
  Ret <- MCNestedRet
  Framed = {"main"}
  StructSize = 3
  Nesting = TRUE
  VoidReturn = FALSE
  MaxCalls = 2
  MaxReads = 0
INVARIANTS
  NestedResultOnTop
CHECK_DEADLOCK FALSE
