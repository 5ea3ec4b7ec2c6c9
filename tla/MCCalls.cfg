SPECIFICATION Spec
CONSTANTS
  Fun = {"f", "g", "h", "p"}
  Args <- MCArgs
  Ret <- MCRet
  Framed = {"main", "f", "p"}
  StructSize = 3
  Nesting = TRUE
  VoidReturn = TRUE
  MaxCalls = 3
  MaxReads = 2
INVARIANTS
  TypeOK
  ArgumentsAgree
  ResultOnTop
  StackBalanced
  LocalsKept
  NeverWild
  StackClearOfLocals
CHECK_DEADLOCK FALSE
