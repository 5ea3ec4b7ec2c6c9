SPECIFICATION Spec
CONSTANTS
  CellValues = 2
  SymbolAddress <- MCSymbols
  Code = {}
  Expr <- MCExpr
  Depth <- MCDepth
  Vars <- MCVars
  Envs <- MCEnvs
  Garbage = {0, 54}
  StackTop = 200
  StackLimit = 176
INVARIANTS
  StackKept
  BranchAsInC
  ValuesAsInC
  NeverUnspecified
CHECK_DEADLOCK FALSE
