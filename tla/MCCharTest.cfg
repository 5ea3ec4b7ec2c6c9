SPECIFICATION Spec
CONSTANTS
  CellValues = 2
  SymbolAddress <- MCSymbols
  Code = {}
  Expr <- MCCharTest
  Depth <- MCDepth
  Vars <- MCVars
  Envs <- MCEnvs
  Garbage = {0, 54}
  StackTop = 200
  StackLimit = 176
INVARIANTS
  EveryBranchAsInC
CHECK_DEADLOCK FALSE
