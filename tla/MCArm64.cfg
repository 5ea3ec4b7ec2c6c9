SPECIFICATION Spec
CONSTANTS
  CellValues = 2
  SymbolAddress <- MCSymbols
  Code <- MCCode
  Values = {0, 1, 7, 128, 200, 255}
  MaxImm = 10
  MaxSteps = 2
INVARIANTS
  ExitRestores
PROPERTIES
  MeansTheSame
CHECK_DEADLOCK FALSE
