SPECIFICATION AssignSpec
CONSTANTS
  s1 = s1
  f1 = f1
  x1 = x1
  y1 = y1
  Id <- MCId
  StructName = {s1}
  Fun = {f1}
  Returns = {"int"}
  HeapInts <- MCZero
  MaxArgs = 20
  Registers = {"rbp"}
  MaxNames <- MCNames
SYMMETRY MCSymmetry
INVARIANTS
  NoSilentRedefinition
  CopyIsFieldwise
  OthersKept
CHECK_DEADLOCK FALSE
