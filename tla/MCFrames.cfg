SPECIFICATION Spec
CONSTANTS
  s1 = s1
  f1 = f1
  x1 = x1
  Id <- MCFrameId
  StructName = {s1}
  Fun = {f1}
  Returns = {"int"}
  HeapInts <- MCLeftOver
  MaxArgs = 20
  MaxNames <- MCFrames
INVARIANTS
  TypeOK
  VariablesDisjoint
  LocalsInFrame
  FieldsInImage
  ParamsTile
CHECK_DEADLOCK FALSE
