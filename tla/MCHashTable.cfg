SPECIFICATION FairSpec
CONSTANTS
  k1 = k1
  k2 = k2
  k3 = k3
  k4 = k4
  v1 = v1
  v2 = v2
  NULL = NULL
  Key <- MCKey
  Value <- MCValue
  Hash <- MCHash
  InitCapacity = 2
  SizeModulus = 16
INVARIANTS
  TypeOK
  TableWellFormed
  LoadBounded
  IInv
PROPERTIES
  ImplementsMap
  CallsReturn
