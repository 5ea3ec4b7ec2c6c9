SPECIFICATION Spec
CONSTANTS
  Tree <- MCTree
  Bodies <- MCFlat
  Oracles <- MCOracles
INVARIANTS
  RejectedMayReachEnd
CHECK_DEADLOCK FALSE
