SPECIFICATION FairSpec
CONSTANTS
  Tree <- MCTree
  Bodies <- MCBodies
  Oracles <- MCOracles
INVARIANTS
  RunsAsWritten
  NeverThrough
  AcceptedReturns
  LabelsUnique
PROPERTIES
  Stops
CHECK_DEADLOCK FALSE
