SPECIFICATION Spec
CONSTANTS
  p1 = p1
  p2 = p2
  Proc = {p1, p2}
  Source <- MCSource
  Program <- MCProgram
  Outcome <- MCOutcome
  Invocations <- MCInvocations
  Modes = {TRUE, FALSE}
  ToolsFail = TRUE
  OutputFails = TRUE
SYMMETRY MCSymmetry
INVARIANTS
  AnonymousGone
PROPERTIES
  OutputIsOwn
  ErrorLeavesNoOutput
  SourcesKept
  StatusIsVerdict
CHECK_DEADLOCK FALSE
