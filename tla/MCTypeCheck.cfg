SPECIFICATION Spec
CONSTANTS
  Locals <- MCLocals
  Globals <- MCGlobals
  Owner <- MCOwner
  Structs <- MCStructs
  Expr <- MCExpr
  Stmt <- MCStmt
INVARIANTS
  AcceptedTyped
  TypedAccepted
  CrashesOnUndeclared
CHECK_DEADLOCK FALSE
