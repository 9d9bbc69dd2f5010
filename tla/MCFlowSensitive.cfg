CONSTANTS
  Var <- MCVar
  Obj <- MCObj
  Fun <- MCFun
  Loc <- MCLoc
  Offset <- MCOffset
  FieldAt <- MCFieldAt
  NonPointer = {"f", "g"}
  Singular <- MCSingular
  Programs <- MCProgramsFlow
  NoLoc = "none"
  Reference <- LeastFlow
SPECIFICATION Spec
INVARIANTS
  UnflaggedDelivered
  LeastWhenDone
PROPERTIES
  Termination
