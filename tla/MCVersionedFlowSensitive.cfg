CONSTANTS
  Var <- MCVar
  Obj <- MCObj
  Fun <- MCFun
  Loc <- MCLoc
  Offset <- MCOffset
  FieldAt <- MCFieldAt
  NonPointer = {"f", "g"}
  Singular <- MCSingular
  Programs <- MCProgramsVersioned
  NoLoc = "none"
  Reference <- LeastFlow
SPECIFICATION Spec
INVARIANTS
  ReliantDelivered
  StatementsNotified
  LeastWhenDone
PROPERTIES
  Termination
