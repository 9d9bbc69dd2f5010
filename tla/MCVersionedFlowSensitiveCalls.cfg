CONSTANTS
  Var <- MCVar
  Obj <- MCObj
  Fun <- MCFun
  Loc <- MCLoc
  Offset <- MCOffset
  FieldAt <- MCFieldAt
  NonPointer = {"f", "g"}
  Singular <- MCSingular
  Programs <- MCProgramsForwarded
  NoLoc = "none"
  Reference <- LeastFlow
SPECIFICATION Spec
INVARIANT SoundWhenDone
