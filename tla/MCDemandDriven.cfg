CONSTANTS
  Var <- MCVar
  Obj <- MCObj
  Fun <- MCFun
  Loc <- MCLoc
  Offset <- MCOffset
  FieldAt <- MCFieldAt
  NonPointer = {"f", "g"}
  Singular <- MCSingular
  Programs <- MCProgramsDemand
  NoLoc = "none"
  Reference <- LeastFlow
  Budgets = {2, 5, 99}
  Unlimited = 99
  MaxQueries = 2
SPECIFICATION Spec
INVARIANTS
  CachesClosed
  AnswersSound
  AnswersPrecise
PROPERTIES
  QueryAnswered
CHECK_DEADLOCK FALSE
